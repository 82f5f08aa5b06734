---------------------------- MODULE MC_Sanitize ----------------------------
(* Bounded inputs for Sanitize: every scalar kind the code distinguishes, *)
(* lists and tuples of up to two elements, dicts of up to two entries     *)
(* with str, int and None keys (an int key next to a str key with the     *)
(* same text collides after json.dumps), and one level of nesting.        *)
EXTENDS Sanitize

MC_TaskId == "task"

Scalars ==
  {None, PyBool("True"), PyInt("1"), PyFloat("fin"), PyFloat("nan"), PyFloat("inf"),
   PyStr("a"), Object}

DictsOver(K, V) ==
  {PyDict(<<>>)}
  \cup {PyDict(<<<<k, v>>>>) : k \in K, v \in V}
  \cup {PyDict(<<<<ks[1], v1>>, <<ks[2], v2>>>>) :
          ks \in {p \in K \X K : p[1] # p[2]}, v1 \in V, v2 \in V}

SeqsOver(V) == {<<>>} \cup {<<v>> : v \in V} \cup {<<v, w>> : v \in V, w \in V}

Nested == {PyList(<<PyFloat("nan")>>), PyTuple(<<PyStr("a")>>), PyDict(<<<<PyInt("1"), PyStr("a")>>>>)}

MC_Results ==
  Scalars
  \cup {PyList(s) : s \in SeqsOver(Scalars)}
  \cup {PyTuple(<<>>), PyTuple(<<PyFloat("inf")>>)}
  \cup DictsOver({PyStr("a"), PyStr("1"), PyInt("1"), None}, Scalars \cup Nested)

MC_Metas ==
  {None, PyList(<<>>)}
  \cup DictsOver({TaskIdKey, PyStr("1"), PyInt("1")},
                 {PyStr("a"), PyFloat("nan"), Object, PyTuple(<<PyInt("1")>>)})

MC_Updates ==
  DictsOver({PyStr("parameters"), PyStr("logsUrl"), PyStr("timeoutMs"), PyStr("extra")},
            {PyStr("a"), PyFloat("nan"), Object, PyDict(<<<<PyInt("1"), PyStr("a")>>>>)})

MC_References ==
  DictsOver({PyStr("a"), PyInt("1")}, {PyStr("a"), PyFloat("nan"), Object})
=============================================================================
