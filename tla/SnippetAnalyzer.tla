--------------------------- MODULE SnippetAnalyzer ---------------------------
(***************************************************************************)
(* pythonSnippetAnalyzer.py: one run of main() on a snippet file.          *)
(*                                                                         *)
(* The snippet is a sequence of top-level statements, each abstracted to   *)
(* what the analyzer can tell apart: an import (ast.Import), a from-import *)
(* (ast.ImportFrom, module "" for a relative one), an __import__ call the *)
(* AST walk does not see, a BaseModel subclass, a function definition     *)
(* with its arity and annotations, and the snippet's own print, raise and *)
(* sys.exit.  exec runs them in order, one step per statement, and binds  *)
(* names in the namespace dict.  What stdout and stderr receive is kept   *)
(* as verdict records; their JSON text is left out.                        *)
(***************************************************************************)
EXTENDS Naturals, Sequences, SequencesExt, TLC

CONSTANTS
  ALLOWED_MODULES, \* the allow-list of module roots
  Snippets,        \* snippet files, as records [parses, stmts]
  NameOrder,       \* every bound name, in Python's string order
  ArgCounts        \* values of len(sys.argv)

VARIABLES
  pc,         \* "main", "pydantic", "load", "exec", "resolve", "exit"
  argc,       \* len(sys.argv)
  snippet,    \* the file behind sys.argv[1]
  marker,     \* <tmp>/apphub-python-snippet-deps/pydantic/.installed exists
  pkgDir,     \* .../pydantic/pydantic exists
  sysPydantic,\* pydantic importable without the install
  i,          \* exec: the next statement
  ns,         \* the namespace dict exec fills
  imported,   \* module names a guarded __import__ returned
  stdout,     \* lines printed to stdout
  stderr,     \* what reaches stderr
  exitCode
vars == <<pc, argc, snippet, marker, pkgDir, sysPydantic, i, ns, imported,
          stdout, stderr, exitCode>>

\* The namespace's values: a module object, a BaseModel subclass, a function.
ModuleVal(m) == [kind |-> "module", module |-> m]
Model        == [kind |-> "model"]
IsFunction(v) == v.kind = "function"

\* The payloads main() prints, and a line printed by the snippet itself.
OkVerdict(h) == [ok |-> TRUE, handler |-> h]
ErrVerdict(e) == [ok |-> FALSE, error |-> e]
Noise == [noise |-> TRUE]

-----------------------------------------------------------------------------
(* ensure_allowed_imports and guarded_import: the import policy.           *)

Root(m) == m   \* alias.name.split('.')[0]: names here are roots already

ensure_allowed_imports(stmts) ==
  \A k \in DOMAIN stmts :
    \/ stmts[k].kind = "import" /\ Root(stmts[k].module) \in ALLOWED_MODULES
    \/ stmts[k].kind = "from"
         /\ (stmts[k].module = "" \/ Root(stmts[k].module) \in ALLOWED_MODULES)
    \/ stmts[k].kind \notin {"import", "from"}

\* SAFE_BUILTINS['__import__']: every import statement, relative ones (name
\* "") included, and every __import__ call goes through it.
guarded_import(name) == Root(name) \in ALLOWED_MODULES

-----------------------------------------------------------------------------
(* resolve_handler                                                         *)

Preferred(n) == n \in {"handler", "run", "main"}
NamePos(n) == CHOOSE k \in DOMAIN NameOrder : NameOrder[k] = n

\* The analyzer's `from __future__ import annotations` is inherited by exec,
\* so annotations stay strings until get_type_hints evaluates them in the
\* final namespace: "model" names the class In and resolves only if In is
\* bound by then, "unresolved" never does, and a failure skips the function.
Resolves(env, a) == a = "model" => "In" \in DOMAIN env

\* A function is a candidate when get_type_hints succeeds, it has exactly
\* one parameter, and the parameter and the return are BaseModel classes.
Candidates(env) ==
  {n \in DOMAIN env :
     /\ IsFunction(env[n])
     /\ env[n].param # "unresolved" /\ env[n].ret # "unresolved"
     /\ Resolves(env, env[n].param) /\ Resolves(env, env[n].ret)
     /\ env[n].arity = 1
     /\ env[n].param = "model" /\ env[n].ret = "model"}

\* The sort key (-score, name).
SortKeyBefore(a, b) ==
  \/ Preferred(a) /\ ~Preferred(b)
  \/ Preferred(a) = Preferred(b) /\ NamePos(a) < NamePos(b)

\* A mutant that sorts by name only, forgetting the score.
resolve_handler_by_name(env) ==
  SetToSortSeq(Candidates(env), LAMBDA a, b : NamePos(a) < NamePos(b))[1]

\* candidates.sort(key=(-score, name)); candidates[0].
resolve_handler(env) == SetToSortSeq(Candidates(env), SortKeyBefore)[1]

-----------------------------------------------------------------------------
(* main(): what reaches stdout and the exit status on each way out.        *)

\* except AnalysisError / except Exception: print the error payload on
\* stdout and exit 0.
Fail(err) ==
  /\ stdout' = Append(stdout, ErrVerdict(err))
  /\ exitCode' = 0
  /\ UNCHANGED stderr

Exit == pc' = "exit"

\* A mutant that binds the import node instead of the object it names.
BoundNode(s) == s

\* The object an import binds: the module for `import m`, the attribute
\* getattr(module, name) for `from m import name`.
Bound(s) == s.val

Init ==
  /\ pc = "main"
  /\ argc \in ArgCounts
  /\ snippet \in Snippets
  /\ marker \in BOOLEAN
  /\ pkgDir \in BOOLEAN
  /\ sysPydantic \in BOOLEAN
  /\ i = 1
  /\ ns = <<>>
  /\ imported = {}
  /\ stdout = <<>>
  /\ stderr = <<>>
  /\ exitCode = 0

\* len(sys.argv) != 2: the error payload on stdout and status 1.
Main ==
  /\ pc = "main"
  /\ IF argc # 2
       THEN /\ stdout' = Append(stdout, ErrVerdict("args"))
            /\ exitCode' = 1
            /\ Exit
       ELSE /\ pc' = "pydantic"
            /\ UNCHANGED <<stdout, exitCode>>
  /\ UNCHANGED <<argc, snippet, marker, pkgDir, sysPydantic, i, ns, imported, stderr>>

\* ensure_pydantic: import it, or pip-install it under the temp directory
\* unless the marker and the package are both there.  A failed pip raises
\* SystemExit(json): the payload goes to stderr and the status is 1.
EnsurePydantic ==
  /\ pc = "pydantic"
  /\ IF sysPydantic \/ (marker /\ pkgDir)
       THEN /\ pc' = "load"
            /\ UNCHANGED <<marker, pkgDir, stderr, exitCode>>
       ELSE \/ /\ pkgDir' = TRUE
               /\ marker' = TRUE
               /\ pc' = "load"
               /\ UNCHANGED <<stderr, exitCode>>
            \/ /\ stderr' = Append(stderr, ErrVerdict("pip"))
               /\ exitCode' = 1
               /\ Exit
               /\ UNCHANGED <<marker, pkgDir>>
  /\ UNCHANGED <<argc, snippet, sysPydantic, i, ns, imported, stdout>>

\* load_snippet, ast.parse (SyntaxError is not an AnalysisError) and
\* ensure_allowed_imports (ValueError, not an AnalysisError either).
LoadAndCheck ==
  /\ pc = "load"
  /\ IF snippet.parses /\ ensure_allowed_imports(snippet.stmts)
       THEN /\ pc' = "exec"
            /\ UNCHANGED <<stdout, exitCode, stderr>>
       ELSE /\ Fail("unexpected")
            /\ Exit
  /\ UNCHANGED <<argc, snippet, marker, pkgDir, sysPydantic, i, ns, imported>>

\* Whether the statement exec runs next raises.  A class body needs
\* BaseModel bound; a def never raises, its annotations being postponed.
Raises(s) ==
  \/ s.kind \in {"import", "from", "call"} /\ ~guarded_import(s.module)
  \/ s.kind = "class" /\ "BaseModel" \notin DOMAIN ns
  \/ s.kind = "raise"

\* One statement of exec(snippet, SAFE_GLOBALS, namespace).  An exception
\* becomes AnalysisError("Failed to execute snippet"); SystemExit is not an
\* Exception and ends the process with status 0 and nothing more.
ExecStatement ==
  LET s == snippet.stmts[i]
  IN /\ pc = "exec"
     /\ i <= Len(snippet.stmts)
     /\ CASE Raises(s) ->
               /\ Fail("analysis") /\ Exit
               /\ UNCHANGED <<ns, imported>>
          [] s.kind = "exit" ->
               /\ exitCode' = 0 /\ Exit
               /\ UNCHANGED <<ns, imported, stdout, stderr>>
          [] s.kind = "print" ->
               /\ stdout' = Append(stdout, Noise)
               /\ UNCHANGED <<pc, ns, imported, stderr, exitCode>>
          [] s.kind = "call" ->
               /\ imported' = imported \cup {s.module}
               /\ UNCHANGED <<pc, ns, stdout, stderr, exitCode>>
          [] s.kind \in {"import", "from"} ->
               /\ imported' = imported \cup {s.module}
               /\ ns' = (s.bind :> Bound(s)) @@ ns
               /\ UNCHANGED <<pc, stdout, stderr, exitCode>>
          [] s.kind = "class" ->
               /\ ns' = (s.bind :> Model) @@ ns
               /\ UNCHANGED <<pc, imported, stdout, stderr, exitCode>>
          [] s.kind = "def" ->
               /\ ns' = (s.fn.name :> s.fn) @@ ns
               /\ UNCHANGED <<pc, imported, stdout, stderr, exitCode>>
     /\ i' = i + 1
     /\ UNCHANGED <<argc, snippet, marker, pkgDir, sysPydantic>>

ExecDone ==
  /\ pc = "exec"
  /\ i > Len(snippet.stmts)
  /\ pc' = "resolve"
  /\ UNCHANGED <<argc, snippet, marker, pkgDir, sysPydantic, i, ns, imported,
                 stdout, stderr, exitCode>>

\* The models check, resolve_handler, model_schema, and the result payload.
Resolve ==
  /\ pc = "resolve"
  /\ IF \E n \in DOMAIN ns : ns[n] = Model
       THEN IF Candidates(ns) # {}
              THEN /\ stdout' = Append(stdout, OkVerdict(resolve_handler(ns)))
                   /\ UNCHANGED <<stderr, exitCode>>
              ELSE Fail("analysis")
       ELSE Fail("analysis")
  /\ Exit
  /\ UNCHANGED <<argc, snippet, marker, pkgDir, sysPydantic, i, ns, imported>>

Next ==
  \/ Main
  \/ EnsurePydantic
  \/ LoadAndCheck
  \/ ExecStatement
  \/ ExecDone
  \/ Resolve

Spec == Init /\ [][Next]_vars

-----------------------------------------------------------------------------
(* Properties                                                              *)

Names       == {NameOrder[k] : k \in DOMAIN NameOrder}
Errors      == {"args", "pip", "analysis", "unexpected"}
Verdicts    == {OkVerdict(h) : h \in Names} \cup {ErrVerdict(e) : e \in Errors}
OkVerdicts  == {OkVerdict(h) : h \in Names}
Stmts       == snippet.stmts

TypeOK ==
  /\ pc \in {"main", "pydantic", "load", "exec", "resolve", "exit"}
  /\ i \in 1..Len(Stmts) + 1
  /\ DOMAIN ns \subseteq Names
  /\ \A n \in DOMAIN ns :
       ns[n] = Model \/ ns[n].kind = "module" \/ IsFunction(ns[n])
  /\ stdout \in Seq(Verdicts \cup {Noise})
  /\ stderr \in {<<>>, <<ErrVerdict("pip")>>}
  /\ exitCode \in {0, 1}

\* A snippet with an import statement of a module off the allow-list is
\* refused by the static check before exec, not statement by statement by
\* guarded_import: none of it runs, not even the allowed imports and prints
\* before the forbidden one, and it gets no successful verdict.  Stated from
\* the policy (ensure_allowed_imports before execute_snippet in analyse),
\* independently of the walk's code.
StaticallyForbidden ==
  \E k \in DOMAIN Stmts :
    Stmts[k].kind \in {"import", "from"} /\ Stmts[k].module \notin ALLOWED_MODULES \cup {""}
Defs == {k \in DOMAIN Stmts : Stmts[k].kind = "def"}
LastDef(n) ==
  Stmts[CHOOSE k \in Defs : Stmts[k].fn.name = n
                            /\ \A l \in Defs : Stmts[l].fn.name = n => l <= k].fn
DefinesIn == \E k \in DOMAIN Stmts : Stmts[k].kind = "class"
Eligible ==
  {n \in {Stmts[k].fn.name : k \in Defs} :
     LastDef(n).arity = 1 /\ LastDef(n).param = "model" /\ LastDef(n).ret = "model"
     /\ DefinesIn}
BestRanked ==
  CHOOSE n \in Eligible :
    \A m \in Eligible \ {n} :
      IF Preferred(n) = Preferred(m) THEN NamePos(n) < NamePos(m) ELSE Preferred(n)
HandlerIsBestRanked ==
  \A k \in DOMAIN stdout : stdout[k] \in OkVerdicts => stdout[k].handler = BestRanked
=============================================================================
