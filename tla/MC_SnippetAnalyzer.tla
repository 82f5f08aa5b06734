-------------------------- MODULE MC_SnippetAnalyzer --------------------------
EXTENDS SnippetAnalyzer

MC_Allowed == {"pydantic", "pathlib"}

\* Function definitions: name, arity and annotations ("model" names the
\* class In, "unresolved" is a string annotation get_type_hints cannot
\* resolve).
Fn(n, a, p, r) == [kind |-> "function", name |-> n, arity |-> a, param |-> p, ret |-> r]
Def(f) == [kind |-> "def", fn |-> f]

FromPydantic   == [kind |-> "from", module |-> "pydantic", bind |-> "BaseModel", val |-> Model]
ClassIn        == [kind |-> "class", bind |-> "In"]
ImportOs       == [kind |-> "import", module |-> "os", bind |-> "os", val |-> ModuleVal("os")]
FromRelative   == [kind |-> "from", module |-> "", bind |-> "x", val |-> ModuleVal("x")]
CallImportOs   == [kind |-> "call", module |-> "os"]
FromOsPath     == [kind |-> "from", module |-> "os", bind |-> "path", val |-> ModuleVal("os")]
FromPathlibOs  == [kind |-> "from", module |-> "pathlib", bind |-> "os", val |-> ModuleVal("os")]

MC_Body ==
  { ImportOs, FromOsPath, FromRelative, CallImportOs, FromPathlibOs, ClassIn,
    [kind |-> "print"], [kind |-> "raise"], [kind |-> "exit"],
    Def(Fn("build", 1, "model", "model")),
    Def(Fn("handler", 1, "model", "model")),
    Def(Fn("handler", 2, "model", "model")),
    Def(Fn("main", 1, "str", "model")),
    Def(Fn("zeta", 1, "unresolved", "model")) }

\* Files: the usual prelude (import BaseModel, define In) followed by up
\* to two statements, the same statements without the prelude, and a file
\* that does not parse.
MC_Snippets ==
  {[parses |-> TRUE, stmts |-> <<FromPydantic, ClassIn>> \o b] : b \in BoundedSeq(MC_Body, 2)}
  \cup {[parses |-> TRUE, stmts |-> b] : b \in BoundedSeq(MC_Body \cup {FromPydantic}, 2)}
  \cup {[parses |-> FALSE, stmts |-> <<>>]}

\* Python's string order: upper case before lower case.
MC_NameOrder == <<"BaseModel", "In", "build", "handler", "main", "os", "path", "x", "zeta">>
====
