------------------------------- MODULE FsGuard -------------------------------
(***************************************************************************)
(* The path resolver and the guards of pythonChild.py, and the setup steps *)
(* of execute_start that use them: the entry containment check, chdir,     *)
(* installing the FS and network guards, the first step of                 *)
(* ensure_python_dependencies, and the guarded primitives the handler may  *)
(* call afterwards.                                                        *)
(*                                                                         *)
(* A path is a sequence of names, the root being <<>>; a name is a string, *)
(* so that the code's text test startswith(root + os.sep) is compared      *)
(* character by character.  The file system is the table of symlinks      *)
(* Links; every other path is a directory or a file, or does not exist,   *)
(* which os.path.realpath (non-strict) treats alike.                       *)
(*                                                                         *)
(* os.path.realpath is posixpath._joinrealpath: it walks the names, and    *)
(* for each prefix calls os.lstat through the module attribute, which      *)
(* setup_filesystem_guards has replaced by its wrapper.  The wrapper       *)
(* normalises its argument through ensure_within_bundle, which calls       *)
(* os.path.realpath again: the resolver re-enters itself.  The mode of a   *)
(* resolution says which os.lstat it reaches:                              *)
(*   "raw"    the guards are not installed;                                *)
(*   "denied" the wrapper raises PermissionError, an OSError that          *)
(*            realpath swallows, so resolution is purely lexical;          *)
(*   "fs"     the wrapper re-enters the resolver.                          *)
(* A re-entry deeper than RecursionLimit is Python's RecursionError.       *)
(***************************************************************************)
EXTENDS Naturals, Sequences, SequencesExt, FiniteSetsExt

CONSTANTS
  Links,          \* symlink path -> [abs |-> BOOLEAN, comps |-> names]
  HostRoot,       \* APPHUB_SANDBOX_HOST_ROOT_PREFIX as a path, or NoHost
  NoHost,         \* the variable unset or empty
  Bundles,        \* bundle.directory values of a start payload
  Entries,        \* bundle.entryFile values of a start payload
  CapabilityLists,\* manifest.capabilities values: sets of names, or NotAList
  NotAList,       \* a capabilities value that is not a list
  ProcessCwd,     \* the child's working directory before os.chdir
  Args,           \* path arguments the handler passes to a primitive
  RecursionLimit  \* guard re-entries before Python raises RecursionError

VARIABLES
  pc,         \* where execute_start is: "start", "guards", "deps", "handler", "failed"
  bundle,     \* bundle_dir of the start payload
  entry,      \* bundle.entryFile of the start payload
  caps,       \* manifest.capabilities of the start payload
  cwd,        \* os.getcwd()
  loaded,     \* entry_file, the path the loader will import; <<>> before
  guarded,    \* setup_filesystem_guards / setup_network_guards have run
  allowFs,    \* "fs" in capabilities
  allowNet,   \* "network" in capabilities
  call        \* the last guarded call: primitive, arguments, outcome

vars == <<pc, bundle, entry, caps, cwd, loaded, guarded, allowFs, allowNet, call>>

Requirements == "requirements.txt"

\* Arguments: an int file descriptor, an absolute or a relative path.
Fd        == [kind |-> "fd"]
AbsArg(p) == [kind |-> "abs", comps |-> p]
RelArg(p) == [kind |-> "rel", comps |-> p]

\* Outcomes of a call: a value, or the exception it raises.
Ok(x)           == [ok |-> TRUE, val |-> x]
PermissionError == [ok |-> FALSE, err |-> "PermissionError"]
RecursionError  == [ok |-> FALSE, err |-> "RecursionError"]

\* The primitives the handler can reach, by the argument positions the
\* wrapper normalises (path_methods, shutil_methods); open is guarded_open.
Arity == [open |-> 1, stat |-> 1, listdir |-> 1, rename |-> 2]
Prims == DOMAIN Arity

-----------------------------------------------------------------------------
(* Path text and the containment test of ensure_within_bundle.            *)

PathText(p) == IF p = <<>> THEN "/"
               ELSE FoldLeft(LAMBDA acc, n : acc \o "/" \o n, "", p)

\* A mutant of the test without the separator: /bb passes for /b.
WithinNoSep(c, root) == IsPrefix(PathText(root), PathText(c))

\* candidate == root or candidate.startswith(root + os.sep)
Within(c, root) ==
  \/ PathText(c) = PathText(root)
  \/ IsPrefix(PathText(root) \o "/", PathText(c))

Parent(p) == IF p = <<>> THEN <<>> ELSE SubSeq(p, 1, Len(p) - 1)

-----------------------------------------------------------------------------
(* os.path.realpath, the resolver and normalize_path_argument.            *)

RECURSIVE JoinRealpath(_, _, _, _), LstatIsLink(_, _, _),
          ensure_within_bundle(_, _, _, _), normalize_path_argument(_, _, _, _)

Realpath(p, mode, lv) == JoinRealpath(<<>>, p, mode, lv)

\* _joinrealpath(path, rest): ".." drops a name; a name that os.lstat
\* reports as a symlink is replaced by its target, resolved from path.
JoinRealpath(path, rest, mode, lv) ==
  IF rest = <<>> THEN Ok(path)
  ELSE LET name    == Head(rest)
           newpath == Append(path, name)
           st      == LstatIsLink(newpath, mode, lv)
       IN CASE name = ".." -> JoinRealpath(Parent(path), Tail(rest), mode, lv)
            [] st = "recursion" -> RecursionError
            [] st = "other" -> JoinRealpath(newpath, Tail(rest), mode, lv)
            [] OTHER ->
                 LET t == Links[newpath]
                     r == JoinRealpath(IF t.abs THEN <<>> ELSE path, t.comps, mode, lv)
                 IN IF r.ok THEN JoinRealpath(r.val, Tail(rest), mode, lv) ELSE r

\* os.lstat(q) as realpath sees it: "link", "other" (anything else, or an
\* OSError realpath swallows), or "recursion" for the RecursionError that
\* escapes it.
LinkOrOther(q) == IF q \in DOMAIN Links THEN "link" ELSE "other"

LstatIsLink(q, mode, lv) ==
  CASE mode = "raw"    -> LinkOrOther(q)
    [] mode = "denied" -> "other"
    [] lv >= RecursionLimit -> "recursion"
    [] OTHER ->
         LET n == normalize_path_argument(AbsArg(q), TRUE, mode, lv + 1)
         IN CASE n = RecursionError -> "recursion"
              [] ~n.ok -> "other"
              [] OTHER -> LinkOrOther(n.val.comps)

\* ensure_within_bundle: the bundle root, then the host root, then the
\* candidate translated below the host root.
ensure_within_bundle(bundleDir, candidate, mode, lv) ==
  LET root == Realpath(bundleDir, mode, lv)
      cand == Realpath(candidate, mode, lv)
      host == Realpath(HostRoot, mode, lv)
      tr   == Realpath(host.val \o cand.val, mode, lv)
  IN CASE ~root.ok -> root
       [] ~cand.ok -> cand
       [] Within(cand.val, root.val) -> cand
       [] HostRoot = NoHost -> PermissionError
       [] ~host.ok -> host
       [] Within(cand.val, host.val) -> cand
       [] ~tr.ok -> tr
       [] Within(tr.val, host.val) -> tr
       [] OTHER -> PermissionError

\* normalize_path_argument(bundle_dir, allow_fs, value): an fd passes, a
\* relative value is joined to os.getcwd() and resolved first.  The
\* result is the argument the primitive receives.
normalize_path_argument(value, allow, mode, lv) ==
  LET absolute == Realpath(cwd \o value.comps, mode, lv)
      AsArg(r) == IF r.ok THEN Ok(AbsArg(r.val)) ELSE r
  IN CASE value.kind = "fd" -> IF allow THEN Ok(value) ELSE PermissionError
       [] value.kind = "abs" -> AsArg(ensure_within_bundle(bundle, value.comps, mode, lv))
       [] ~absolute.ok -> absolute
       [] OTHER -> AsArg(ensure_within_bundle(bundle, absolute.val, mode, lv))

-----------------------------------------------------------------------------
(* The guards installed by setup_filesystem_guards.                       *)

Mode == IF ~guarded THEN "raw" ELSE IF allowFs THEN "fs" ELSE "denied"

\* wrap_function's wrapper: the capability first, then every path
\* argument in order; the first exception propagates.
Wrapper(args) ==
  LET ns  == [i \in DOMAIN args |-> normalize_path_argument(args[i], TRUE, Mode, 0)]
      bad == {i \in DOMAIN ns : ~ns[i].ok}
  IN CASE ~allowFs -> PermissionError
       [] bad = {} -> Ok([i \in DOMAIN ns |-> ns[i].val])
       [] OTHER -> ns[Min(bad)]

\* A mutant of guarded_open that never checks the capability for a path.
guarded_open_unchecked(file) ==
  LET n == normalize_path_argument(file, allowFs, Mode, 0)
  IN CASE file.kind = "fd" -> IF allowFs THEN Ok(<<file>>) ELSE PermissionError
       [] ~n.ok -> n
       [] OTHER -> Ok(<<n.val>>)

\* guarded_open: an fd needs the capability; a path is resolved first and
\* the capability is checked after.
guarded_open(file) ==
  LET n == normalize_path_argument(file, allowFs, Mode, 0)
  IN CASE file.kind = "fd" -> IF allowFs THEN Ok(<<file>>) ELSE PermissionError
       [] ~n.ok -> n
       [] ~allowFs -> PermissionError
       [] OTHER -> Ok(<<n.val>>)

GuardedCall(prim, args) == IF prim = "open" THEN guarded_open(args[1]) ELSE Wrapper(args)

NoCall == [prim |-> "none", args |-> <<>>, out |-> PermissionError]

-----------------------------------------------------------------------------
(* execute_start up to the handler, and the handler's calls.              *)

Init ==
  /\ pc = "start"
  /\ bundle \in Bundles
  /\ entry \in Entries
  /\ caps \in CapabilityLists
  /\ cwd = ProcessCwd
  /\ loaded = {}
  /\ guarded = FALSE
  /\ allowFs = FALSE
  /\ allowNet = FALSE
  /\ call = NoCall

\* A mutant that checks and loads entryFile as given, without realpath.
StartCheckedNoRealpath ==
  /\ pc = "start"
  /\ IF ensure_within_bundle(bundle, entry, "raw", 0).ok
       THEN /\ pc' = "guards"
            /\ loaded' = {entry}
            /\ cwd' = Realpath(bundle, "raw", 0).val
       ELSE /\ pc' = "failed"
            /\ UNCHANGED <<loaded, cwd>>
  /\ UNCHANGED <<bundle, entry, caps, guarded, allowFs, allowNet, call>>

\* entry_file = realpath(entryFile); ensure_within_bundle(bundle_dir,
\* entry_file), whose result is dropped; os.chdir(bundle_dir).  The
\* loader later imports entry_file.
StartChecked ==
  LET entryFile == Realpath(entry, "raw", 0).val
  IN /\ pc = "start"
     /\ IF ensure_within_bundle(bundle, entryFile, "raw", 0).ok
          THEN /\ pc' = "guards"
               /\ loaded' = {entryFile}
               /\ cwd' = Realpath(bundle, "raw", 0).val
          ELSE /\ pc' = "failed"
               /\ UNCHANGED <<loaded, cwd>>
     /\ UNCHANGED <<bundle, entry, caps, guarded, allowFs, allowNet, call>>

\* A capabilities value that is not a list counts as [];
\* setup_filesystem_guards and setup_network_guards.
InstallGuards ==
  LET list == IF caps = NotAList THEN {} ELSE caps
  IN /\ pc = "guards"
     /\ guarded' = TRUE
     /\ allowFs' = ("fs" \in list)
     /\ allowNet' = ("network" \in list)
     /\ pc' = "deps"
     /\ UNCHANGED <<bundle, entry, caps, cwd, loaded, call>>

\* ensure_python_dependencies begins with os.path.isfile(requirements),
\* a call of the wrapped os.stat.  isfile turns an OSError into False
\* (no requirements: return); any other exception escapes, and
\* execute_start raises "Failed to install Python dependencies".  What
\* follows a True isfile is not reached under the guards.
PrepareDependencies ==
  LET args == <<AbsArg(bundle \o <<Requirements>>)>>
      out  == Wrapper(args)
  IN /\ pc = "deps"
     /\ call' = [prim |-> "stat", args |-> args, out |-> out]
     /\ pc' = IF out = RecursionError THEN "failed" ELSE "handler"
     /\ UNCHANGED <<bundle, entry, caps, cwd, loaded, guarded, allowFs, allowNet>>

\* The handler calls a guarded file primitive.  Its effect on the disk is
\* not modelled: the symlink table stays as it is.
HandlerCall(prim, args) ==
  /\ pc = "handler"
  /\ call' = [prim |-> prim, args |-> args, out |-> GuardedCall(prim, args)]
  /\ UNCHANGED <<pc, bundle, entry, caps, cwd, loaded, guarded, allowFs, allowNet>>

\* The handler opens a socket: blocked_network unless "network" was granted.
HandlerConnect ==
  /\ pc = "handler"
  /\ call' = [prim |-> "socket", args |-> <<>>,
              out |-> IF allowNet THEN Ok(<<>>) ELSE PermissionError]
  /\ UNCHANGED <<pc, bundle, entry, caps, cwd, loaded, guarded, allowFs, allowNet>>

Next ==
  \/ StartChecked
  \/ InstallGuards
  \/ PrepareDependencies
  \/ \E prim \in Prims : \E args \in [1..Arity[prim] -> Args] : HandlerCall(prim, args)
  \/ HandlerConnect

Spec == Init /\ [][Next]_vars

-----------------------------------------------------------------------------
(* Properties.                                                            *)

Resolved(p) == Realpath(p, "raw", 0).val

\* The bundle root and the host root, as the file system resolves them.
Roots == {Resolved(bundle)} \cup (IF HostRoot = NoHost THEN {} ELSE {Resolved(HostRoot)})
Confined(p) == \E r \in Roots : IsPrefix(r, Resolved(p))

\* What the primitive of the last call received.
Received == IF call.out.ok /\ call.prim \in Prims THEN Range(call.out.val) ELSE {}

(* Every variable in its domain; entry_file, the path the loader          *)
(* imports, is a canonical path: no "..", no symlink on the way.          *)
TypeOK ==
  /\ pc \in {"start", "guards", "deps", "handler", "failed"}
  /\ bundle \in Bundles /\ entry \in Entries /\ caps \in CapabilityLists
  /\ cwd \in Seq(STRING)
  /\ \A p \in loaded : p \in Seq(STRING) /\ Resolved(p) = p
  /\ {guarded, allowFs, allowNet} \subseteq BOOLEAN
  /\ call.prim \in Prims \cup {"none", "socket"}
  /\ \A a \in Received : a = Fd \/ (a.kind = "abs" /\ a.comps \in Seq(STRING))

(* Spec 4.6 step 2 and 8: the entry file the loader imports, and every    *)
(* path a guarded primitive receives, lies in the bundle root or the host  *)
(* root once every symlink on the way is resolved.  This is about the     *)
(* text test of ensure_within_bundle, its host-root translation, and       *)
(* execute_start dropping the path ensure_within_bundle returns.           *)
Confinement == \A p \in loaded \cup {a.comps : a \in {x \in Received : x # Fd}} : Confined(p)

(* Spec 4.2 and 4.3: without "fs", no file primitive is reached, even     *)
(* for an fd and even though guarded_open resolves the path before it     *)
(* checks the capability; without "network", no socket is made.          *)
NoAccessWithoutCapability ==
  /\ guarded /\ ~allowFs /\ call.prim \in Prims => ~call.out.ok
  /\ guarded /\ ~allowNet /\ call.prim = "socket" => ~call.out.ok

(* Spec 4.2: with "fs" granted, a guarded call whose paths lie in the     *)
(* bundle proceeds, the primitive receiving the resolved paths.  This is  *)
(* about the wrappers re-entering os.path.realpath through the wrapped    *)
(* os.lstat, and about the os.stat of ensure_python_dependencies.         *)
FsCallsProceed ==
  (guarded /\ allowFs /\ call.prim \in Prims
     /\ \A i \in DOMAIN call.args :
          call.args[i] # Fd => Confined(IF call.args[i].kind = "abs" THEN call.args[i].comps
                                        ELSE cwd \o call.args[i].comps))
    => call.out.ok
=============================================================================
