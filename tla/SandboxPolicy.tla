--------------------------- MODULE SandboxPolicy ---------------------------
(***************************************************************************)
(* What the tracer answers when a sandboxed process names a file: the      *)
(* policies built from lists of rules (cptbox/filesystem_policies.py), and *)
(* the handlers of system calls that ask them (cptbox/isolate.py).         *)
(*                                                                         *)
(* A path is a sequence of components from the root.  Names below          *)
(* /proc/self, which the code renames before it checks them, and paths     *)
(* that cannot be read from the process are left out.                      *)
(***************************************************************************)
EXTENDS Naturals, Sequences, SequencesExt

CONSTANTS
    Tree,       \* the files: a function from paths to [kind, target]; the target
                \* of a link is a path without links (TreeAssumption of MCRules)
    Named,      \* absolute and normalized paths that rules are given for
    Asked,      \* paths that a process asks for
    MaxRules    \* bound: rules of both policies together

Jails == {"read", "write"}

VARIABLES
    given,      \* of each policy, the rules it was built from
    node,       \* and its tree of nodes, a function from paths to access modes
    asserted    \* an assertion of the constructor failed

vars == <<given, node, asserted>>

-------------------------------------------------------------------------------
(* Paths *)

\* os.path.normpath.
Normal(p) ==
    LET upTo[k \in 0 .. Len(p)] ==
            IF k = 0 THEN <<>>
            ELSE IF p[k] = ".." THEN SubSeq(upTo[k - 1], 1, Len(upTo[k - 1]) - 1)
            ELSE Append(upTo[k - 1], p[k])
    IN  upTo[Len(p)]

IsLink(p) == p \in DOMAIN Tree /\ Tree[p].kind = "link"

\* os.path.realpath: what the kernel opens for p.
Real(p) ==
    LET upTo[k \in 0 .. Len(p)] ==
            IF k = 0 THEN <<>>
            ELSE IF p[k] = ".." THEN SubSeq(upTo[k - 1], 1, Len(upTo[k - 1]) - 1)
            ELSE LET next == Append(upTo[k - 1], p[k])
                 IN  IF IsLink(next) THEN Tree[next].target ELSE next
    IN  upTo[Len(p)]

IsDir(p) == Real(p) \in DOMAIN Tree /\ Tree[Real(p)].kind = "dir"

Exists(p) ==
    /\ Real(p) \in DOMAIN Tree
    /\ \A k \in 0 .. Len(p) - 1 : IsDir(SubSeq(p, 1, k))

-------------------------------------------------------------------------------
(* FilesystemPolicy *)

\* _assert_rule_type: a rule that does not fit what it names is refused.
Rules ==
    {r \in [type : {"ExactFile", "ExactDir", "RecursiveDir"}, path : Named] :
        /\ Exists(r.path) => (IsDir(r.path) <=> r.type # "ExactFile")
        /\ r.path = <<>> => r.type # "ExactFile"}

\* "none" is a directory on the way to another rule.
Rank(mode) == CHOOSE k \in 0 .. 3 : <<"none", "exact", "recursive", "file">>[k + 1] = mode

Mode(r) ==
    CASE r.type = "ExactFile" -> "file"
      [] r.type = "ExactDir" -> "exact"
      [] r.type = "RecursiveDir" -> "recursive"

Old(tree, p) == IF p \in DOMAIN tree THEN tree[p] ELSE "none"

\* more_permissive
Permissive(m1, m2) == IF Rank(m1) >= Rank(m2) THEN m1 ELSE m2

Finalize(tree, path, mode) ==
    [p \in DOMAIN tree \cup {SubSeq(path, 1, k) : k \in 0 .. Len(path)} |->
        IF p = path THEN Permissive(mode, Old(tree, p)) ELSE Old(tree, p)]

\* The assertions of _add_rule and _finalize_rule: a node is not a file here
\* and a directory there.
Clash(tree, path, mode) ==
    \/ \E k \in 0 .. Len(path) - 1 : Old(tree, SubSeq(path, 1, k)) = "file"
    \/ path \in DOMAIN tree /\ (tree[path] = "file") # (mode = "file")

\* The path and, when it has links in it, what it leads to.
AddRule(tree, r) ==
    IF ~Exists(r.path) THEN tree
    ELSE LET named == Finalize(tree, r.path, Mode(r))
         IN  IF Real(r.path) = r.path THEN named ELSE Finalize(named, Real(r.path), Mode(r))

Init ==
    /\ given = [j \in Jails |-> {}]
    /\ node = [j \in Jails |-> [p \in {<<>>} |-> "none"]]
    /\ asserted = FALSE

\* The next rule of the list.
Add(j, r) ==
    /\ Cardinality(given["read"]) + Cardinality(given["write"]) < MaxRules
    /\ r \notin given[j]
    /\ given' = [given EXCEPT ![j] = @ \cup {r}]
    /\ node' = [node EXCEPT ![j] = AddRule(@, r)]
    /\ asserted' = (asserted \/ (/\ Exists(r.path)
                                 /\ \/ Clash(node[j], r.path, Mode(r))
                                    \/ Clash(node[j], Real(r.path), Mode(r))))

Next == \E j \in Jails, r \in Rules : Add(j, r)

Spec == Init /\ [][Next]_vars

\* check: down the nodes, until one allows everything below it or there is none.
Check(j, path) ==
    LET tree == node[j]
        Reached(k) == \A m \in 0 .. k - 1 : Old(tree, SubSeq(path, 1, m)) # "file"
    IN  \/ \E k \in 0 .. Len(path) - 1 : Reached(k) /\ Old(tree, SubSeq(path, 1, k)) = "recursive"
        \/ Reached(Len(path)) /\ Old(tree, path) # "none"

-------------------------------------------------------------------------------
(* IsolateTracer *)

\* Flags of open as sets of bits: O_TMPFILE has the bit of O_DIRECTORY.
OpenFlags == {"RDONLY", "WRONLY", "CREAT", "TRUNC", "DIRECTORY", "TMPFILE"}
Bits(flag) ==
    IF flag = "RDONLY" THEN {} ELSE IF flag = "TMPFILE" THEN {"TMPFILE", "DIRECTORY"} ELSE {flag}
WriteFlags == {"WRONLY", "CREAT", "TRUNC", "TMPFILE"}

\* _fs_jail_getter_from_open_flags_reg
JailOf(flag) == IF \E w \in WriteFlags : Bits(w) \subseteq Bits(flag) THEN "write" ELSE "read"

\* No look at where the links lead.
AccessNamed(j, path) == Check(j, Normal(path))

\* _access_check: the path without its dots and the path without its links
\* must be the same file, and both allowed.
Access(j, path) ==
    LET named == Normal(path)
        real == Real(path)
    IN  /\ \/ named = real
           \/ Exists(named) /\ Exists(real) /\ Real(named) = real
        /\ Check(j, named)
        /\ named = real \/ Check(j, real)

\* handle_openat, and handle_file_access_at for READ: from a directory that
\* the process has open or is in, unless the path is absolute.
FullPath(dir, rel, absolute) == IF absolute THEN rel ELSE dir \o rel

\* The table of handlers.  What is not in it is forbidden, and ends the
\* process; an errno is given to it in place of the call.
Permit(allowed) == IF allowed THEN "allow" ELSE "errno"

Handler(call) ==
    CASE call.nr = "open" -> Permit(Access(JailOf(call.flag), call.path))
      [] call.nr = "stat" -> Permit(Access("read", call.path))
      [] call.nr = "kill" -> Permit(call.target = "self")
      [] call.nr = "prlimit" -> Permit(call.target \in {"self", "0"})
      [] call.nr = "prctl" -> IF call.target = "listed" THEN "allow" ELSE "fault"
      [] call.nr = "read" -> "allow"
      [] call.nr = "socket" -> "errno"
      [] OTHER -> "fault"

\* CompilerIsolateTracer adds the calls of compilers.
CompilerHandler(call) ==
    CASE call.nr \in {"mkdir", "unlink", "chmod"} -> Permit(Access("write", call.path))
      [] call.nr = "rename" -> Permit(Access("write", call.path) /\ Access("write", call.to))
      [] call.nr = "link" -> Permit(Access("write", call.to))
      [] call.nr = "chdir" -> Permit(Access("read", call.path))
      [] call.nr \in {"execve", "socket"} -> "allow"
      [] OTHER -> Handler(call)

\* _get_seccomp_handlers: what the kernel answers by itself, because the table
\* has one answer for the call; it traps the other ones.
Filter(nr) == IF nr = "read" THEN "allow" ELSE IF nr = "socket" THEN "errno" ELSE "trace"

Answer(call) == IF Filter(call.nr) = "trace" THEN Handler(call) ELSE Filter(call.nr)

Opens(flag, path) == Answer([nr |-> "open", flag |-> flag, path |-> path]) = "allow"

-------------------------------------------------------------------------------
(* Properties *)

Covers(r, path) ==
    \/ path = r.path \/ path = Real(r.path)
    \/ r.type = "RecursiveDir" /\ (IsPrefix(r.path, path) \/ IsPrefix(Real(r.path), path))

Covered(j, path) == \E r \in given[j] : Exists(r.path) /\ Covers(r, path)

\* The nodes say what the rules say, in whatever order these were added: of
\* two rules for a directory the more permissive one counts, and a rule below
\* a recursive one takes nothing away.  No assertion fails on the way.
NodesAreRules ==
    /\ ~asserted
    /\ \A j \in Jails, p \in {Normal(q) : q \in Asked} : Check(j, p) <=> Covered(j, p)

Changes(flag) == flag \notin {"RDONLY", "DIRECTORY"}

\* "the user must be able to access both the symlink and its destination"
\* (isolate.py:347): a call that the kernel gets to see is about a file that a
\* rule covers, by the name that was checked, and that a write rule covers when
\* the call can change something.
AllowedIsCovered ==
    LET Sound(j, path) ==
            /\ Covered(j, Real(path)) /\ Covered(j, Normal(path))
            /\ Exists(path) => Real(Normal(path)) = Real(path)
    IN  \A path \in Asked :
            /\ \A flag \in OpenFlags :
                 Opens(flag, path) => Sound(IF Changes(flag) THEN "write" ELSE "read", path)
            /\ \A to \in Named :
                 CompilerHandler([nr |-> "rename", path |-> path, to |-> to]) = "allow" =>
                     Sound("write", path) /\ Sound("write", to)

\* What a rule names a process can have, by that name, from any directory
\* above it; and everything below a recursive rule that is not a link out of
\* it, files that do not exist yet included.
RulesGrant ==
    \A j \in Jails, flag \in OpenFlags : \A r \in given[j] :
        Exists(r.path) /\ (Changes(flag) <=> j = "write") =>
            /\ \A k \in 0 .. Len(r.path) :
                 Opens(flag, FullPath(SubSeq(r.path, 1, k), SubSeq(r.path, k + 1, Len(r.path)), FALSE))
            /\ r.type = "RecursiveDir" =>
                 \A p \in Asked : IsPrefix(Real(r.path), p) /\ Real(p) = p => Opens(flag, p)

\* A process gets the files its rules cover and no others, whatever path and
\* flags it asks with and in whatever order the rules were added.
PolicyExact == NodesAreRules /\ AllowedIsCovered /\ RulesGrant
===============================================================================
