------------------------------ MODULE SmbFiles ------------------------------
(* The operations of a SmbWriter on a share: storage/smb.py.                 *)
(*                                                                           *)
(* Every operation is tried up to three times (_execute_with_retry).  An     *)
(* attempt is a few calls of the server; a call may fail before it has done  *)
(* anything, and it may have done everything and lose its reply.  Other      *)
(* clients of the share act between two calls.                               *)
EXTENDS Naturals, Sequences, FiniteSets, SequencesExt

CONSTANTS
  Nodes,     \* the paths of the share, each a sequence of names from its root
  Lengths,   \* what tells the contents of two files apart; 0 is the empty file
  BasePath,  \* base_path of the configuration
  RawPaths,  \* paths as callers write them
  Disputed,  \* the paths that other clients touch, too
  Up         \* the segment ".."

ASSUME PathsAssumption ==
  /\ <<>> \in Nodes /\ BasePath \in Nodes
  /\ \A p \in Nodes : p = <<>> \/ Front(p) \in Nodes
  /\ 0 \in Lengths
  /\ Disputed \subseteq Nodes \ {<<>>}

MaxAttempts == 3

VARIABLES
  share,  \* what is at every path
  op      \* the operation under way

filesVars == <<share, op>>

Absent == [kind |-> "absent", length |-> 0]
Directory == [kind |-> "dir", length |-> 0]
FileOf(n) == [kind |-> "file", length |-> n]
Node == {Absent, Directory} \cup {FileOf(n) : n \in Lengths}

Exists(p) == share[p] # Absent
IsDir(p) == share[p].kind = "dir"
IsFile(p) == share[p].kind = "file"
Children(p) == {q \in Nodes : q # <<>> /\ Front(q) = p /\ Exists(q)}

(***************************************************************************)
(* Paths.  Empty segments do not count, ".." is refused; what is left goes *)
(* behind the base path.                                                   *)
(***************************************************************************)
SafePath(raw) == \A i \in DOMAIN raw : raw[i] # Up

\* How a server reads a path.
Resolve(path) ==
  FoldLeft(LAMBDA at, name : IF name # Up THEN Append(at, name)
                             ELSE IF at = <<>> THEN at ELSE Front(at), <<>>, path)

UncPath(raw) == Resolve(BasePath \o raw)

-----------------------------------------------------------------------------
(* What the server does.  A result other than "ok" changes nothing.          *)

\* makedirs with exist_ok: the path and its missing parents become directories.
Above(p) == {q \in Nodes : IsPrefix(q, p)}
MakeDirs(p) == [q \in Nodes |-> IF q \in Above(p) THEN Directory ELSE share[q]]
MayMakeDirs(p) == \A q \in Above(p) : ~IsFile(q)

\* A renamed directory takes along what is in it.
Moved(src, dst) ==
  [q \in Nodes |->
     LET before == src \o SubSeq(q, Len(dst) + 1, Len(q)) IN
       CASE IsPrefix(dst, q) -> IF before \in Nodes THEN share[before] ELSE Absent
         [] IsPrefix(src, q) /\ ~IsPrefix(dst, q) -> Absent
         [] OTHER -> share[q]]

MayRename(src, dst) ==
  /\ Exists(src) /\ ~Exists(dst) /\ Len(src) = Len(dst)
  /\ IsDir(Front(dst))

RemoveNode(p) == [share EXCEPT ![p] = Absent]

-----------------------------------------------------------------------------
Kinds == {"exists", "size", "mkdirs", "open_append", "open_read", "truncate",
          "checksum_md5", "rename", "remove", "remove_empty_dir", "list_dir"}

\* The operations that look before they act, by what they look for.
FirstCall(kind) ==
  CASE kind = "rename" -> "target"
    [] kind \in {"size", "truncate"} -> "exists"
    [] kind = "remove" -> "isdir"
    [] OTHER -> "act"

NoOp == [kind |-> "none", path |-> <<>>, dst |-> <<>>, at |-> "over", attempt |-> 0,
         result |-> "none", done |-> FALSE]

FilesInit ==
  /\ share \in [Nodes -> {Absent, Directory}]
  /\ \A p \in Nodes : share[p] = IF IsPrefix(p, BasePath) THEN Directory ELSE Absent
  /\ op = NoOp

Removes(kind) == kind \in {"remove", "remove_empty_dir"}

\* One operation at a time; what the last one returned is forgotten.
Begin(kind, path, dst) ==
  /\ op.at = "over"
  /\ kind # "rename" => dst = path
  /\ op' = [kind |-> kind, path |-> path, dst |-> dst, at |-> "begin", attempt |-> 1,
            result |-> "none", done |-> Removes(kind) /\ ~Exists(UncPath(path))]
  /\ UNCHANGED share

Source == UncPath(op.path)
Target == UncPath(op.dst)

Return(result) == op' = [op EXCEPT !.at = "over", !.result = result]

\* Mutant: what failed the last time is taken to have succeeded.
GiveUpSilently(code) == Return("ok")

GiveUp(code) == Return(code)

\* Any error, also one that no repetition can change, is tried again.
AttemptFails(code) ==
  IF op.attempt = MaxAttempts THEN GiveUp(code)
  ELSE op' = [op EXCEPT !.attempt = @ + 1, !.at = "begin"]

RemovesRoot == Removes(op.kind) /\ op.path = <<>>

\* The session is registered and the path is built.
BeginAttempt ==
  /\ op.at = "begin"
  /\ \/ RemovesRoot /\ AttemptFails("STORAGE_REMOVE_ROOT_FORBIDDEN")
     \/ ~RemovesRoot /\ AttemptFails("SMB_ERROR")
     \/ /\ ~RemovesRoot /\ ~(SafePath(op.path) /\ SafePath(op.dst))
        /\ AttemptFails("SMB_PATH_OUTSIDE_ROOT")
     \/ /\ ~RemovesRoot /\ SafePath(op.path) /\ SafePath(op.dst)
        /\ op' = [op EXCEPT !.at = FirstCall(op.kind)]
  /\ UNCHANGED share

-----------------------------------------------------------------------------
(* The calls that look                                                       *)

ErrorOf(kind) ==
  CASE kind = "rename" -> "SMB_RENAME_FAILED"
    [] kind \in {"mkdirs", "open_append", "truncate", "remove"} -> "SMB_WRITE_FAILED"
    [] OTHER -> "SMB_ERROR"

LookTarget ==
  /\ op.at = "target"
  /\ IF Exists(Target) THEN AttemptFails("TARGET_EXISTS")
                       ELSE op' = [op EXCEPT !.at = "act"]
  /\ UNCHANGED share

LookExists ==
  /\ op.at = "exists"
  /\ CASE Exists(Source) -> op' = [op EXCEPT !.at = "act"]
       [] op.kind = "size" /\ ~Exists(Source) -> AttemptFails("STORAGE_PATH_NOT_FOUND")
       [] OTHER -> Return("ok")
  /\ UNCHANGED share

\* remove asks for a directory first and then for anything.
LookIsDir ==
  /\ op.at = "isdir"
  /\ op' = [op EXCEPT !.at = IF IsDir(Source) THEN "rmdir" ELSE "exists"]
  /\ UNCHANGED share

LookFails ==
  /\ op.at \in {"target", "exists", "isdir"}
  /\ AttemptFails(ErrorOf(op.kind))
  /\ UNCHANGED share

-----------------------------------------------------------------------------
(* The calls that act                                                        *)

Reads == {"exists", "size", "open_read", "checksum_md5", "list_dir"}

\* What the call asks of the share; rmdir is also the call of remove_empty_dir.
Call == IF op.at = "rmdir" \/ op.kind = "remove_empty_dir" THEN "rmdir" ELSE op.kind

Possible ==
  CASE Call = "mkdirs" -> MayMakeDirs(Source)
    [] Call = "open_append" -> Source # <<>> /\ MayMakeDirs(Front(Source)) /\ ~IsDir(Source)
    [] Call \in {"truncate", "remove", "open_read", "checksum_md5"} -> IsFile(Source)
    [] Call = "rename" -> MayRename(Source, Target)
    [] Call = "rmdir" -> IsDir(Source) /\ Children(Source) = {}
    [] Call = "list_dir" -> IsDir(Source)
    [] Call = "size" -> Exists(Source)
    [] Call = "exists" -> TRUE

Effect ==
  CASE Call = "mkdirs" -> MakeDirs(Source)
    [] Call = "open_append" ->
         [q \in Nodes |-> IF q # Source THEN MakeDirs(Front(Source))[q]
                          ELSE IF IsFile(q) THEN share[q] ELSE FileOf(0)]
    [] Call = "truncate" -> [share EXCEPT ![Source] = FileOf(0)]
    [] Call = "rename" -> Moved(Source, Target)
    [] Call \in {"rmdir", "remove"} -> RemoveNode(Source)
    [] Call \in Reads -> share

Acting == op.at \in {"act", "rmdir"}

Act ==
  /\ Acting /\ Possible
  /\ share' = Effect
  /\ op' = [op EXCEPT !.at = "over", !.result = "ok", !.done = TRUE]

CallRefused ==
  /\ Acting /\ ~Possible
  /\ AttemptFails(ErrorOf(op.kind))
  /\ UNCHANGED share

\* The call, or its reply, is lost.
CallLost ==
  /\ Acting
  /\ AttemptFails(ErrorOf(op.kind))
  /\ UNCHANGED share

DoneAndFailed(code) ==
  op' = [op EXCEPT !.done = TRUE, !.attempt = IF @ = MaxAttempts THEN @ ELSE @ + 1,
                   !.at = IF op.attempt = MaxAttempts THEN "over" ELSE "begin",
                   !.result = IF op.attempt = MaxAttempts THEN code ELSE @]

ReplyLost ==
  /\ Acting /\ Possible /\ Call \notin Reads
  /\ share' = Effect
  /\ DoneAndFailed(ErrorOf(op.kind))

\* What somebody else does at a path: one file or empty directory comes, goes
\* or changes.  A removal may find that done which it is about to do.
Others ==
  /\ \E p \in Disputed, n \in Node :
       /\ IsDir(Front(p)) /\ Children(p) = {} /\ share[p] # n
       /\ share' = [share EXCEPT ![p] = n]
  /\ op' = IF Removes(op.kind) /\ op.at # "over"
           THEN [op EXCEPT !.done = @ \/ share'[Source] = Absent] ELSE op

WriterStep ==
  \/ BeginAttempt \/ LookTarget \/ LookExists \/ LookIsDir \/ LookFails
  \/ Act \/ CallRefused \/ CallLost \/ ReplyLost

FilesNext ==
  \/ \E kind \in Kinds, path, dst \in RawPaths : Begin(kind, path, dst)
  \/ WriterStep
  \/ Others

FilesSpec == FilesInit /\ [][FilesNext]_filesVars
-----------------------------------------------------------------------------
Raw == RawPaths \cup {<<>>}

Errors ==
  {"STORAGE_REMOVE_ROOT_FORBIDDEN", "SMB_ERROR", "SMB_PATH_OUTSIDE_ROOT", "TARGET_EXISTS",
   "STORAGE_PATH_NOT_FOUND", "SMB_RENAME_FAILED", "SMB_WRITE_FAILED"}

\* Only an operation under way has calls to make, and it has no result yet; the
\* calls that look are those of the operations that look.
Operation ==
  [kind : Kinds \cup {"none"}, path : Raw, dst : Raw,
   at : {"over", "begin", "target", "exists", "isdir", "rmdir", "act"},
   attempt : 0..MaxAttempts, result : {"none", "ok"} \cup Errors, done : BOOLEAN]

FilesTypeOK ==
  /\ share \in [Nodes -> Node]
  /\ op \in Operation
  /\ op.at # "over" => op.kind \in Kinds /\ op.result = "none"
  /\ op.at = "target" => op.kind = "rename"
  /\ op.at = "exists" => op.kind \in {"size", "truncate", "remove"}
  /\ op.at \in {"isdir", "rmdir"} => op.kind = "remove"

\* An operation that returns has had its effect, by itself or, for a removal,
\* because the path was free at some time while it was under way.
Wanted == Removes(op.kind) \/ op.kind \in {"mkdirs", "open_append", "rename"}
SuccessMeansDone == op.result = "ok" /\ Wanted => op.done

\* The inductive invariant behind it: a removal under way that finds its path
\* free has, by itself or by others, been done.
FreeMeansDone == Removes(op.kind) /\ op.at # "over" /\ ~Exists(Source) => op.done

\* Refuted: a rename or a removal whose reply was lost is repeated on what
\* others have put there meanwhile.
OnceOnly == [][WriterStep /\ op.done => share' = share]_filesVars

\* Refuted: TARGET_EXISTS is what a rename answers that has taken place and
\* lost its reply.
RefusedMeansUntouched == op.result = "TARGET_EXISTS" => ~op.done
=============================================================================
