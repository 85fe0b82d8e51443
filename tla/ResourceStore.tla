--------------------------- MODULE ResourceStore ---------------------------
(***************************************************************************)
(* The files behind /app/resource: put_resource, store_file and get_       *)
(* resource of controllers/resource.c on top of core/afile.c, in several   *)
(* worker processes that share the storage directory.  Every call to the   *)
(* system may fail, and a worker may die between any two of them.          *)
(*                                                                         *)
(* A path stands for <storage>/app/<object id>-<uuid>.<ext>; quid_create   *)
(* gives a uuid that has not been used.  A file is the sequence of the     *)
(* pieces written: the header of afile.c, blocks of the upload, and TORN   *)
(* for bytes that are neither, such as a block of which only a part got    *)
(* to the disk.  afwrite buffers, so a write may fail as late as afclose.  *)
(***************************************************************************)
EXTENDS Naturals, Sequences, FiniteSets

CONSTANTS Workers,    \* worker processes
          ObjectIds,  \* authenticated principals
          Uuids,      \* bound of the model: identifiers there are to use
          Blocks,     \* contents of what one http_file_read returns
          MaxBlocks,  \* bound of the model on the blocks of an upload
          HEADER, TORN, NULL

ASSUME MaxBlocksAssumption == MaxBlocks \in Nat
ASSUME PiecesAssumption == HEADER # TORN /\ {HEADER, TORN} \cap Blocks = {}

Path == ObjectIds \X Uuids
Upload == UNION {[1..n -> Blocks] : n \in 0..MaxBlocks}

VARIABLES files,   \* the file created under each path, NULL if there is none
          unlinked, \* paths that no longer lead to their files
          op,      \* what each worker is storing
          used,    \* uuids given out
          stored,  \* history: each upload that was answered, and how it went
          answer   \* the answer to the last fetch

vars == <<files, unlinked, op, used, stored, answer>>

\* failed: history of which call has failed, if one has.
Store == [path : Path, upload : Upload, pos : 0..MaxBlocks, has_header : BOOLEAN,
          stage : {"writing", "closing", "unlinking"}, error : BOOLEAN,
          failed : {"none", "read", "write"}]
Stored == [path : Path, upload : Upload, code : {200, 500},
           failed : {"none", "open", "read", "write"}]
Answer == [path : Path, code : {200, 404}, body : Seq(Blocks \cup {TORN})]

Pieces == Blocks \cup {HEADER, TORN}

ASSUME NullAssumption == NULL \notin Seq(Pieces) /\ NULL \notin Store /\ NULL \notin Answer

Init ==
    /\ files = [p \in Path |-> NULL]
    /\ unlinked = {}
    /\ op = [w \in Workers |-> NULL]
    /\ used = {}
    /\ stored = {}
    /\ answer = NULL

-----------------------------------------------------------------------------
(* put_resource.                                                           *)

Reply(s, code, failed) ==
    stored' = stored \cup {[path |-> s.path, upload |-> s.upload, code |-> code, failed |-> failed]}

\* Seeded fault: a name may be given out again.
AnyName == Uuids

\* quid_create.
Fresh == Uuids \ used

\* A fresh name, and afopen, which creates the file.
Open(w, o, u) ==
    /\ op[w] = NULL
    /\ \E id \in Fresh : LET s == [path |-> <<o, id>>, upload |-> u] IN
        /\ used' = used \cup {id}
        /\ \/ /\ files' = [files EXCEPT ![s.path] = <<>>]
              /\ op' = [op EXCEPT ![w] = [path |-> s.path, upload |-> u, pos |-> 0,
                          has_header |-> FALSE, stage |-> "writing",
                           error |-> FALSE, failed |-> "none"]]
              /\ UNCHANGED stored
           \/ Reply(s, 500, "open") /\ UNCHANGED <<files, op>>
    /\ UNCHANGED <<unlinked, answer>>

In(w, stage) == op[w] # NULL /\ op[w].stage = stage

\* Seeded fault: every block gets a header.
HeaderAlways(s) == <<HEADER>>

\* write_header, by the first afwrite of a file.
HeaderFor(s) == IF s.has_header THEN <<>> ELSE <<HEADER>>

\* One round of the loop of store_file.  afwrite returns a size_t, so that
\* the test for a negative number never sees that it wrote less.
ReadAndWrite(w) ==
    /\ In(w, "writing")
    /\ LET s == op[w]
           block == <<s.upload[s.pos + 1]>>
           next == [s EXCEPT !.pos = @ + 1, !.has_header = TRUE]
           wrote(pieces) == files' = [files EXCEPT ![s.path] = @ \o pieces]
       IN  /\ s.pos < Len(s.upload)
           /\ \/ wrote(HeaderFor(s) \o block) /\ op' = [op EXCEPT ![w] = next]
              \/ /\ \E pieces \in {<<>>, <<TORN>>, HeaderFor(s), HeaderFor(s) \o <<TORN>>} :
                      wrote(pieces)
                 /\ op' = [op EXCEPT ![w] = [next EXCEPT !.failed = "write"]]
    /\ UNCHANGED <<unlinked, used, stored, answer>>

\* http_file_read fails.
ReadError(w) ==
    /\ In(w, "writing")
    /\ op[w].pos < Len(op[w].upload)
    /\ op' = [op EXCEPT ![w] = [@ EXCEPT !.stage = "closing", !.error = TRUE, !.failed = "read"]]
    /\ UNCHANGED <<files, unlinked, used, stored, answer>>

\* Seeded fault: the last block is taken for the end.
AtEndEarly(s) == s.pos + 1 >= Len(s.upload)

AtEnd(s) == s.pos = Len(s.upload)

ReadEnd(w) ==
    /\ In(w, "writing")
    /\ AtEnd(op[w])
    /\ op' = [op EXCEPT ![w].stage = "closing"]
    /\ UNCHANGED <<files, unlinked, used, stored, answer>>

\* What may be left of a file whose buffer is lost.
Truncated(f) == LET kept == {SubSeq(f, 1, n) : n \in 0..(Len(f) - 1)}
                IN  kept \cup {Append(g, TORN) : g \in kept}

\* afclose writes what is buffered; that it fails is only logged.
Close(w) ==
    /\ In(w, "closing")
    /\ LET s == op[w]
           f == files[s.path]
           done(failed) ==
             IF s.error
             THEN op' = [op EXCEPT ![w] = [@ EXCEPT !.stage = "unlinking", !.failed = failed]]
                             /\ UNCHANGED stored
             ELSE op' = [op EXCEPT ![w] = NULL] /\ Reply(s, 200, failed)
       IN  \/ done(s.failed) /\ UNCHANGED files
           \/ /\ \E g \in Truncated(f) : files' = [files EXCEPT ![s.path] = g]
              /\ done(IF s.failed = "none" THEN "write" ELSE s.failed)
    /\ UNCHANGED <<unlinked, used, answer>>

\* What is found under a path.  A worker that is still writing to a file that
\* was unlinked writes on, to a file that has no name.
At(p) == IF p \in unlinked THEN NULL ELSE files[p]

\* Files that an unlink can take.  The name is the client's, and the storage
\* is a directory below the worker's own.
Reached == {p \in Path : At(p) # NULL}

\* unlink of the name the client gave the file, relative to the directory of
\* the worker.  It may fail, take a file that is not of the store, or one that
\* is, of any upload: the path that was written stays unless it is the one
\* named.  If it succeeds, so does store_file.
Unlink(w) ==
    /\ In(w, "unlinking")
    /\ \/ \E code \in {200, 500} : Reply(op[w], code, op[w].failed) /\ UNCHANGED unlinked
       \/ \E p \in Reached : unlinked' = unlinked \cup {p} /\ Reply(op[w], 200, op[w].failed)
    /\ op' = [op EXCEPT ![w] = NULL]
    /\ UNCHANGED <<files, used, answer>>

-----------------------------------------------------------------------------
(* get_resource.                                                           *)

\* Seeded fault: a file without a header counts as missing.
Present(f) == f # NULL /\ f # <<>>

Exists(f) == f # NULL

HasHeader(f) == IF f = <<>> THEN FALSE ELSE Head(f) = HEADER

\* What follows the header, in full.  Without a header afread gives nothing,
\* or what follows the first bytes, and fetch_file a buffer of the size that
\* afsize says.
BodyOf(f) == IF f = <<>> THEN <<>> ELSE IF HasHeader(f) THEN Tail(f) ELSE <<TORN>>

Fetch(w, o, id) ==
    /\ op[w] = NULL
    /\ LET f == At(<<o, id>>) IN
        answer' = [path |-> <<o, id>>, code |-> IF Exists(f) THEN 200 ELSE 404,
                   body |-> IF Exists(f) THEN BodyOf(f) ELSE <<>>]
    /\ UNCHANGED <<files, unlinked, op, used, stored>>

\* afsize subtracts the size of the header: what is shorter comes out as a
\* size_t that aya_calloc cannot give, and ends the worker.  A body of zero
\* bytes may do so, too: that is up to Kore.
FetchFatal(w, o, id) ==
    /\ op[w] = NULL
    /\ LET f == At(<<o, id>>) IN f # NULL /\ (HasHeader(f) => Len(f) = 1)
    /\ answer' = NULL
    /\ UNCHANGED <<files, unlinked, op, used, stored>>

\* A worker dies, with what it had buffered, and Kore starts another.
Crash(w) ==
    /\ op[w] # NULL
    /\ LET p == op[w].path IN
        \E g \in {files[p]} \cup (IF op[w].stage = "unlinking" THEN {} ELSE Truncated(files[p])) :
            files' = [files EXCEPT ![p] = g]
    /\ op' = [op EXCEPT ![w] = NULL]
    /\ UNCHANGED <<unlinked, used, stored, answer>>

Next ==
    \E w \in Workers :
        \/ \E o \in ObjectIds, u \in Upload : Open(w, o, u)
        \/ ReadAndWrite(w) \/ ReadError(w) \/ ReadEnd(w) \/ Close(w) \/ Unlink(w)
        \/ \E o \in ObjectIds, id \in Uuids : Fetch(w, o, id) \/ FetchFatal(w, o, id)
        \/ Crash(w)

Spec == Init /\ [][Next]_vars

-----------------------------------------------------------------------------
(* Properties.                                                             *)

\* Positions stay within the upload, and what is stored and fetched has its
\* shape: a header is never handed out.
TypeOK ==
    /\ files \in [Path -> Seq(Pieces) \cup {NULL}]
    /\ unlinked \subseteq Path
    /\ op \in [Workers -> Store \cup {NULL}]
    /\ used \subseteq Uuids
    /\ stored \subseteq Stored
    /\ answer = NULL \/ answer \in Answer

Whole(s) == At(s.path) # NULL /\ BodyOf(At(s.path)) = s.upload

\* An upload of which no call failed is reported stored, and it is stored whole
\* whatever other workers store, lose or fail at meanwhile.  It stays so until a
\* client names its path for an upload of its own that cannot be read
\* (resource.c:82): unless there is one, nothing is unlinked.
StoredWhole ==
    /\ \A s \in stored :
         s.failed = "none" => s.code = 200 /\ (s.path \in unlinked \/ Whole(s))
    /\ unlinked # {} => \E s \in stored : s.failed = "read"

\* What a client fetches under the name of such an upload is what was sent, and
\* as long as the name has not been unlinked it is found.
FetchedWhole ==
    [][\A s \in stored :
         s.failed = "none" /\ answer' # answer /\ answer' # NULL /\ answer'.path = s.path =>
          \/ answer'.code = 200 /\ answer'.body = s.upload
          \/ answer'.code = 404 /\ s.path \in unlinked]_vars

\* What readers see of the store: the content of each name of which the put
\* went well and that is still there, read off its file, and what the workers
\* are storing.
Blob(p) ==
    IF p \notin unlinked /\ \E s \in stored : s.path = p /\ s.failed = "none"
    THEN BodyOf(files[p]) ELSE NULL
Putting(w) == IF op[w] = NULL THEN NULL ELSE [name |-> op[w].path, content |-> op[w].upload]

Blobs == INSTANCE BlobStore WITH
             Names <- Path, Contents <- Upload,
             blobs <- [p \in Path |-> Blob(p)], puts <- [w \in Workers |-> Putting(w)]

ASSUME PutAssumption == NULL \notin Blobs!Put

\* Headers, blocks, buffers and the order of the calls are invisible: an
\* upload whose calls went well appears under its name at once, when it is
\* answered.  No later upload changes it, and only the end of one that cannot
\* be read may take it away, with its name; all other steps but fetches change
\* nothing that can be seen.
ImplementsBlobs == Blobs!Spec

\* "Unlink on error" (resource.c:80): no file is left of an upload that could
\* not be read.
UnlinkedOnError == \A s \in stored : s.failed = "read" => At(s.path) = NULL
=============================================================================
