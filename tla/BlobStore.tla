----------------------------- MODULE BlobStore -----------------------------
(***************************************************************************)
(* What the files behind /app/resource promise, without paths, blocks,     *)
(* buffers and failures: a name gets its content all at once, and keeps it *)
(* until a put that is lost takes it away, name and all: contents never    *)
(* change.  Some puts are lost, and no one can tell what is fetched under  *)
(* their names; who fetches what is kept gets all of it or no answer.      *)
(* ResourceStore is shown to implement this module.                        *)
(***************************************************************************)

CONSTANTS Workers, Names, Contents, NULL

Put == [name : Names, content : Contents]

VARIABLES blobs,   \* what is kept under each name
          puts,    \* what each worker has been given to keep
          answer   \* the last answer to a fetch

vars == <<blobs, puts, answer>>

Init ==
    /\ blobs = [n \in Names |-> NULL]
    /\ puts = [w \in Workers |-> NULL]
    /\ answer = NULL

\* A name is free as long as nothing is kept or being put under it.
Free(n) == blobs[n] = NULL /\ \A w \in Workers : puts[w] = NULL \/ puts[w].name # n

Begin(w) ==
    /\ puts[w] = NULL
    /\ puts'[w] \in Put /\ Free(puts'[w].name)
    /\ puts' = [puts EXCEPT ![w] = puts'[w]]
    /\ UNCHANGED <<blobs, answer>>

Ends(w) == puts[w] # NULL /\ puts' = [puts EXCEPT ![w] = NULL] /\ UNCHANGED answer

Keep(w) ==
    /\ Ends(w)
    /\ blobs' = [blobs EXCEPT ![puts[w].name] = puts[w].content]

\* A put is lost, and what is kept under one name may be lost with it.
Lose(w) ==
    /\ Ends(w)
    /\ UNCHANGED blobs \/ \E n \in Names : blobs' = [blobs EXCEPT ![n] = NULL]

Get(n) ==
    /\ blobs[n] # NULL
    /\ answer' = [path |-> n, code |-> 200, body |-> blobs[n]]
    /\ UNCHANGED <<blobs, puts>>

\* No answer, or one about a name that nothing is kept under.
Miss ==
    /\ answer' # NULL => blobs[answer'.path] = NULL
    /\ UNCHANGED <<blobs, puts>>

Next ==
    \/ \E w \in Workers : Begin(w) \/ Keep(w) \/ Lose(w)
    \/ \E n \in Names : Get(n)
    \/ Miss

Spec == Init /\ [][Next]_vars
=============================================================================
