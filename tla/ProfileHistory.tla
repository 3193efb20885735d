---------------------------- MODULE ProfileHistory ----------------------------
(***************************************************************************)
(* Profile, remembering which pictures Infura did not get from an upload   *)
(* that ended, and whether a picture was set that the store had already:   *)
(* two things that the code lets pass without a change or an error.        *)
(***************************************************************************)
EXTENDS Profile

VARIABLES refused, \* pictures whose last upload failed or was lost
          silent   \* the stored picture was set again, and no change followed

historyVars == <<vars, refused, silent>>

InitH == Init /\ refused = {} /\ silent = FALSE

\* The calls whose put() sets the reference in this step.
Putting == {c \in Calls : At(c, "infura") /\ call'[c] # call[c] /\ ref' = Synced(call[c].picture)}

\* Pictures with an upload that ends in this step, one way or another.
Ended == (uploads \ uploads') \union {call[c].picture : c \in Putting}

NextH ==
    /\ Next
    /\ refused' = (refused \union Ended) \ infura'
    /\ silent' = \/ \E c \in Putting : call[c].picture = stored
                 \/ silent /\ details' # Details(stored)'

SpecH == InitH /\ [][NextH]_historyVars

-----------------------------------------------------------------------------
\* While the blob store and the replicated store agree on the picture, the
\* details are what the two say: no answer of IPFS, write or replication leaves
\* them behind.  Only setting the stored picture again does, once its pinning
\* had failed: put() sets the reference and nothing is written.
DetailsFollow == ref.picture = stored => details = Details(stored) \/ silent

\* What has a URL is served by Infura, or on its way there, unless the upload
\* was tried and failed or the process ended under it.
UrlIsServed == Url = "pending" \/ Url \in infura \union uploads \union refused
=============================================================================
