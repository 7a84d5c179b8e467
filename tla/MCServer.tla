------------------------------- MODULE MCServer -------------------------------
(* Instances of WebRequests and PreviewStore for TLC: the two are checked next
   to each other, not in product, since a request that confirms a preview is one
   step of its handler. *)
EXTENDS WebRequests, PreviewStore

CONSTANTS ann, receipt

VARIABLE part

MCInit == Init /\ InitPreviews /\ part \in {"web", "previews"}

\* Nothing tells one author or one kind of file from another: the first preview
\* is ann's, of a receipt.
First == used' = 1 => \A r \in cache' : r.author = ann /\ r.kind = receipt

MCNext ==
  /\ UNCHANGED part
  /\ \/ part = "web" /\ Next /\ UNCHANGED previewVars
     \/ part = "previews" /\ NextPreviews /\ First /\ UNCHANGED vars

MCSpec ==
  /\ MCInit
  /\ [][MCNext]_<<vars, previewVars, part>>
  /\ \A t \in Threads : WF_vars(Step(t))
=============================================================================
