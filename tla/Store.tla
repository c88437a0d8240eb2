------------------------------- MODULE Store -------------------------------
(***************************************************************************)
(* What the service promises a client about the flash, whatever the driver *)
(* and the controller do to get there.  One job at a time may change only  *)
(* the pages it was given for; told "done", the client finds the partition *)
(* blank or its page programmed with the buffer it knows the CRC of; told  *)
(* "failed", or nothing because of a reset, it knows at least that every   *)
(* other page is as it was.                                                *)
(***************************************************************************)
CONSTANTS
  Page, Content,
  Partition,       \* the partitions there are
  PagesOf(_),      \* the pages of a partition
  PageOf(_, _),    \* the page a partition and a page number name
  Crc(_),
  None             \* no job

VARIABLES
  stored,  \* the content of every page
  buffer,  \* the page the client has put together
  job,     \* the erase or write at work, or None
  was,     \* what was stored when the last job began
  answer   \* what the client is about to be told of its job: "done", "failed" or "none"

storeVars == <<stored, buffer, job, was, answer>>

Init ==
  /\ stored \in [Page -> Content]
  /\ buffer \in Content
  /\ job = None
  /\ was = stored
  /\ answer = "none"

\* The pages a job may change.  A page number beyond its partition is not
\* refused: it names a page further on.
Target(j) ==
  IF j = None \/ j.id \notin Partition THEN {}
  ELSE IF j.method = "eraseApp" THEN PagesOf(j.id)
  ELSE {PageOf(j.id, j.n)}

Confined ==
  /\ stored' \in [Page -> Content]
  /\ \A p \in Page \ Target(job) : stored'[p] = stored[p]

\* Erasing makes a page blank, programming only adds cells.
Achieved(j) ==
  /\ j.id \in Partition
  /\ IF j.method = "eraseApp" THEN \A p \in PagesOf(j.id) : stored[p] = {}
     ELSE LET p == PageOf(j.id, j.n)
          IN  p \in Page /\ Crc(buffer) = j.crc /\ stored[p] = was[p] \cup buffer

Idle == job = None /\ answer = "none"

Load == Idle /\ buffer' \in Content /\ UNCHANGED <<stored, job, was, answer>>

Begin ==
  /\ Idle
  /\ job' # None /\ job'.method \in {"eraseApp", "writePage"}
  /\ was' = stored
  /\ UNCHANGED <<stored, buffer, answer>>

Refuse == Idle /\ answer' = "failed" /\ UNCHANGED <<stored, buffer, job, was>>

Work == job # None /\ Confined /\ UNCHANGED <<buffer, job, was, answer>>

Finish ==
  /\ job # None /\ job' = None
  /\ answer' = "failed" \/ (Achieved(job) /\ answer' = "done")
  /\ UNCHANGED <<stored, buffer, was>>

Deliver == answer # "none" /\ answer' = "none" /\ UNCHANGED <<stored, buffer, job, was>>

Reset ==
  /\ Confined
  /\ buffer' \in Content
  /\ job' = None /\ answer' = "none"
  /\ UNCHANGED was

Next == Load \/ Begin \/ Refuse \/ Work \/ Finish \/ Deliver \/ Reset

Spec == Init /\ [][Next]_storeVars
=============================================================================
