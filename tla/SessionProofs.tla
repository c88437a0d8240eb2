--------------------------- MODULE SessionProofs ---------------------------
(***************************************************************************)
(* Theorems about client sessions, for every image, chunk size and number  *)
(* of faults: the requests of a session are requests the service           *)
(* specification admits, so the theorems about the service hold of the     *)
(* whole system; stale replies are recognised, no page is programmed       *)
(* twice, and the image arrives.                                           *)
(***************************************************************************)
EXTENDS Session, BootloaderProofs

-----------------------------------------------------------------------------
(* Requests *)

\* The pages of the image and the chunks the client cuts them into.
LEMMA ImagePage ==
  ASSUME NEW n \in DOMAIN Image
  PROVE  /\ Image[n].size \in Nat /\ 0 < Image[n].size
         /\ n - 1 \in AskedPages
         /\ crc_32_page(Image[n].data) \in AskedCrcs
         /\ \A start \in Nat : start < Image[n].size => Chunk(n, start) \in AskedChunks
<1>1. Image[n] \in [size : 1 .. CONFIG_PAGE_SIZE, data : Content]
  <2> DEFINE S == [size : 1 .. CONFIG_PAGE_SIZE, data : Content]
  <2>1. Image \in Seq(S)
    BY SessionAssumption
  <2> HIDE DEF S
  <2>2. Image[n] \in S
    BY <2>1
  <2> QED
    BY <2>2 DEF S
<1>2. Image[n].size \in 1 .. CONFIG_PAGE_SIZE
  BY <1>1
<1>3. Image[n].size \in Nat /\ 0 < Image[n].size
  BY <1>2, ServiceAssumption
<1>4. \A start \in Nat : start < Image[n].size => start \in 0 .. Image[n].size - 1
  BY <1>3, SMT
<1> QED
  BY <1>3, <1>4, SessionAssumption

\* The image is not empty; its pages are numbered from 1.
LEMMA ImagePages ==
  /\ Len(Image) \in Nat /\ DOMAIN Image = 1 .. Len(Image) /\ 1 \in DOMAIN Image
<1>1. Image \in Seq([size : 1 .. CONFIG_PAGE_SIZE, data : Content]) /\ Image # <<>>
  BY SessionAssumption
<1> QED
  BY <1>1

\* Every request of a client is one the service specification admits.
LEMMA HandleIsHandler ==
  ASSUME NEW m \in RequestMessage, Handle(m)
  PROVE  Handler
<1>1. m.n \in DOMAIN Image /\ m.addr \in Nat /\ m.addr < Image[m.n].size
  BY DEF RequestMessage
<1>2. m.n - 1 \in AskedPages /\ crc_32_page(Image[m.n].data) \in AskedCrcs
      /\ Chunk(m.n, m.addr) \in AskedChunks
  BY <1>1, ImagePage
<1>3. App \in AskedIds /\ BOOT_APP_1 \in AskedActions /\ BOOT_APP_2 \in AskedActions
  BY SessionAssumption
<1>4. CASE bl_ping \/ bl_erasePageBuffer \/ bl_boot \/ bl_eraseApp(App)
  BY <1>3, <1>4 DEF Handler
<1>5. CASE bl_writePageBuffer(Chunk(m.n, m.addr))
  BY <1>2, <1>5 DEF Handler
<1>6. CASE bl_writePage(App, m.n - 1, crc_32_page(Image[m.n].data))
  BY <1>2, <1>3, <1>6 DEF Handler
<1>7. CASE bl_setBootAction(IF App = APP_1 THEN BOOT_APP_1 ELSE BOOT_APP_2)
  BY <1>3, <1>7 DEF Handler
<1> QED
  BY <1>4, <1>5, <1>6, <1>7 DEF Handle

\* A step of the session is a step of the service or leaves it alone.
LEMMA ServiceOfSession == SessionTypeOK /\ [SessionNext]_sessionVars => [Next]_vars
<1> SUFFICES ASSUME SessionTypeOK, [SessionNext]_sessionVars PROVE [Next]_vars
  OBVIOUS
<1>1. CASE TakeRequest
  <2>1. Head(toServer) \in RequestMessage
    BY <1>1 DEF TakeRequest, SessionTypeOK
  <2> QED
    BY <1>1, <2>1, HandleIsHandler DEF TakeRequest, Next
<1>2. CASE ServerReply \/ ServerStep \/ HardwareStep \/ DeviceReset
  BY <1>2 DEF ServerReply, ServerStep, HardwareStep, DeviceReset, Next, LoopStep
<1>3. CASE Send \/ Receive \/ Timeout \/ LoseRequest \/ LoseReply
  BY <1>3 DEF Send, Receive, Timeout, LoseRequest, LoseReply
<1>4. CASE UNCHANGED sessionVars
  BY <1>4 DEF sessionVars
<1> QED
  BY <1>1, <1>2, <1>3, <1>4 DEF SessionNext, ClientStep, DeviceStep

-----------------------------------------------------------------------------
(* Types *)

\* What main does next leaves its counters within the image.
ClientTypeOK ==
  /\ stage \in Methods \cup {"ping_post", "done", "failed"}
  /\ page_no \in DOMAIN Image
  /\ addr \in 0 .. Image[page_no].size - 1
  /\ stage # "writePageBuffer" => addr = 0
  /\ err_cnt \in 0 .. MAX_ERRORS

\* Going on to another call leaves the client's counters where they were.
LEMMA GotoType ==
  ASSUME ClientTypeOK, stage # "writePageBuffer",
         NEW next \in Methods \cup {"ping_post", "done", "failed"}, Goto(next)
  PROVE  ClientTypeOK'
  BY DEF ClientTypeOK, Goto

\* A chunk given up, or tried again at the same place.
LEMMA ChunkFailedType ==
  ASSUME ClientTypeOK, ChunkFailed, stage = "writePageBuffer"
  PROVE  ClientTypeOK'
<1>1. page_no' = page_no /\ Image[page_no].size \in Nat /\ 0 < Image[page_no].size
  BY ImagePage DEF ChunkFailed, ClientTypeOK
<1>2. MAX_ERRORS \in Nat
  BY SessionAssumption
<1>3. CASE err_cnt + 1 > MAX_ERRORS
  <2>1. stage' = "writePage" /\ err_cnt' = 0 /\ addr' = 0
    BY <1>3 DEF ChunkFailed
  <2>2. 0 \in 0 .. Image[page_no].size - 1 /\ 0 \in 0 .. MAX_ERRORS
    BY <1>1, <1>2, SMT
  <2> QED
    BY <1>1, <2>1, <2>2 DEF ClientTypeOK, Methods
<1>4. CASE ~(err_cnt + 1 > MAX_ERRORS)
  <2>1. err_cnt' = err_cnt + 1 /\ stage' = stage /\ addr' = addr
    BY <1>4 DEF ChunkFailed
  <2>2. err_cnt + 1 \in 0 .. MAX_ERRORS
    BY <1>2, <1>4, SMT DEF ClientTypeOK
  <2> QED
    BY <1>1, <2>1, <2>2 DEF ClientTypeOK
<1> QED
  BY <1>3, <1>4

\* The next chunk starts within the page.
LEMMA NextChunkType ==
  ASSUME ClientTypeOK, NextChunk, stage = "writePageBuffer"
  PROVE  ClientTypeOK'
<1>1. page_no' = page_no /\ Image[page_no].size \in Nat /\ 0 < Image[page_no].size
  BY ImagePage DEF NextChunk, ClientTypeOK
<1>2. PAYLOAD_SIZE \in Nat /\ MAX_ERRORS \in Nat /\ err_cnt' = 0
  BY SessionAssumption DEF NextChunk
<1>3. addr' \in 0 .. Image[page_no].size - 1
  BY <1>1, <1>2, SMT DEF NextChunk, ClientTypeOK
<1>4. stage' \in {"writePageBuffer", "writePage"} /\ (stage' # "writePageBuffer" => addr' = 0)
  BY DEF NextChunk
<1>5. err_cnt' \in 0 .. MAX_ERRORS
  BY <1>2, SMT
<1> QED
  BY <1>1, <1>3, <1>4, <1>5 DEF ClientTypeOK, Methods

\* The next page is one of the image.
LEMMA NextPageType ==
  ASSUME ClientTypeOK, NextPage, stage = "writePage"
  PROVE  ClientTypeOK'
<1>1. CASE page_no < Len(Image)
  <2>1. /\ stage' = "erasePageBuffer" /\ page_no' = page_no + 1
        /\ addr' = addr /\ err_cnt' = err_cnt
    BY <1>1 DEF NextPage
  <2>2. page_no + 1 \in DOMAIN Image
    BY <1>1, ImagePages, SMT DEF ClientTypeOK
  <2>3. Image[page_no + 1].size \in Nat /\ 0 < Image[page_no + 1].size
    BY <2>2, ImagePage
  <2>4. addr = 0 /\ 0 \in 0 .. Image[page_no + 1].size - 1
    BY <2>3, SMT DEF ClientTypeOK
  <2> QED
    BY <2>1, <2>2, <2>4 DEF ClientTypeOK, Methods
<1>2. CASE ~(page_no < Len(Image))
  <2>1. Goto(IF DO_BOOT THEN "setBootAction" ELSE "ping_post")
    BY <1>2 DEF NextPage
  <2> QED
    BY <2>1, GotoType DEF Methods
<1> QED
  BY <1>1, <1>2

\* The outcome of a call, a value or an exception.
LEMMA OutcomeType ==
  ASSUME ClientTypeOK, Raise \/ \E value \in {0, -1, -2, -3, -5, -9} : Returns(value)
  PROVE  ClientTypeOK'
<1>1. CASE Raise
  BY <1>1, ChunkFailedType, GotoType DEF Raise
<1>2. ASSUME NEW value \in {0, -1, -2, -3, -5, -9}, Returns(value) PROVE ClientTypeOK'
  <2>1. CASE stage = "writePageBuffer"
    <3>1. NextChunk \/ ChunkFailed
      BY <1>2, <2>1 DEF Returns
    <3> QED
      BY <2>1, <3>1, NextChunkType, ChunkFailedType
  <2>2. CASE stage = "writePage"
    <3>1. NextPage \/ Goto("failed")
      BY <1>2, <2>2 DEF Returns
    <3> QED
      BY <2>2, <3>1, NextPageType, GotoType
  <2>3. CASE stage # "writePageBuffer" /\ stage # "writePage"
    <3>1. \/ Goto("eraseApp") \/ Goto("erasePageBuffer") \/ Goto("writePageBuffer")
          \/ Goto("boot") \/ Goto("done")
      BY <1>2, <2>3 DEF Returns
    <3> QED
      BY <2>3, <3>1, GotoType DEF Methods
  <2> QED
    BY <2>1, <2>2, <2>3
<1> QED
  BY <1>1, <1>2

\* The history, the flag and the line's state beside the client's counters.
LineTypeOK ==
  /\ sequence \in 0 .. SEQUENCES - 1
  /\ awaiting \in BOOLEAN /\ erased \in BOOLEAN
  /\ sent \in Nat /\ faults \in 0 .. MaxFaults
  /\ toServer \in Seq(RequestMessage)
  /\ toClient \in Seq(ReplyMessage)
  /\ handling \in [seq : 0 .. SEQUENCES - 1, id : Nat]

\* SessionTypeOK is the types of the client and those of the line.
LEMMA TypeParts == SessionTypeOK <=> ClientTypeOK /\ LineTypeOK
  BY DEF SessionTypeOK, ClientTypeOK, LineTypeOK

\* Requests carry the next sequence number and where the client is.
LEMMA SendType ==
  ASSUME ClientTypeOK, LineTypeOK, Send
  PROVE  LineTypeOK'
<1>1. sequence' \in 0 .. SEQUENCES - 1
  <2>1. SEQUENCES \in Nat \ {0}
    BY SessionAssumption
  <2>2. sequence \in Nat
    BY <2>1, SMT DEF LineTypeOK
  <2> QED
    BY <2>1, <2>2, SMT DEF Send, NextSequence
<1>2. sent' \in Nat /\ awaiting' = TRUE
  BY DEF Send, LineTypeOK
<1>3. Method \in Methods
  BY DEF Send, Ended, ClientTypeOK, Method, Methods
<1>4. page_no \in DOMAIN Image /\ addr \in Nat /\ addr < Image[page_no].size
  <2>1. page_no \in DOMAIN Image /\ addr \in 0 .. Image[page_no].size - 1
    BY DEF ClientTypeOK
  <2>2. Image[page_no].size \in Nat
    BY <2>1, ImagePage
  <2> QED
    BY <2>1, <2>2, SMT
<1> DEFINE m == [seq |-> sequence', id |-> sent', method |-> Method, n |-> page_no, addr |-> addr]
<1>5. m \in RequestMessage
  BY <1>1, <1>2, <1>3, <1>4 DEF RequestMessage
<1>6. toServer' = Append(toServer, m)
  BY DEF Send
<1> HIDE DEF m
<1>7. toServer' \in Seq(RequestMessage)
  BY <1>5, <1>6 DEF LineTypeOK
<1> QED
  BY <1>1, <1>2, <1>7 DEF Send, LineTypeOK

\* What the device takes from the line and puts on it.
LEMMA DeviceType ==
  ASSUME LineTypeOK, resp \in {0, -1, -2, -3, -5, -9}, TakeRequest \/ ServerReply
  PROVE  LineTypeOK'
<1>1. CASE TakeRequest
  <2>1. toServer # <<>> /\ toServer \in Seq(RequestMessage)
    BY <1>1 DEF TakeRequest, LineTypeOK
  <2>2. Head(toServer) \in RequestMessage /\ Tail(toServer) \in Seq(RequestMessage)
    BY <2>1
  <2>3. handling' \in [seq : 0 .. SEQUENCES - 1, id : Nat]
    BY <1>1, <2>2 DEF TakeRequest, RequestMessage
  <2> QED
    BY <1>1, <2>2, <2>3 DEF TakeRequest, LineTypeOK, client
<1>2. CASE ServerReply
  <2> DEFINE m == [seq |-> handling.seq, id |-> handling.id, value |-> resp]
  <2>1. m \in ReplyMessage
    BY DEF LineTypeOK, ReplyMessage
  <2>2. toClient' = Append(toClient, m)
    BY <1>2 DEF ServerReply
  <2> HIDE DEF m
  <2>3. toClient' \in Seq(ReplyMessage)
    BY <2>1, <2>2 DEF LineTypeOK
  <2>4. handling' \in [seq : 0 .. SEQUENCES - 1, id : Nat]
    BY <1>2, SessionAssumption, SMT DEF ServerReply, NoMessage
  <2> QED
    BY <1>2, <2>3, <2>4 DEF ServerReply, LineTypeOK, client
<1> QED
  BY <1>1, <1>2

\* A reply taken, a timeout, a frame lost or a reset.
LEMMA LossType ==
  ASSUME LineTypeOK, Receive \/ Timeout \/ LoseRequest \/ LoseReply \/ DeviceReset
  PROVE  LineTypeOK'
<1>1. CASE Receive
  <2>1. Tail(toClient) \in Seq(ReplyMessage)
    BY <1>1 DEF Receive, LineTypeOK
  <2> QED
    BY <1>1, <2>1 DEF Receive, LineTypeOK
<1>2. MaxFaults \in Nat /\ faults \in 0 .. MaxFaults
  BY SessionAssumption DEF LineTypeOK
<1>3. CASE Timeout
  <2>1. faults' \in 0 .. MaxFaults
    BY <1>2, <1>3, SMT DEF Timeout
  <2> QED
    BY <1>3, <2>1 DEF Timeout, LineTypeOK
<1>4. CASE LoseRequest
  <2>1. Tail(toServer) \in Seq(RequestMessage)
    BY <1>4 DEF LoseRequest, LineTypeOK
  <2>2. faults' \in 0 .. MaxFaults
    BY <1>2, <1>4, SMT DEF LoseRequest
  <2> QED
    BY <1>4, <2>1, <2>2 DEF LoseRequest, LineTypeOK, client
<1>5. CASE LoseReply
  <2>1. Tail(toClient) \in Seq(ReplyMessage)
    BY <1>5 DEF LoseReply, LineTypeOK
  <2>2. faults' \in 0 .. MaxFaults
    BY <1>2, <1>5, SMT DEF LoseReply
  <2> QED
    BY <1>5, <2>1, <2>2 DEF LoseReply, LineTypeOK, client
<1>6. CASE DeviceReset
  <2>1. handling' \in [seq : 0 .. SEQUENCES - 1, id : Nat]
    BY <1>6, SessionAssumption, SMT DEF DeviceReset, NoMessage
  <2> QED
    BY <1>6, <2>1 DEF DeviceReset, LineTypeOK, client
<1> QED
  BY <1>1, <1>3, <1>4, <1>5, <1>6

\* The client moves only when a call of its ends.
LEMMA ClientStepType ==
  ASSUME ClientTypeOK, LineTypeOK, [SessionNext]_sessionVars
  PROVE  ClientTypeOK'
<1>1. CASE Receive
  <2>1. Head(toClient) \in ReplyMessage
    BY <1>1 DEF Receive, LineTypeOK
  <2>2. Head(toClient).value \in {0, -1, -2, -3, -5, -9}
    BY <2>1 DEF ReplyMessage
  <2>3. Returns(Head(toClient).value) \/ Raise
    BY <1>1 DEF Receive
  <2> QED
    BY <2>2, <2>3, OutcomeType
<1>2. CASE Timeout
  BY <1>2, OutcomeType DEF Timeout
<1>3. CASE Send
  BY <1>3 DEF Send, ClientTypeOK
<1>4. CASE TakeRequest \/ ServerReply \/ ServerStep \/ HardwareStep \/ LoseRequest \/ LoseReply
           \/ DeviceReset \/ UNCHANGED sessionVars
  <2>1. UNCHANGED client
    BY <1>4 DEF TakeRequest, ServerReply, ServerStep, HardwareStep, LoseRequest, LoseReply,
       DeviceReset, sessionVars
  <2> QED
    BY <2>1 DEF client, ClientTypeOK
<1> QED
  BY <1>1, <1>2, <1>3, <1>4 DEF SessionNext, ClientStep, DeviceStep

\* With the service's types, the session's are inductive.
LEMMA SessionTypeStep ==
  SessionTypeOK /\ TypeOK /\ [SessionNext]_sessionVars => SessionTypeOK'
<1> SUFFICES ASSUME SessionTypeOK, TypeOK, [SessionNext]_sessionVars PROVE SessionTypeOK'
  OBVIOUS
<1>1. ClientTypeOK /\ LineTypeOK
  BY TypeParts
<1>2. ClientTypeOK'
  BY <1>1, ClientStepType
<1> SUFFICES LineTypeOK'
  BY <1>2 DEF SessionTypeOK, ClientTypeOK, LineTypeOK
<1>3. CASE Send
  BY <1>1, <1>3, SendType
<1>4. CASE TakeRequest \/ ServerReply
  <2>1. resp \in {0, -1, -2, -3, -5, -9}
    BY DEF TypeOK
  <2> QED
    BY <1>1, <1>4, <2>1, DeviceType
<1>5. CASE Receive \/ Timeout \/ LoseRequest \/ LoseReply \/ DeviceReset
  BY <1>1, <1>5, LossType
<1>6. CASE ServerStep \/ HardwareStep \/ UNCHANGED sessionVars
  <2>1. UNCHANGED <<client, line>>
    BY <1>6 DEF ServerStep, HardwareStep, sessionVars
  <2> QED
    BY <1>1, <2>1 DEF client, line, LineTypeOK
<1> QED
  BY <1>3, <1>4, <1>5, <1>6 DEF SessionNext, ClientStep, DeviceStep

\* A session starts at the ping, with the line empty.
LEMMA SessionTypeInit == SessionInit => SessionTypeOK
<1> SUFFICES ASSUME SessionInit PROVE SessionTypeOK
  OBVIOUS
<1>1. 1 \in DOMAIN Image /\ Image[1].size \in Nat /\ 0 < Image[1].size
  BY ImagePages, ImagePage
<1>2. 0 \in 0 .. Image[1].size - 1
  BY <1>1, SMT
<1>3. 0 \in 0 .. MAX_ERRORS /\ 0 \in 0 .. MaxFaults /\ 0 \in 0 .. SEQUENCES - 1
  BY SessionAssumption, SMT
<1>4. stage \in Methods /\ sequence = 0 /\ NoMessage \in [seq : 0 .. SEQUENCES - 1, id : Nat]
  BY <1>3 DEF SessionInit, Methods, NoMessage
<1>5. ClientTypeOK
  <2>1. stage = "ping" /\ page_no = 1 /\ addr = 0 /\ err_cnt = 0
    BY DEF SessionInit
  <2> QED
    BY <1>1, <1>2, <1>3, <1>4, <2>1 DEF ClientTypeOK
<1>6. LineTypeOK
  <2>1. /\ sequence = 0 /\ awaiting = FALSE /\ erased = FALSE /\ sent = 0 /\ faults = 0
        /\ toServer = <<>> /\ toClient = <<>> /\ handling = NoMessage
    BY DEF SessionInit
  <2>2. 0 \in Nat
    OBVIOUS
  <2>3. <<>> \in Seq(RequestMessage) /\ <<>> \in Seq(ReplyMessage)
    OBVIOUS
  <2> QED
    BY <1>3, <1>4, <2>1, <2>2, <2>3 DEF LineTypeOK
<1> QED
  BY <1>5, <1>6, TypeParts

\* The session's types and everything the service keeps, together inductive.
LEMMA SessionInvariant == SessionSpec => [](SessionTypeOK /\ ServiceInv)
<1>1. SessionInit => SessionTypeOK /\ ServiceInv
  BY SessionTypeInit, ServiceInvInit DEF SessionInit
<1>2. SessionTypeOK /\ ServiceInv /\ [SessionNext]_sessionVars => (SessionTypeOK /\ ServiceInv)'
  BY ServiceOfSession, ServiceInvStep, SessionTypeStep DEF ServiceInv
<1> QED
  BY <1>1, <1>2, PTL DEF SessionSpec

\* Whatever is lost, late or refused, the client stays within its image: every
\* chunk it sends fits its page, every page it commits is one of the image's.
THEOREM SessionTypeCorrect == SessionSpec => []SessionTypeOK
  BY SessionInvariant, PTL

\* Composition: seen from the device, a session is a behaviour of the service.
THEOREM SessionIsService == SessionSpec => ImplementsService
<1>1. SessionInit => Init
  BY DEF SessionInit
<1> QED
  BY <1>1, SessionInvariant, ServiceOfSession, PTL DEF SessionSpec, ImplementsService, Spec

\* The theorems about the service hold of every session: it leaves the
\* bootloader alone and boots the partition the device acknowledged.
THEOREM SessionSparesBootloader ==
  ASSUME STORE_FAULTS \/ SERIES = "V71"
  PROVE  SessionSpec => BootloaderUntouched /\ []BootsAckedPartition
  BY SessionIsService, ServiceSparesBootloader, BootsAcked, PTL DEF ImplementsService

-----------------------------------------------------------------------------
(* Stale replies *)

\* The reply to a request is awaited while its frame is handled or answered.
Handling == loop \in {"flash", "reply"}

\* How many requests a message may be behind the last: as many as the client
\* has given up while their replies could still come, the one under way apart.
Age == IF awaiting \/ Ended THEN faults ELSE faults - 1

\* Message m is at most `age' requests behind request n, whose sequence number is
\* s, and its own number is as far behind.
Recent(m, n, s, age) ==
  /\ m.id \in Nat /\ 0 < m.id /\ m.id <= n
  /\ n - m.id <= age
  /\ m.seq = (s - (n - m.id)) + (IF s < n - m.id THEN SEQUENCES ELSE 0)

\* Messages are in the order of their requests: on the line to the client, in
\* the server, on the line to the server.
QueueInv ==
  /\ \A i \in DOMAIN toClient : Recent(toClient[i], sent, sequence, Age)
  /\ \A i \in DOMAIN toServer : Recent(toServer[i], sent, sequence, Age)
  /\ \A i, j \in DOMAIN toClient : i < j => toClient[i].id < toClient[j].id
  /\ \A i, j \in DOMAIN toServer : i < j => toServer[i].id < toServer[j].id
  /\ \A i \in DOMAIN toClient, j \in DOMAIN toServer : toClient[i].id < toServer[j].id
  /\ Handling => /\ Recent(handling, sent, sequence, Age)
                 /\ \A i \in DOMAIN toClient : toClient[i].id < handling.id
                 /\ \A j \in DOMAIN toServer : handling.id < toServer[j].id

\* The client's last request, which it waits for unless it has ended.
Current(id, method) == id = sent /\ (Ended \/ (awaiting /\ Method = method))

\* Only chunks are ever left behind: any other call that fails ends the session.
\* So while the client goes on, neither a commit nor the application is under way.
CurrentInv ==
  /\ \A i \in DOMAIN toServer :
       toServer[i].method # "writePageBuffer" => Current(toServer[i].id, toServer[i].method)
  /\ pc # "idle" => loop = "flash" /\ \E method \in {"eraseApp", "writePage"} : Current(handling.id, method)
  /\ boot_enable \/ loop = "app" => stage \in {"boot", "done", "failed"}

StaleInv == QueueInv /\ CurrentInv

\* The messages of a queue without its first.
LEMMA TailOfQueue ==
  ASSUME NEW S, NEW s \in Seq(S), s # <<>>
  PROVE  /\ 1 \in DOMAIN s /\ Head(s) = s[1]
         /\ DOMAIN Tail(s) \subseteq Nat
         /\ \A i \in DOMAIN Tail(s) : i + 1 \in DOMAIN s /\ Tail(s)[i] = s[i + 1] /\ 1 < i + 1
  OBVIOUS

\* The messages of a queue with one more.
LEMMA AppendToQueue ==
  ASSUME NEW S, NEW s \in Seq(S), NEW m \in S
  PROVE  /\ DOMAIN s \subseteq Nat
         /\ \A i \in DOMAIN Append(s, m) :
              \/ i \in DOMAIN s /\ Append(s, m)[i] = s[i]
              \/ Append(s, m)[i] = m /\ i = Len(s) + 1 /\ i \in Nat /\ \A j \in DOMAIN s : j < i
  OBVIOUS

\* With fewer faults than sequence numbers, a reply with the number of the
\* request under way is the reply to it.
LEMMA SameNumberSameRequest ==
  ASSUME NEW m, NEW n \in Nat, NEW s \in Nat, NEW age \in Int, Recent(m, n, s, age),
         age < SEQUENCES, m.seq = s
  PROVE  m.id = n
  BY SessionAssumption, SMT DEF Recent

\* A message that may be so old may be older.
LEMMA RecentWeaker ==
  ASSUME NEW m, NEW n \in Nat, NEW s, NEW a \in Int, NEW b \in Int, Recent(m, n, s, a), a <= b
  PROVE  Recent(m, n, s, b)
  BY SMT DEF Recent

\* The request just sent.
LEMMA RecentNew ==
  ASSUME NEW m, NEW n \in Nat, 0 < n, NEW s \in Nat, NEW age \in Nat, m.id = n, m.seq = s
  PROVE  Recent(m, n, s, age)
  BY SMT DEF Recent

\* The next number, and back to 0 after the last.
LEMMA NextNumber ==
  ASSUME NEW s \in 0 .. SEQUENCES - 1
  PROVE  NextSequence(s) = IF s + 1 = SEQUENCES THEN 0 ELSE s + 1
<1>1. SEQUENCES \in Nat /\ 1 < SEQUENCES
  BY SessionAssumption, SMT
<1>2. CASE s + 1 = SEQUENCES
  <2>1. SEQUENCES % SEQUENCES = 0
    BY <1>1, Z3
  <2> QED
    BY <1>2, <2>1 DEF NextSequence
<1>3. CASE s + 1 # SEQUENCES
  <2>1. s + 1 \in Nat /\ s + 1 < SEQUENCES
    BY <1>1, <1>3, SMT
  <2>2. \A n \in Nat : n < SEQUENCES => n % SEQUENCES = n
    BY <1>1, Z3
  <2> QED
    BY <1>3, <2>1, <2>2 DEF NextSequence
<1> QED
  BY <1>2, <1>3

\* A message is one request older when the next is sent.
LEMMA RecentAfterSend ==
  ASSUME NEW m, NEW n \in Nat, NEW s \in 0 .. SEQUENCES - 1, NEW age \in Int,
         Recent(m, n, s, age), age + 1 < SEQUENCES
  PROVE  Recent(m, n + 1, NextSequence(s), age + 1)
<1>1. SEQUENCES \in Nat /\ 1 < SEQUENCES /\ s \in Nat /\ s < SEQUENCES
  BY SessionAssumption, SMT
<1>2. CASE s + 1 = SEQUENCES
  BY <1>1, <1>2, NextNumber, SMT DEF Recent
<1>3. CASE s + 1 # SEQUENCES
  BY <1>1, <1>3, NextNumber, SMT DEF Recent
<1> QED
  BY <1>2, <1>3

\* The counters of the invariant.
LEMMA CounterTypes ==
  ASSUME LineTypeOK
  PROVE  /\ sent \in Nat /\ sequence \in 0 .. SEQUENCES - 1 /\ sequence \in Nat
         /\ faults \in Nat /\ faults <= MaxFaults
         /\ Age \in Int /\ Age <= faults
         /\ MaxFaults \in Nat /\ SEQUENCES \in Nat
  BY SessionAssumption, SMT DEF LineTypeOK, Age

\* A new request is the youngest message.
LEMMA QueueSend ==
  ASSUME MaxFaults < SEQUENCES, ClientTypeOK, LineTypeOK, QueueInv, Send
  PROVE  QueueInv'
<1> DEFINE m == [seq |-> sequence', id |-> sent', method |-> Method, n |-> page_no, addr |-> addr]
<1>1. /\ ~awaiting /\ ~Ended /\ awaiting' = TRUE /\ sent' = sent + 1 /\ sequence' = NextSequence(sequence)
      /\ faults' = faults /\ toClient' = toClient /\ handling' = handling /\ loop' = loop
      /\ toServer' = Append(toServer, m)
  BY DEF Send, vars, bootVars
<1>2. Age + 1 < SEQUENCES /\ Age' = Age + 1
  BY <1>1, CounterTypes, SMT DEF Age
<1>3. ASSUME NEW x, Recent(x, sent, sequence, Age)
      PROVE  Recent(x, sent', sequence', Age') /\ x.id < sent'
  <2>1. Recent(x, sent + 1, NextSequence(sequence), Age + 1)
    BY <1>2, <1>3, CounterTypes, RecentAfterSend
  <2>2. x.id < sent + 1
    BY <1>3, CounterTypes, SMT DEF Recent
  <2> QED
    BY <1>1, <1>2, <2>1, <2>2
<1>4. Recent(m, sent', sequence', Age')
  <2>1. sequence' \in Nat /\ sent' \in Nat /\ 0 < sent' /\ Age' = faults /\ faults \in Nat
    <3>1. sequence' \in 0 .. SEQUENCES - 1
      BY SendType DEF LineTypeOK
    <3>2. sequence' \in Nat
      BY <3>1, CounterTypes, SMT
    <3>3. Age' = faults
      BY <1>1 DEF Age
    <3> QED
      BY <1>1, <3>2, <3>3, CounterTypes, SMT
  <2>2. m.id = sent' /\ m.seq = sequence'
    OBVIOUS
  <2> HIDE DEF m
  <2> QED
    BY <2>1, <2>2, RecentNew
<1>5. m.id = sent'
  OBVIOUS
<1>6. /\ DOMAIN toServer \subseteq Nat
      /\ \A i \in DOMAIN toServer' :
           \/ i \in DOMAIN toServer /\ toServer'[i] = toServer[i]
           \/ /\ toServer'[i] = m /\ i = Len(toServer) + 1 /\ i \in Nat
              /\ \A j \in DOMAIN toServer : j < i
  <2>1. toServer \in Seq(RequestMessage \cup {m}) /\ m \in RequestMessage \cup {m}
    BY DEF LineTypeOK
  <2> HIDE DEF m
  <2> QED
    BY <1>1, <2>1, AppendToQueue
<1> HIDE DEF m
<1>7. \A i \in DOMAIN toServer' : Recent(toServer'[i], sent', sequence', Age')
  BY <1>3, <1>4, <1>6 DEF QueueInv
<1>8. \A i \in DOMAIN toClient' : Recent(toClient'[i], sent', sequence', Age')
  BY <1>1, <1>3 DEF QueueInv
<1>9. \A i, j \in DOMAIN toServer' : i < j => toServer'[i].id < toServer'[j].id
  <2> SUFFICES ASSUME NEW i \in DOMAIN toServer', NEW j \in DOMAIN toServer', i < j
               PROVE  toServer'[i].id < toServer'[j].id
    OBVIOUS
  <2>1. i \in DOMAIN toServer /\ toServer'[i] = toServer[i]
    <3>1. CASE i = Len(toServer) + 1 /\ i \in Nat /\ \A k \in DOMAIN toServer : k < i
      <4>1. CASE j \in DOMAIN toServer
        BY <1>6, <3>1, <4>1, SMT
      <4>2. CASE j = Len(toServer) + 1
        BY <3>1, <4>2, SMT
      <4> QED
        BY <1>6, <4>1, <4>2
    <3> QED
      BY <1>6, <3>1
  <2>2. CASE j \in DOMAIN toServer /\ toServer'[j] = toServer[j]
    BY <2>1, <2>2 DEF QueueInv
  <2>3. CASE toServer'[j] = m
    BY <1>3, <1>5, <2>1, <2>3 DEF QueueInv
  <2> QED
    BY <1>6, <2>2, <2>3
<1>10. \A i \in DOMAIN toClient', j \in DOMAIN toServer' : toClient'[i].id < toServer'[j].id
  BY <1>1, <1>3, <1>5, <1>6 DEF QueueInv
<1>11. Handling' => /\ Recent(handling', sent', sequence', Age')
                    /\ \A i \in DOMAIN toClient' : toClient'[i].id < handling'.id
                    /\ \A j \in DOMAIN toServer' : handling'.id < toServer'[j].id
  BY <1>1, <1>3, <1>5, <1>6 DEF QueueInv, Handling
<1>12. \A i, j \in DOMAIN toClient' : i < j => toClient'[i].id < toClient'[j].id
  BY <1>1 DEF QueueInv
<1> QED
  BY <1>7, <1>8, <1>9, <1>10, <1>11, <1>12 DEF QueueInv

\* A message behind another is younger.
LEMMA RecentBehind ==
  ASSUME NEW h, NEW m, NEW n \in Nat, NEW s, NEW a \in Int, NEW b \in Int,
         Recent(h, n, s, a), Recent(m, n, s, a), h.id < m.id, a - 1 <= b
  PROVE  Recent(m, n, s, b)
  BY SMT DEF Recent

\* A queue as it was, or without its first message.
LEMMA Subqueue ==
  ASSUME NEW S, NEW s \in Seq(S), NEW t, t = s \/ (s # <<>> /\ t = Tail(s))
  PROVE  \E d \in {0, 1} : \A i \in DOMAIN t : i \in Nat /\ i + d \in DOMAIN s /\ t[i] = s[i + d]
<1>1. CASE t = s
  <2>1. \A i \in DOMAIN t : i \in Nat /\ i + 0 \in DOMAIN s /\ t[i] = s[i + 0]
    BY <1>1
  <2> QED
    BY <2>1
<1>2. CASE s # <<>> /\ t = Tail(s)
  <2>1. \A i \in DOMAIN t : i \in Nat /\ i + 1 \in DOMAIN s /\ t[i] = s[i + 1]
    BY <1>2, TailOfQueue
  <2> QED
    BY <2>1
<1> QED
  BY <1>1, <1>2

\* Losing messages, or taking them from the front, keeps the others in order.
LEMMA QueueShrinks ==
  ASSUME LineTypeOK, QueueInv, UNCHANGED <<sent, sequence>>, Age' \in Int, Age <= Age',
         toClient' = toClient \/ (toClient # <<>> /\ toClient' = Tail(toClient)),
         toServer' = toServer \/ (toServer # <<>> /\ toServer' = Tail(toServer)),
         Handling' => Handling /\ handling' = handling
  PROVE  QueueInv'
<1>1. PICK c \in {0, 1} :
        \A i \in DOMAIN toClient' : i \in Nat /\ i + c \in DOMAIN toClient /\ toClient'[i] = toClient[i + c]
  BY Subqueue DEF LineTypeOK
<1>2. PICK d \in {0, 1} :
        \A i \in DOMAIN toServer' : i \in Nat /\ i + d \in DOMAIN toServer /\ toServer'[i] = toServer[i + d]
  BY Subqueue DEF LineTypeOK
<1>3. ASSUME NEW x, Recent(x, sent, sequence, Age)
      PROVE  Recent(x, sent', sequence', Age')
  BY <1>3, CounterTypes, RecentWeaker
<1>4. \A i \in DOMAIN toClient' : Recent(toClient'[i], sent', sequence', Age')
  BY <1>1, <1>3 DEF QueueInv
<1>5. \A i \in DOMAIN toServer' : Recent(toServer'[i], sent', sequence', Age')
  BY <1>2, <1>3 DEF QueueInv
<1>6. \A i, j \in DOMAIN toClient' : i < j => toClient'[i].id < toClient'[j].id
  <2> SUFFICES ASSUME NEW i \in DOMAIN toClient', NEW j \in DOMAIN toClient', i < j
               PROVE  toClient'[i].id < toClient'[j].id
    OBVIOUS
  <2>1. i + c < j + c
    BY <1>1, SMT
  <2> QED
    BY <1>1, <2>1 DEF QueueInv
<1>7. \A i, j \in DOMAIN toServer' : i < j => toServer'[i].id < toServer'[j].id
  <2> SUFFICES ASSUME NEW i \in DOMAIN toServer', NEW j \in DOMAIN toServer', i < j
               PROVE  toServer'[i].id < toServer'[j].id
    OBVIOUS
  <2>1. i + d < j + d
    BY <1>2, SMT
  <2> QED
    BY <1>2, <2>1 DEF QueueInv
<1>8. \A i \in DOMAIN toClient', j \in DOMAIN toServer' : toClient'[i].id < toServer'[j].id
  BY <1>1, <1>2 DEF QueueInv
<1>9. Handling' => /\ Recent(handling', sent', sequence', Age')
                   /\ \A i \in DOMAIN toClient' : toClient'[i].id < handling'.id
                   /\ \A j \in DOMAIN toServer' : handling'.id < toServer'[j].id
  BY <1>1, <1>2, <1>3 DEF QueueInv
<1> QED
  BY <1>4, <1>5, <1>6, <1>7, <1>8, <1>9 DEF QueueInv

\* What the reply at the head of the line leaves behind it is younger.
LEMMA QueueReceive ==
  ASSUME LineTypeOK, QueueInv, Receive
  PROVE  QueueInv'
<1>1. /\ toClient # <<>> /\ toClient' = Tail(toClient) /\ toServer' = toServer /\ handling' = handling
      /\ sent' = sent /\ sequence' = sequence /\ faults' = faults /\ loop' = loop
  BY DEF Receive, vars, bootVars
<1>2. Age' \in Int /\ Age - 1 <= Age'
  BY <1>1, CounterTypes, SMT DEF Age
<1>3. /\ 1 \in DOMAIN toClient /\ DOMAIN Tail(toClient) \subseteq Nat
      /\ \A i \in DOMAIN toClient' : i + 1 \in DOMAIN toClient /\ toClient'[i] = toClient[i + 1] /\ 1 < i + 1
  BY <1>1, TailOfQueue DEF LineTypeOK
<1>4. ASSUME NEW x, Recent(x, sent, sequence, Age), toClient[1].id < x.id
      PROVE  Recent(x, sent', sequence', Age')
  <2>1. Recent(toClient[1], sent, sequence, Age)
    BY <1>3 DEF QueueInv
  <2> QED
    BY <1>1, <1>2, <1>4, <2>1, CounterTypes, RecentBehind
<1>5. \A i \in DOMAIN toClient' : Recent(toClient'[i], sent', sequence', Age')
  BY <1>3, <1>4 DEF QueueInv
<1>6. \A i \in DOMAIN toServer' : Recent(toServer'[i], sent', sequence', Age')
  BY <1>1, <1>3, <1>4 DEF QueueInv
<1>7. \A i, j \in DOMAIN toClient' : i < j => toClient'[i].id < toClient'[j].id
  <2> SUFFICES ASSUME NEW i \in DOMAIN toClient', NEW j \in DOMAIN toClient', i < j
               PROVE  toClient'[i].id < toClient'[j].id
    OBVIOUS
  <2>1. i + 1 < j + 1
    BY <1>1, <1>3, SMT
  <2> QED
    BY <1>3, <2>1 DEF QueueInv
<1>8. \A i \in DOMAIN toClient', j \in DOMAIN toServer' : toClient'[i].id < toServer'[j].id
  BY <1>1, <1>3 DEF QueueInv
<1>9. Handling' => /\ Recent(handling', sent', sequence', Age')
                   /\ \A i \in DOMAIN toClient' : toClient'[i].id < handling'.id
                   /\ \A j \in DOMAIN toServer' : handling'.id < toServer'[j].id
  BY <1>1, <1>3, <1>4 DEF QueueInv, Handling
<1>10. \A i, j \in DOMAIN toServer' : i < j => toServer'[i].id < toServer'[j].id
  BY <1>1 DEF QueueInv
<1> QED
  BY <1>5, <1>6, <1>7, <1>8, <1>9, <1>10 DEF QueueInv

\* Only a call that may be tried again has anything to do with what comes later.
LEMMA RaiseEnds ==
  ASSUME Raise
  PROVE  Ended' \/ (stage = "writePageBuffer" /\ stage' \in {"writePageBuffer", "writePage"})
  BY DEF Raise, ChunkFailed, Goto, Ended

\* While chunks are sent the device answers: nothing else is left of earlier calls.
LEMMA ChunksAnswered ==
  ASSUME CurrentInv, stage = "writePageBuffer"
  PROVE  /\ pc = "idle" /\ ~boot_enable /\ loop # "app"
         /\ \A i \in DOMAIN toServer : toServer[i].method = "writePageBuffer"
<1>1. \A id, method : Current(id, method) => method = "writePageBuffer"
  BY DEF Current, Ended, Method
<1> QED
  BY <1>1 DEF CurrentInv

\* A timeout with a reply still to come is a fault.
LEMMA QueueTimeout ==
  ASSUME LineTypeOK, StaleInv, Timeout
  PROVE  QueueInv'
<1>1. /\ awaiting /\ ~awaiting' /\ toClient = <<>>
      /\ UNCHANGED <<sent, sequence, toClient, toServer, handling, loop, pc>>
      /\ faults' = IF Answerable THEN faults + 1 ELSE faults
  BY DEF Timeout, vars, bootVars, flashVars
<1>2. CASE Ended' \/ Answerable
  <2>1. Age' \in Int /\ Age <= Age'
    BY <1>1, <1>2, CounterTypes, SMT DEF Age
  <2> QED
    BY <1>1, <2>1, QueueShrinks DEF StaleInv, Handling
<1>3. CASE ~Ended' /\ ~Answerable
  <2>1. stage = "writePageBuffer"
    BY <1>3, RaiseEnds DEF Timeout
  <2>2. loop # "app" /\ pc # "fault"
    BY <2>1, ChunksAnswered DEF StaleInv
  <2>3. toServer = <<>> /\ handling = NoMessage
    BY <1>3, <2>2 DEF Answerable
  <2>4. ~Handling
    BY <2>3 DEF StaleInv, QueueInv, Recent, NoMessage
  <2> QED
    BY <1>1, <2>3, <2>4 DEF QueueInv, Handling
<1> QED
  BY <1>2, <1>3

\* The request at the head of the line is older than those behind it.
LEMMA QueueTake ==
  ASSUME LineTypeOK, QueueInv, TakeRequest
  PROVE  QueueInv'
<1>1. /\ toServer # <<>> /\ toServer' = Tail(toServer) /\ toClient' = toClient
      /\ handling'.id = toServer[1].id /\ handling'.seq = toServer[1].seq
      /\ UNCHANGED <<sent, sequence, faults, awaiting, stage>>
  <2>1. Head(toServer) = toServer[1]
    BY TailOfQueue DEF TakeRequest, LineTypeOK
  <2> QED
    BY <2>1 DEF TakeRequest, client
<1>2. Age' = Age
  BY <1>1 DEF Age, Ended
<1>3. /\ 1 \in DOMAIN toServer /\ DOMAIN Tail(toServer) \subseteq Nat
      /\ \A i \in DOMAIN toServer' : i + 1 \in DOMAIN toServer /\ toServer'[i] = toServer[i + 1] /\ 1 < i + 1
  BY <1>1, TailOfQueue DEF LineTypeOK
<1>4. \A i \in DOMAIN toServer' : Recent(toServer'[i], sent', sequence', Age')
  BY <1>1, <1>2, <1>3 DEF QueueInv
<1>5. \A i, j \in DOMAIN toServer' : i < j => toServer'[i].id < toServer'[j].id
  <2> SUFFICES ASSUME NEW i \in DOMAIN toServer', NEW j \in DOMAIN toServer', i < j
               PROVE  toServer'[i].id < toServer'[j].id
    OBVIOUS
  <2>1. i + 1 < j + 1
    BY <1>1, <1>3, SMT
  <2> QED
    BY <1>3, <2>1 DEF QueueInv
<1>6. \A i \in DOMAIN toClient', j \in DOMAIN toServer' : toClient'[i].id < toServer'[j].id
  BY <1>1, <1>3 DEF QueueInv
<1>7. Recent(handling', sent', sequence', Age')
  <2>1. Recent(toServer[1], sent, sequence, Age)
    BY <1>3 DEF QueueInv
  <2> QED
    BY <1>1, <1>2, <2>1 DEF Recent
<1>8. /\ \A i \in DOMAIN toClient' : toClient'[i].id < handling'.id
      /\ \A j \in DOMAIN toServer' : handling'.id < toServer'[j].id
  BY <1>1, <1>3 DEF QueueInv
<1>9. /\ \A i \in DOMAIN toClient' : Recent(toClient'[i], sent', sequence', Age')
      /\ \A i, j \in DOMAIN toClient' : i < j => toClient'[i].id < toClient'[j].id
  BY <1>1, <1>2 DEF QueueInv
<1> QED
  BY <1>4, <1>5, <1>6, <1>7, <1>8, <1>9 DEF QueueInv

\* A reply goes behind those of earlier requests.
LEMMA QueueReply ==
  ASSUME LineTypeOK, QueueInv, resp \in {0, -1, -2, -3, -5, -9}, ServerReply
  PROVE  QueueInv'
<1> DEFINE m == [seq |-> handling.seq, id |-> handling.id, value |-> resp]
<1>1. /\ loop = "reply" /\ loop' = "boot_poll" /\ toServer' = toServer
      /\ UNCHANGED <<sent, sequence, faults, awaiting, stage>>
      /\ toClient' = Append(toClient, m)
  BY DEF ServerReply, Reply, client
<1>2. Age' = Age /\ Handling /\ ~Handling'
  BY <1>1 DEF Age, Ended, Handling
<1>3. m \in ReplyMessage
  BY DEF LineTypeOK, ReplyMessage
<1>4. Recent(m, sent', sequence', Age')
  BY <1>1, <1>2 DEF QueueInv, Recent
<1>5. m.id = handling.id
  OBVIOUS
<1> HIDE DEF m
<1>6. /\ DOMAIN toClient \subseteq Nat
      /\ \A i \in DOMAIN toClient' :
           \/ i \in DOMAIN toClient /\ toClient'[i] = toClient[i]
           \/ /\ toClient'[i] = m /\ i = Len(toClient) + 1 /\ i \in Nat
              /\ \A j \in DOMAIN toClient : j < i
  BY <1>1, <1>3, AppendToQueue DEF LineTypeOK
<1>7. \A i \in DOMAIN toClient' : Recent(toClient'[i], sent', sequence', Age')
  BY <1>1, <1>2, <1>4, <1>6 DEF QueueInv
<1>8. \A i, j \in DOMAIN toClient' : i < j => toClient'[i].id < toClient'[j].id
  <2> SUFFICES ASSUME NEW i \in DOMAIN toClient', NEW j \in DOMAIN toClient', i < j
               PROVE  toClient'[i].id < toClient'[j].id
    OBVIOUS
  <2>1. i \in DOMAIN toClient /\ toClient'[i] = toClient[i]
    <3>1. CASE i = Len(toClient) + 1 /\ i \in Nat /\ \A k \in DOMAIN toClient : k < i
      <4>1. CASE j \in DOMAIN toClient
        BY <1>6, <3>1, <4>1, SMT
      <4>2. CASE j = Len(toClient) + 1
        BY <3>1, <4>2, SMT
      <4> QED
        BY <1>6, <4>1, <4>2
    <3> QED
      BY <1>6, <3>1
  <2>2. CASE j \in DOMAIN toClient /\ toClient'[j] = toClient[j]
    BY <2>1, <2>2 DEF QueueInv
  <2>3. CASE toClient'[j] = m
    BY <1>2, <1>5, <2>1, <2>3 DEF QueueInv
  <2> QED
    BY <1>6, <2>2, <2>3
<1>9. \A i \in DOMAIN toClient', j \in DOMAIN toServer' : toClient'[i].id < toServer'[j].id
  BY <1>1, <1>2, <1>5, <1>6 DEF QueueInv
<1>10. /\ \A i \in DOMAIN toServer' : Recent(toServer'[i], sent', sequence', Age')
       /\ \A i, j \in DOMAIN toServer' : i < j => toServer'[i].id < toServer'[j].id
  BY <1>1, <1>2 DEF QueueInv
<1> QED
  BY <1>2, <1>7, <1>8, <1>9, <1>10 DEF QueueInv

\* The other steps only take messages away.
LEMMA QueueStep ==
  ASSUME MaxFaults < SEQUENCES, SessionTypeOK, TypeOK, StaleInv, [SessionNext]_sessionVars
  PROVE  QueueInv'
<1>1. ClientTypeOK /\ LineTypeOK /\ QueueInv /\ resp \in {0, -1, -2, -3, -5, -9}
  BY TypeParts DEF StaleInv, TypeOK
<1>2. CASE Send
  BY <1>1, <1>2, QueueSend
<1>3. CASE Receive
  BY <1>1, <1>3, QueueReceive
<1>4. CASE Timeout
  BY <1>1, <1>4, QueueTimeout
<1>5. CASE TakeRequest
  BY <1>1, <1>5, QueueTake
<1>6. CASE ServerReply
  BY <1>1, <1>6, QueueReply
<1>7. CASE ServerStep \/ HardwareStep \/ UNCHANGED sessionVars
  <2>1. UNCHANGED <<client, line>>
    BY <1>7 DEF ServerStep, HardwareStep, sessionVars
  <2>2. Age' = Age
    BY <2>1 DEF client, line, Age, Ended
  <2>3. Handling' => Handling
    BY <1>7 DEF ServerStep, HardwareStep, ControllerStep, FlashReturned, FlashStep, sys_boot_poll, bootVars,
       sessionVars, vars, Handling
  <2> QED
    BY <1>1, <2>1, <2>2, <2>3, CounterTypes, QueueShrinks DEF client, line
<1>8. CASE LoseRequest \/ LoseReply \/ DeviceReset
  <2>1. UNCHANGED client /\ faults' \in Nat /\ faults <= faults'
    BY <1>1, <1>8, CounterTypes, SMT DEF LoseRequest, LoseReply, DeviceReset
  <2>2. Age' \in Int /\ Age <= Age'
    BY <1>1, <2>1, CounterTypes, SMT DEF client, Age, Ended
  <2>3. Handling' => Handling /\ handling' = handling
    BY <1>8 DEF LoseRequest, LoseReply, DeviceReset, Reset, vars, bootVars, Handling
  <2>4. /\ toClient' = toClient \/ (toClient # <<>> /\ toClient' = Tail(toClient))
        /\ toServer' = toServer \/ (toServer # <<>> /\ toServer' = Tail(toServer))
    BY <1>8 DEF LoseRequest, LoseReply, DeviceReset
  <2> QED
    BY <1>1, <2>1, <2>2, <2>3, <2>4, QueueShrinks DEF client
<1> QED
  BY <1>2, <1>3, <1>4, <1>5, <1>6, <1>7, <1>8 DEF SessionNext, ClientStep, DeviceStep

\* When the last request is answered, no other is left.
LEMMA NothingLeft ==
  ASSUME LineTypeOK, QueueInv, toClient # <<>>, Head(toClient).id = sent
  PROVE  DOMAIN toServer = {} /\ ~Handling
<1>1. 1 \in DOMAIN toClient /\ toClient[1].id = sent /\ sent \in Nat
  BY TailOfQueue, CounterTypes DEF LineTypeOK
<1>2. \A x : ~(Recent(x, sent, sequence, Age) /\ sent < x.id)
  BY <1>1, SMT DEF Recent
<1> QED
  BY <1>1, <1>2 DEF QueueInv

\* The client goes on when its call has been answered or may be tried again, and
\* ends otherwise.
LEMMA CurrentClient ==
  ASSUME MaxFaults < SEQUENCES, LineTypeOK, StaleInv, Receive \/ Timeout
  PROVE  CurrentInv'
<1>1. UNCHANGED <<toServer, handling, loop, pc, boot_enable, sent>>
  BY DEF Receive, Timeout, vars, bootVars, flashVars
<1>2. CASE Receive /\ Head(toClient).seq = sequence
  <2>1. 1 \in DOMAIN toClient /\ toClient # <<>> /\ Head(toClient) = toClient[1]
    BY <1>2, TailOfQueue DEF Receive, LineTypeOK
  <2>2. Recent(Head(toClient), sent, sequence, Age)
    BY <2>1 DEF StaleInv, QueueInv
  <2>3. Age < SEQUENCES
    BY CounterTypes, SMT
  <2>4. Head(toClient).id = sent
    BY <1>2, <2>2, <2>3, CounterTypes, SameNumberSameRequest
  <2>5. DOMAIN toServer = {} /\ ~Handling
    BY <2>1, <2>4, NothingLeft DEF StaleInv
  <2>6. pc = "idle"
    BY <2>5 DEF StaleInv, CurrentInv, Handling
  <2>7. stage \in {"boot", "done", "failed"} => stage' = "done"
    BY <1>2 DEF Receive, Returns, Goto
  <2> QED
    BY <1>1, <2>5, <2>6, <2>7 DEF StaleInv, CurrentInv
<1>3. CASE Raise
  <2>1. CASE Ended'
    BY <1>1, <2>1 DEF StaleInv, CurrentInv, Current, Ended
  <2>2. CASE stage = "writePageBuffer"
    BY <1>1, <2>2, ChunksAnswered DEF StaleInv, CurrentInv
  <2> QED
    BY <1>3, <2>1, <2>2, RaiseEnds
<1> QED
  BY <1>2, <1>3 DEF Receive, Timeout

\* When the client sends, no call but a chunk is left.
LEMMA CurrentSend ==
  ASSUME ClientTypeOK, LineTypeOK, CurrentInv, Send
  PROVE  CurrentInv'
<1> DEFINE m == [seq |-> sequence', id |-> sent', method |-> Method, n |-> page_no, addr |-> addr]
<1>1. /\ ~awaiting /\ ~Ended /\ awaiting' /\ UNCHANGED <<stage, loop, pc, boot_enable>>
      /\ toServer' = Append(toServer, m)
  BY DEF Send, vars, bootVars, flashVars
<1>2. \A id, method : ~Current(id, method)
  BY <1>1 DEF Current
<1>3. m.id = sent' /\ m.method = Method
  OBVIOUS
<1>4. toServer \in Seq(RequestMessage \cup {m}) /\ m \in RequestMessage \cup {m}
  BY DEF LineTypeOK
<1> HIDE DEF m
<1>5. \A i \in DOMAIN toServer' :
        (i \in DOMAIN toServer /\ toServer'[i] = toServer[i]) \/ toServer'[i] = m
  BY <1>1, <1>4, AppendToQueue
<1>6. Method' = Method
  BY <1>1 DEF Method
<1> QED
  BY <1>1, <1>2, <1>3, <1>5, <1>6 DEF CurrentInv, Current

\* The device takes a call while the client is still at it, or has ended.
LEMMA CurrentTake ==
  ASSUME LineTypeOK, StaleInv, TakeRequest
  PROVE  CurrentInv'
<1> DEFINE m == Head(toServer)
<1>1. /\ 1 \in DOMAIN toServer /\ m = toServer[1]
      /\ \A i \in DOMAIN toServer' : i + 1 \in DOMAIN toServer /\ toServer'[i] = toServer[i + 1]
  BY TailOfQueue DEF TakeRequest, LineTypeOK
<1>2. /\ m.method # "writePageBuffer" => Current(m.id, m.method)
      /\ UNCHANGED client /\ handling'.id = m.id /\ Handle(m)
  BY <1>1 DEF TakeRequest, StaleInv, CurrentInv
<1> HIDE DEF m
<1>3. /\ \A id, method : Current(id, method)' <=> Current(id, method)
      /\ stage' = stage
  BY <1>2 DEF client, Current, Ended, Method
<1>4. loop = "poll" /\ loop' \in {"flash", "reply"} /\ pc = "idle"
  BY <1>2 DEF StaleInv, CurrentInv, Handle, bl_ping, bl_eraseApp, bl_erasePageBuffer, bl_writePageBuffer, bl_writePage,
     bl_setBootAction, bl_boot, Request, Answer
<1>5. pc' # "idle" => loop' = "flash" /\ m.method \in {"eraseApp", "writePage"}
  BY <1>2, <1>4 DEF Handle, bl_ping, bl_eraseApp, bl_erasePageBuffer, bl_writePageBuffer, bl_writePage,
     bl_setBootAction, bl_boot, flashVars
<1>6. boot_enable' => boot_enable \/ m.method = "boot"
  BY <1>2 DEF Handle, bl_ping, bl_eraseApp, bl_erasePageBuffer, bl_writePageBuffer, bl_writePage,
     bl_setBootAction, bl_boot, serviceVars
<1>7. m.method = "boot" => stage \in {"boot", "done", "failed"}
  BY <1>2 DEF Current, Ended, Method
<1> QED
  BY <1>1, <1>2, <1>3, <1>4, <1>5, <1>6, <1>7 DEF StaleInv, CurrentInv

\* The device goes on with what it was asked, or forgets it in a reset.
LEMMA CurrentStep ==
  ASSUME MaxFaults < SEQUENCES, SessionTypeOK, StaleInv, [SessionNext]_sessionVars
  PROVE  CurrentInv'
<1>1. ClientTypeOK /\ LineTypeOK /\ CurrentInv
  BY TypeParts DEF StaleInv
<1>2. CASE Send
  BY <1>1, <1>2, CurrentSend
<1>3. CASE Receive \/ Timeout
  BY <1>1, <1>3, CurrentClient
<1>4. CASE TakeRequest
  BY <1>1, <1>4, CurrentTake
<1>5. ASSUME UNCHANGED client
      PROVE  /\ \A id, method : Current(id, method)' <=> Current(id, method)
             /\ stage' = stage
  BY <1>5 DEF client, Current, Ended, Method
<1>6. CASE ServerReply
  BY <1>5, <1>6 DEF ServerReply, Reply, flashVars, serviceVars, CurrentInv, StaleInv
<1>7. CASE ServerStep
  <2>1. UNCHANGED client /\ UNCHANGED line
    BY <1>7 DEF ServerStep
  <2>2. CASE FlashReturned
    BY <1>5, <2>1, <2>2 DEF FlashReturned, Returned, Answer, serviceVars, CurrentInv, StaleInv, line
  <2>3. CASE FlashStep
    <3>1. pc # "idle" /\ UNCHANGED bootVars
      BY <2>3 DEF FlashStep, DriverStep, EraseIssue, EraseCheck, WriteIssue, WriteCheck
    <3> QED
      BY <1>5, <2>1, <3>1 DEF CurrentInv, StaleInv, bootVars, line
  <2>4. CASE sys_boot_poll
    BY <1>5, <2>1, <2>4 DEF sys_boot_poll, flashVars, CurrentInv, StaleInv, line
  <2> QED
    BY <1>7, <2>2, <2>3, <2>4 DEF ServerStep
<1>8. CASE HardwareStep \/ UNCHANGED sessionVars
  <2>1. UNCHANGED <<client, line, bootVars, pc>>
    BY <1>8 DEF HardwareStep, ControllerStep, Controller, Complete, CommandError, LockError, FlashError, Finish,
       driver, sessionVars, vars, flashVars
  <2> QED
    BY <1>5, <2>1 DEF CurrentInv, StaleInv, bootVars, line
<1>9. CASE LoseRequest
  <2>1. \A i \in DOMAIN toServer' : i + 1 \in DOMAIN toServer /\ toServer'[i] = toServer[i + 1]
    BY <1>1, <1>9, TailOfQueue DEF LoseRequest, LineTypeOK
  <2> QED
    BY <1>5, <1>9, <2>1 DEF LoseRequest, vars, bootVars, flashVars, CurrentInv, StaleInv
<1>10. CASE LoseReply
  BY <1>5, <1>10 DEF LoseReply, vars, bootVars, flashVars, CurrentInv, StaleInv
<1>11. CASE DeviceReset
  BY <1>5, <1>11 DEF DeviceReset, Reset, FlashReset, CurrentInv, StaleInv
<1> QED
  BY <1>2, <1>3, <1>4, <1>6, <1>7, <1>8, <1>9, <1>10, <1>11 DEF SessionNext, ClientStep, DeviceStep

\* With fewer faults than there are sequence numbers, the two are inductive.
LEMMA StaleInvariant ==
  ASSUME MaxFaults < SEQUENCES
  PROVE  SessionSpec => [](SessionTypeOK /\ ServiceInv /\ StaleInv)
<1>1. SessionInit => StaleInv
  <2> SUFFICES ASSUME SessionInit PROVE StaleInv
    OBVIOUS
  <2>1. toClient = <<>> /\ toServer = <<>> /\ loop = "poll" /\ pc = "idle" /\ ~boot_enable
    BY DEF SessionInit, Init, FlashInit
  <2> QED
    BY <2>1 DEF StaleInv, QueueInv, CurrentInv, Handling
<1>2. SessionTypeOK /\ ServiceInv /\ StaleInv /\ [SessionNext]_sessionVars => StaleInv'
  BY QueueStep, CurrentStep DEF StaleInv, ServiceInv
<1> QED
  BY <1>1, <1>2, SessionInvariant, PTL DEF SessionSpec

\* erpc/client.py:88: with fewer replies given up than there are sequence
\* numbers, the client never takes an old reply for the answer, however long the
\* session is and whatever else is lost.
THEOREM StaleRepliesRecognised ==
  ASSUME MaxFaults < SEQUENCES
  PROVE  SessionSpec => []StaleReplyRecognised
<1>1. SessionTypeOK /\ StaleInv => StaleReplyRecognised
  <2> SUFFICES ASSUME SessionTypeOK, StaleInv, toClient # <<>>, Head(toClient).seq = sequence
               PROVE  Head(toClient).id = sent
    BY DEF StaleReplyRecognised
  <2>1. LineTypeOK
    BY TypeParts
  <2>2. 1 \in DOMAIN toClient /\ Head(toClient) = toClient[1]
    BY <2>1, TailOfQueue DEF LineTypeOK
  <2>3. Recent(Head(toClient), sent, sequence, Age)
    BY <2>2 DEF StaleInv, QueueInv
  <2>4. Age < SEQUENCES
    BY <2>1, CounterTypes, SMT
  <2> QED
    BY <2>1, <2>3, <2>4, CounterTypes, SameNumberSameRequest
<1> QED
  BY <1>1, StaleInvariant, PTL

-----------------------------------------------------------------------------
(* Pages are programmed once *)

\* Where the n-th page of the image goes.
DevicePage(n) == (PartitionStart(App) - FLASH_BASE_PAGE) + (n - 1)

Blank(n) == flash[DevicePage(n)] = {}
AllBlank == \A n \in DOMAIN Image : Blank(n)

\* The pages whose commit the client has still to request.
ToCommit ==
  {n \in DOMAIN Image :
     \/ page_no < n
     \/ /\ n = page_no
        /\ stage \in {"erasePageBuffer", "writePageBuffer"} \/ (stage = "writePage" /\ ~awaiting)}

\* What has been erased is blank until it is committed: by the reply that says
\* so, while the client sends chunks, and while the commit is on its way.
PagesInv ==
  /\ erased => stage \notin {"ping", "eraseApp"} /\ \A n \in ToCommit : Blank(n)
  /\ \A i \in DOMAIN toServer :
       /\ toServer[i].id = sent /\ awaiting => toServer[i].method = Method
       /\ toServer[i].method = "writePage" => toServer[i].n = page_no /\ (erased => Blank(page_no))
       /\ toServer[i].method = "eraseApp" => ~erased
  /\ Handling /\ handling.id = sent /\ awaiting => request.method = Method
  /\ loop = "flash" =>
       /\ request.id = App /\ request.method \in {"eraseApp", "writePage"}
       /\ request.method = "writePage" =>
            request.n = page_no - 1 /\ (erased /\ pc = "write_issue" => Blank(page_no))
       /\ request.method = "eraseApp" => ~erased
  /\ loop = "reply" /\ request.method = "eraseApp" /\ resp = 0 => AllBlank
  /\ stage = "eraseApp" /\ awaiting =>
       \A i \in DOMAIN toClient : toClient[i].id = sent /\ toClient[i].value = 0 => AllBlank

\* What BootloaderProofs and FlashProofs keep of the device.
DeviceInv == TypeOK /\ FlashInv /\ EraseInv /\ WriteInv /\ FlashAtRest /\ CallOfRequest

\* The lemmas below are about the RH71 and an image that fits its partition.
Fits == SERIES = "RH71" /\ EPA_FIELD = "page" /\ Len(Image) <= APP_PAGES

\* The pages of the image are different pages of the partition.
LEMMA DevicePages ==
  ASSUME Fits, NEW n \in DOMAIN Image
  PROVE  /\ DevicePage(n) \in Page /\ DevicePage(n) \in PartitionPages(App)
         /\ n \in Nat
         /\ \A k \in DOMAIN Image : k # n => DevicePage(k) # DevicePage(n)
<1>1. App \in Partitions /\ App \in {0, 1}
  BY SessionAssumption DEF Partitions, APP_1, APP_2
<1>2. /\ PartitionStart(App) \in Nat /\ FLASH_BASE_PAGE <= PartitionStart(App)
      /\ PartitionEnd(App) = PartitionStart(App) + APP_PAGES
      /\ PartitionEnd(App) <= FLASH_BASE_PAGE + DEVICE_PAGES
      /\ APP_PAGES \in Nat
  BY <1>1, PartitionBounds, GeometryAssumption DEF PartitionEnd, APP_1, APP_2
<1>3. n \in Nat /\ 1 <= n /\ n <= APP_PAGES
  BY <1>2, ImagePages, SMT DEF Fits
<1>4. DevicePage(n) \in Page /\ DevicePage(n) \in PartitionPages(App)
  BY <1>2, <1>3, BaseAligned, SMT DEF DevicePage, Page, PartitionPages
<1>5. \A k \in DOMAIN Image : k # n => DevicePage(k) # DevicePage(n)
  BY <1>2, <1>3, ImagePages, BaseAligned, SMT DEF DevicePage
<1> QED
  BY <1>3, <1>4, <1>5

\* A commit on its way through the driver is aimed at the page it names.
LEMMA CommitTarget ==
  ASSUME Fits, DeviceInv, page_no \in DOMAIN Image, loop = "flash",
         request.id = App, request.method = "writePage", request.n = page_no - 1,
         pc \in {"write_issue", "write_check"}
  PROVE  Targets(WriteCommand) = {DevicePage(page_no)}
<1>1. call.id = App /\ call.n = page_no - 1 /\ call.id = partition /\ call.n = page
  BY DEF DeviceInv, CallOfRequest, WriteInv
<1>2. page_no \in 1 .. Len(Image) /\ Len(Image) \in Nat /\ Len(Image) <= APP_PAGES /\ APP_PAGES \in Nat
  BY ImagePages, GeometryAssumption DEF Fits
<1>3. call.n < APP_PAGES /\ call.id \in {APP_1, APP_2}
  BY <1>1, <1>2, SessionAssumption, SMT
<1>4. FlashTypeOK
  BY DEF DeviceInv, TypeOK
<1>5. Reached
  BY <1>3, <1>4, TargetInPartition
<1>6. Targets(WriteCommand) = {WriteTarget}
  BY <1>1, <1>4, <1>5, WriteTargets DEF Fits
<1> QED
  BY <1>1, <1>6 DEF WriteTarget, DevicePage

\* Outside a flash request nothing changes, and a commit changes its page only.
LEMMA PlaceKept ==
  ASSUME Fits, DeviceInv, PagesInv, page_no \in DOMAIN Image, [Next]_vars, NEW p \in Page,
         fcr # NoCommand => request.method = "writePage" /\ p # DevicePage(page_no)
  PROVE  flash'[p] = flash[p]
<1>1. FlashTypeOK /\ [FlashNext]_flashVars
  BY FlashOfStep DEF DeviceInv, TypeOK, BufferType
<1>2. p \notin Targets(fcr)
  <2>1. CASE fcr = NoCommand
    BY <2>1 DEF Targets, NoCommand
  <2>2. CASE fcr # NoCommand
    <3>1. loop = "flash" /\ pc \in {"erase_check", "write_check"}
      BY <2>2 DEF DeviceInv, FlashAtRest, FlashInv, OneCommandAtATime
    <3>2. /\ request.method = "writePage" /\ request.id = App /\ request.n = page_no - 1
          /\ call.op = "write"
      BY <2>2, <3>1 DEF PagesInv, DeviceInv, CallOfRequest
    <3>3. pc = "write_check" /\ fcr = WriteCommand
      BY <2>2, <3>1, <3>2 DEF DeviceInv, WriteInv
    <3>4. Targets(fcr) = {DevicePage(page_no)}
      BY <3>1, <3>2, <3>3, CommitTarget
    <3> QED
      BY <2>2, <3>4
  <2> QED
    BY <2>1, <2>2
<1> QED
  BY <1>1, <1>2, FlashFrame

LEMMA PageKept ==
  ASSUME Fits, DeviceInv, PagesInv, page_no \in DOMAIN Image, [Next]_vars, NEW n \in DOMAIN Image,
         fcr # NoCommand => request.method = "writePage" /\ n # page_no
  PROVE  flash'[DevicePage(n)] = flash[DevicePage(n)]
<1>1. DevicePage(n) \in Page /\ (n # page_no => DevicePage(n) # DevicePage(page_no))
  BY DevicePages
<1>2. fcr # NoCommand => request.method = "writePage" /\ DevicePage(n) # DevicePage(page_no)
  BY <1>1
<1> QED
  BY <1>1, <1>2, PlaceKept

\* While a flash command is in progress the client waits for it or has ended:
\* the page it is about is not one to come, and no other request is on the line.
LEMMA CommandIsLast ==
  ASSUME DeviceInv, StaleInv, PagesInv, LineTypeOK, fcr # NoCommand
  PROVE  /\ request.method = "writePage" => page_no \notin ToCommit
         /\ loop = "flash" /\ DOMAIN toServer = {} /\ (erased => request.method = "writePage")
         /\ \A i \in DOMAIN toClient : toClient[i].id # sent
         /\ handling.id = sent /\ (Ended \/ (awaiting /\ Method \in {"eraseApp", "writePage"}))
<1>1. pc # "idle" /\ loop = "flash" /\ Handling
  BY DEF DeviceInv, FlashAtRest, FlashInv, OneCommandAtATime, Handling
<1>2. handling.id = sent /\ (Ended \/ (awaiting /\ Method \in {"eraseApp", "writePage"}))
  BY <1>1 DEF StaleInv, CurrentInv, Current
<1>3. \A x : ~(Recent(x, sent, sequence, Age) /\ sent < x.id)
  BY CounterTypes, SMT DEF Recent
<1>4. DOMAIN toServer = {}
  BY <1>1, <1>2, <1>3 DEF StaleInv, QueueInv
<1>5. \A i \in DOMAIN toClient : toClient[i].id # sent
  <2>1. \A i \in DOMAIN toClient : toClient[i].id < sent
    BY <1>1, <1>2 DEF StaleInv, QueueInv
  <2> QED
    BY <2>1, CounterTypes, SMT
<1>6. erased => request.method = "writePage"
  BY <1>1 DEF PagesInv
<1>7. ASSUME request.method = "writePage", page_no \in ToCommit PROVE FALSE
  <2>1. ~Ended /\ page_no \in Nat
    BY <1>7, ImagePages DEF ToCommit, Ended
  <2>2. awaiting /\ Method = "writePage"
    BY <1>1, <1>2, <1>7, <2>1 DEF PagesInv
  <2> QED
    BY <1>7, <2>1, <2>2, SMT DEF ToCommit, Method
<1> QED
  BY <1>1, <1>2, <1>4, <1>5, <1>6, <1>7

\* The pages to come stay blank while the device works, is reset or fails.
LEMMA ToCommitKept ==
  ASSUME Fits, DeviceInv, StaleInv, PagesInv, ClientTypeOK, LineTypeOK, [Next]_vars, erased
  PROVE  /\ \A n \in ToCommit : flash'[DevicePage(n)] = {}
         /\ \A i \in DOMAIN toServer : toServer[i].method = "writePage" => flash'[DevicePage(page_no)] = {}
<1>1. page_no \in DOMAIN Image
  BY DEF ClientTypeOK
<1>2. ASSUME NEW n \in ToCommit PROVE flash'[DevicePage(n)] = {}
  <2>1. n \in DOMAIN Image /\ Blank(n)
    BY DEF ToCommit, PagesInv
  <2>2. fcr # NoCommand => request.method = "writePage" /\ n # page_no
    BY CommandIsLast
  <2> QED
    BY <1>1, <2>1, <2>2, PageKept DEF Blank
<1>3. ASSUME NEW i \in DOMAIN toServer, toServer[i].method = "writePage"
      PROVE  flash'[DevicePage(page_no)] = {}
  <2>1. fcr = NoCommand
    BY <1>3, CommandIsLast
  <2>2. Blank(page_no)
    BY <1>3 DEF PagesInv
  <2> QED
    BY <1>1, <2>1, <2>2, PageKept DEF Blank
<1> QED
  BY <1>2, <1>3

\* A partition found blank stays so while no flash command is in progress.
LEMMA AllBlankKept ==
  ASSUME Fits, DeviceInv, PagesInv, ClientTypeOK, [Next]_vars, fcr = NoCommand, AllBlank
  PROVE  AllBlank'
<1>1. page_no \in DOMAIN Image
  BY DEF ClientTypeOK
<1>2. \A n \in DOMAIN Image : flash'[DevicePage(n)] = flash[DevicePage(n)]
  BY <1>1, PageKept
<1> QED
  BY <1>2 DEF AllBlank, Blank, DevicePage

\* Of the client's steps, the pages to come only ever become fewer.
LEMMA FewerToCommit ==
  ASSUME ClientTypeOK, stage \notin {"ping", "eraseApp"},
         (Raise /\ ~awaiting') \/ (~awaiting' /\ \E value : Returns(value))
           \/ (UNCHANGED <<stage, page_no>> /\ ~awaiting)
  PROVE  stage' \notin {"ping", "eraseApp"} /\ ToCommit' \subseteq ToCommit
<1>1. page_no \in Nat /\ DOMAIN Image \subseteq Nat
  BY ImagePages DEF ClientTypeOK
<1>2. CASE Raise /\ ~awaiting'
  <2>1. page_no' = page_no
    BY <1>2 DEF Raise, ChunkFailed, Goto
  <2>2. stage' \in {"failed", "done"} \/ (stage = "writePageBuffer" /\ stage' \in {"writePageBuffer", "writePage"})
    BY <1>2, RaiseEnds DEF Ended
  <2> QED
    BY <1>1, <2>1, <2>2 DEF ToCommit
<1>3. ASSUME ~awaiting', NEW value, Returns(value)
      PROVE  stage' \notin {"ping", "eraseApp"} /\ ToCommit' \subseteq ToCommit
  <2>1. CASE stage = "writePage" /\ NextPage
    <3>1. \/ stage' = "erasePageBuffer" /\ page_no' = page_no + 1
          \/ stage' \in {"setBootAction", "ping_post"} /\ page_no' = page_no
      BY <2>1 DEF NextPage, Goto
    <3>2. \A n \in ToCommit' : page_no < n
      BY <1>1, <3>1, SMT DEF ToCommit
    <3> QED
      BY <3>1, <3>2 DEF ToCommit
  <2>2. CASE stage = "writePageBuffer"
    <3>1. page_no' = page_no /\ stage' \in {"writePageBuffer", "writePage"}
      BY <1>3, <2>2 DEF Returns, NextChunk, ChunkFailed
    <3> QED
      BY <1>1, <2>2, <3>1 DEF ToCommit
  <2>3. CASE stage = "erasePageBuffer"
    <3>1. page_no' = page_no /\ stage' = "writePageBuffer"
      BY <1>3, <2>3 DEF Returns, Goto
    <3> QED
      BY <1>1, <2>3, <3>1 DEF ToCommit
  <2>4. CASE stage \notin {"writePageBuffer", "erasePageBuffer"} /\ ~(stage = "writePage" /\ NextPage)
    <3>1. page_no' = page_no /\ stage' \in {"failed", "boot", "done"}
      BY <1>3, <2>4 DEF Returns, Goto
    <3> QED
      BY <1>1, <3>1 DEF ToCommit
  <2> QED
    BY <2>1, <2>2, <2>3, <2>4
<1>4. CASE UNCHANGED <<stage, page_no>> /\ ~awaiting
  BY <1>4 DEF ToCommit
<1> QED
  BY <1>2, <1>3, <1>4

\* A request to commit is sent for a page that is still to come.
LEMMA PagesSend ==
  ASSUME ClientTypeOK, LineTypeOK, StaleInv, PagesInv, Send
  PROVE  PagesInv'
<1> DEFINE m == [seq |-> sequence', id |-> sent', method |-> Method, n |-> page_no, addr |-> addr]
<1>1. /\ ~awaiting /\ ~Ended /\ awaiting' /\ sent' = sent + 1
      /\ UNCHANGED <<stage, page_no, erased, flash, loop, pc, request, resp, toClient, handling>>
      /\ toServer' = Append(toServer, m)
  BY DEF Send, vars, bootVars, flashVars
<1>2. m.id = sent' /\ m.method = Method /\ m.n = page_no
  OBVIOUS
<1>3. toServer \in Seq(RequestMessage \cup {m}) /\ m \in RequestMessage \cup {m}
  BY DEF LineTypeOK
<1> HIDE DEF m
<1>4. \A i \in DOMAIN toServer' :
        (i \in DOMAIN toServer /\ toServer'[i] = toServer[i]) \/ toServer'[i] = m
  BY <1>1, <1>3, AppendToQueue
<1>5. \A x : Recent(x, sent, sequence, Age) => x.id # sent'
  BY <1>1, CounterTypes, SMT DEF Recent
<1>6. Method' = Method /\ (Blank(page_no)' <=> Blank(page_no)) /\ (AllBlank' <=> AllBlank)
  BY <1>1 DEF Method, Blank, AllBlank, DevicePage
<1>7. Method = "writePage" => page_no \in ToCommit
  BY <1>1 DEF Method, ToCommit, ClientTypeOK
<1>8. Method = "eraseApp" => stage = "eraseApp"
  BY DEF Method
<1>9. erased => stage \notin {"ping", "eraseApp"} /\ \A n \in ToCommit' : Blank(n)'
  <2>1. ToCommit' \subseteq ToCommit
    BY <1>1 DEF ToCommit
  <2> QED
    BY <1>1, <2>1 DEF PagesInv, Blank, DevicePage
<1>10. \A i \in DOMAIN toServer' :
        /\ toServer'[i].id = sent' /\ awaiting' => toServer'[i].method = Method'
        /\ toServer'[i].method = "writePage" => toServer'[i].n = page_no' /\ (erased' => Blank(page_no)')
        /\ toServer'[i].method = "eraseApp" => ~erased'
  <2> SUFFICES ASSUME NEW i \in DOMAIN toServer'
               PROVE  /\ toServer'[i].id = sent' => toServer'[i].method = Method
                      /\ toServer'[i].method = "writePage" => toServer'[i].n = page_no /\ (erased => Blank(page_no))
                      /\ toServer'[i].method = "eraseApp" => ~erased
    BY <1>1, <1>6
  <2>1. CASE i \in DOMAIN toServer /\ toServer'[i] = toServer[i]
    <3>1. toServer[i].id # sent'
      BY <1>5, <2>1 DEF StaleInv, QueueInv
    <3> QED
      BY <2>1, <3>1 DEF PagesInv
  <2>2. CASE toServer'[i] = m
    BY <1>2, <1>7, <1>8, <2>2 DEF PagesInv
  <2> QED
    BY <1>4, <2>1, <2>2
<1>11. ~(Handling' /\ handling'.id = sent')
  BY <1>1, <1>5 DEF StaleInv, QueueInv, Handling
<1>12. \A i \in DOMAIN toClient' : toClient'[i].id # sent'
  BY <1>1, <1>5 DEF StaleInv, QueueInv
<1>13. loop' = "flash" =>
        /\ request'.id = App /\ request'.method \in {"eraseApp", "writePage"}
        /\ request'.method = "writePage" =>
             request'.n = page_no' - 1 /\ (erased' /\ pc' = "write_issue" => Blank(page_no)')
        /\ request'.method = "eraseApp" => ~erased'
  BY <1>1, <1>6 DEF PagesInv
<1>14. loop' = "reply" /\ request'.method = "eraseApp" /\ resp' = 0 => AllBlank'
  BY <1>1, <1>6 DEF PagesInv
<1> QED
  BY <1>1, <1>9, <1>10, <1>11, <1>12, <1>13, <1>14 DEF PagesInv

\* A call that is answered or given up leaves no commit behind that the client
\* counts on.
LEMMA PagesClient ==
  ASSUME MaxFaults < SEQUENCES, ClientTypeOK, LineTypeOK, StaleInv, PagesInv, Receive \/ Timeout
  PROVE  PagesInv'
<1>1. /\ awaiting /\ ~awaiting'
      /\ UNCHANGED <<toServer, flash, loop, pc, request, resp, handling, sent>>
  BY DEF Receive, Timeout, vars, bootVars, flashVars
<1>2. \A n : Blank(n)' <=> Blank(n)
  BY <1>1 DEF Blank, DevicePage
<1>3. AllBlank' <=> AllBlank
  BY <1>2 DEF AllBlank
<1>4. loop' = "reply" /\ request'.method = "eraseApp" /\ resp' = 0 => AllBlank'
  BY <1>1, <1>3 DEF PagesInv
<1>5. CASE Receive /\ Head(toClient).seq = sequence
  <2>1. 1 \in DOMAIN toClient /\ toClient # <<>> /\ Head(toClient) = toClient[1]
    BY <1>5, TailOfQueue DEF Receive, LineTypeOK
  <2>2. Recent(Head(toClient), sent, sequence, Age)
    BY <2>1 DEF StaleInv, QueueInv
  <2>3. Age < SEQUENCES
    BY CounterTypes, SMT
  <2>4. Head(toClient).id = sent
    BY <1>5, <2>2, <2>3, CounterTypes, SameNumberSameRequest
  <2>5. DOMAIN toServer = {} /\ ~Handling
    BY <2>1, <2>4, NothingLeft DEF StaleInv
  <2>6. erased' => stage' \notin {"ping", "eraseApp"} /\ \A n \in ToCommit' : Blank(n)'
    <3>1. CASE stage = "eraseApp"
      <4>1. stage' = "erasePageBuffer"
        BY <1>5, <3>1 DEF Receive, Returns, Goto
      <4>2. erased' => AllBlank
        BY <1>1, <1>5, <2>1, <2>4, <3>1 DEF Receive, PagesInv
      <4>3. ToCommit' \subseteq DOMAIN Image
        BY DEF ToCommit
      <4> QED
        BY <1>2, <4>1, <4>2, <4>3 DEF AllBlank
    <3>2. CASE stage = "ping"
      <4>1. erased' = erased
        BY <1>5, <3>2 DEF Receive
      <4> QED
        BY <3>2, <4>1 DEF PagesInv
    <3>3. CASE stage \notin {"ping", "eraseApp"}
      <4>1. erased' = erased /\ \E value : Returns(value)
        BY <1>5, <3>3 DEF Receive
      <4>2. stage' \notin {"ping", "eraseApp"} /\ ToCommit' \subseteq ToCommit
        BY <1>1, <3>3, <4>1, FewerToCommit
      <4> QED
        BY <1>2, <4>1, <4>2 DEF PagesInv
    <3> QED
      BY <3>1, <3>2, <3>3
  <2>7. ~Handling' /\ loop' # "flash"
    BY <1>1, <2>5 DEF Handling
  <2> QED
    BY <1>1, <1>4, <2>5, <2>6, <2>7 DEF PagesInv
<1>6. CASE Raise /\ erased' = erased
  <2>1. page_no' = page_no
    BY <1>6 DEF Raise, ChunkFailed, Goto
  <2>2. erased' => stage' \notin {"ping", "eraseApp"} /\ \A n \in ToCommit' : Blank(n)'
    <3> SUFFICES ASSUME erased PROVE stage' \notin {"ping", "eraseApp"} /\ \A n \in ToCommit' : Blank(n)'
      BY <1>6
    <3>1. stage' \notin {"ping", "eraseApp"} /\ ToCommit' \subseteq ToCommit
      BY <1>1, <1>6, FewerToCommit DEF PagesInv
    <3> QED
      BY <1>2, <3>1 DEF PagesInv
  <2>3. Blank(page_no)' <=> Blank(page_no)
    BY <1>1, <2>1 DEF Blank, DevicePage
  <2> QED
    BY <1>1, <1>4, <1>6, <2>1, <2>2, <2>3 DEF PagesInv
<1> QED
  BY <1>5, <1>6 DEF Receive, Timeout

\* Taking a request changes no page of the flash.
LEMMA PagesTake ==
  ASSUME ClientTypeOK, LineTypeOK, StaleInv, PagesInv, TakeRequest
  PROVE  PagesInv'
<1> DEFINE m == Head(toServer)
<1>1. /\ 1 \in DOMAIN toServer /\ m = toServer[1] /\ m \in RequestMessage
      /\ \A i \in DOMAIN toServer' : i + 1 \in DOMAIN toServer /\ toServer'[i] = toServer[i + 1]
  <2>1. toServer # <<>> /\ toServer \in Seq(RequestMessage) /\ toServer' = Tail(toServer)
    BY DEF TakeRequest, LineTypeOK
  <2>2. 1 \in DOMAIN toServer /\ m = toServer[1]
    BY <2>1, TailOfQueue
  <2> QED
    BY <2>1, <2>2, TailOfQueue
<1>2. /\ m.id = sent /\ awaiting => m.method = Method
      /\ m.method = "writePage" => m.n = page_no /\ (erased => Blank(page_no))
      /\ m.method = "eraseApp" => ~erased
  BY <1>1 DEF PagesInv
<1>3. /\ UNCHANGED <<client, toClient>> /\ handling'.id = m.id /\ Handle(m)
  BY DEF TakeRequest
<1> HIDE DEF m
<1>4. UNCHANGED <<stage, page_no, awaiting, sent, erased>> /\ Method' = Method /\ ToCommit' = ToCommit
  BY <1>3 DEF client, Method, ToCommit
<1>5. /\ flash' = flash /\ request'.method = m.method
      /\ loop' = "reply" => m.method # "eraseApp" \/ resp' # 0
      /\ loop' = "flash" => \/ m.method = "eraseApp" /\ request'.id = App
                            \/ m.method = "writePage" /\ request'.id = App /\ request'.n = m.n - 1
  BY <1>3 DEF Handle, bl_ping, bl_eraseApp, bl_erasePageBuffer, bl_writePageBuffer, bl_writePage,
     bl_setBootAction, bl_boot, Request, Answer, EraseCall, WriteCall, flashVars, controller
<1>6. (\A n : Blank(n)' <=> Blank(n)) /\ (AllBlank' <=> AllBlank)
  BY <1>5 DEF Blank, DevicePage, AllBlank
<1>7. Blank(page_no)' <=> Blank(page_no)
  BY <1>4, <1>5 DEF Blank, DevicePage
<1>8. erased' => stage' \notin {"ping", "eraseApp"} /\ \A n \in ToCommit' : Blank(n)'
  BY <1>4, <1>6 DEF PagesInv
<1>9. \A i \in DOMAIN toServer' :
        /\ toServer'[i].id = sent' /\ awaiting' => toServer'[i].method = Method'
        /\ toServer'[i].method = "writePage" => toServer'[i].n = page_no' /\ (erased' => Blank(page_no)')
        /\ toServer'[i].method = "eraseApp" => ~erased'
  BY <1>1, <1>4, <1>7 DEF PagesInv
<1>10. handling'.id = sent' /\ awaiting' => request'.method = Method'
  BY <1>2, <1>3, <1>4, <1>5
<1>11. loop' = "flash" =>
        /\ request'.id = App /\ request'.method \in {"eraseApp", "writePage"}
        /\ request'.method = "writePage" =>
             request'.n = page_no' - 1 /\ (erased' /\ pc' = "write_issue" => Blank(page_no)')
        /\ request'.method = "eraseApp" => ~erased'
  BY <1>2, <1>4, <1>5, <1>7
<1>12. stage' = "eraseApp" /\ awaiting' =>
         \A i \in DOMAIN toClient' : toClient'[i].id = sent' /\ toClient'[i].value = 0 => AllBlank'
  BY <1>3, <1>4, <1>6 DEF PagesInv
<1> QED
  BY <1>5, <1>8, <1>9, <1>10, <1>11, <1>12 DEF PagesInv

\* The reply that reports an erase finds the partition blank.
LEMMA PagesReply ==
  ASSUME ClientTypeOK, LineTypeOK, resp \in {0, -1, -2, -3, -5, -9}, StaleInv, PagesInv, ServerReply
  PROVE  PagesInv'
<1> DEFINE m == [seq |-> handling.seq, id |-> handling.id, value |-> resp]
<1>1. /\ loop = "reply" /\ loop' = "boot_poll" /\ flash' = flash
      /\ UNCHANGED <<client, toServer>> /\ toClient' = Append(toClient, m)
  BY DEF ServerReply, Reply, flashVars
<1>2. m.id = handling.id /\ m.value = resp
  OBVIOUS
<1>3. toClient \in Seq(ReplyMessage \cup {m}) /\ m \in ReplyMessage \cup {m}
  BY DEF LineTypeOK
<1> HIDE DEF m
<1>4. \A i \in DOMAIN toClient' :
        (i \in DOMAIN toClient /\ toClient'[i] = toClient[i]) \/ toClient'[i] = m
  BY <1>1, <1>3, AppendToQueue
<1>5. UNCHANGED <<stage, page_no, awaiting, sent, erased>> /\ Method' = Method /\ ToCommit' = ToCommit
  BY <1>1 DEF client, Method, ToCommit
<1>6. (\A n : Blank(n)' <=> Blank(n)) /\ (AllBlank' <=> AllBlank) /\ (Blank(page_no)' <=> Blank(page_no))
  BY <1>1, <1>5 DEF Blank, DevicePage, AllBlank
<1>7. ASSUME stage = "eraseApp", awaiting, NEW i \in DOMAIN toClient', toClient'[i].id = sent,
             toClient'[i].value = 0
      PROVE  AllBlank
  <2>1. CASE i \in DOMAIN toClient /\ toClient'[i] = toClient[i]
    BY <1>7, <2>1 DEF PagesInv
  <2>2. CASE toClient'[i] = m
    <3>1. request.method = "eraseApp"
      BY <1>1, <1>2, <1>7, <2>2 DEF PagesInv, Handling, Method
    <3> QED
      BY <1>1, <1>2, <1>7, <2>2, <3>1 DEF PagesInv
  <2> QED
    BY <1>4, <2>1, <2>2
<1>8. ~Handling' /\ loop' # "flash" /\ loop' # "reply"
  BY <1>1 DEF Handling
<1> QED
  BY <1>1, <1>5, <1>6, <1>7, <1>8 DEF PagesInv

\* The driver's return and its polls, and the loop's.
LEMMA PagesServer ==
  ASSUME Fits, ClientTypeOK, LineTypeOK, DeviceInv, PagesInv, ServerStep
  PROVE  PagesInv'
<1>1. UNCHANGED <<client, line>>
  BY DEF ServerStep
<1>2. UNCHANGED <<stage, page_no, awaiting, sent, erased, toServer, toClient, handling>>
      /\ Method' = Method /\ ToCommit' = ToCommit
  BY <1>1 DEF client, line, Method, ToCommit
<1>3. /\ pc' # "write_issue" \/ (loop' # "flash" /\ loop' # "reply")
      /\ request' = request /\ (Handling' => Handling) /\ (loop' = "flash" => loop = "flash")
      /\ (loop' = "reply" => FlashReturned)
  BY DEF ServerStep, FlashReturned, FlashStep, sys_boot_poll, Returned, DriverStep, EraseIssue, EraseCheck, WriteIssue,
     WriteCheck, Return, controller, bootVars, flashVars, Handling, Answer
<1>4. flash' = flash
  BY DEF ServerStep, FlashReturned, FlashStep, sys_boot_poll, Returned, DriverStep, EraseIssue, EraseCheck, WriteIssue,
     WriteCheck, controller, flashVars
<1>5. (\A n : Blank(n)' <=> Blank(n)) /\ (AllBlank' <=> AllBlank) /\ (Blank(page_no)' <=> Blank(page_no))
  BY <1>2, <1>4 DEF Blank, DevicePage, AllBlank
<1>6. ASSUME loop' = "reply", request'.method = "eraseApp", resp' = 0 PROVE AllBlank
  <2>1. loop = "flash" /\ pc = "return" /\ ret = 0 /\ request.id = App /\ request.method = "eraseApp"
    BY <1>3, <1>6 DEF FlashReturned, Returned, Answer, PagesInv
  <2>2. call.op = "erase" /\ call.id = App
    BY <2>1 DEF DeviceInv, CallOfRequest
  <2>3. partition = App /\ ErasedTo(PartitionEnd(partition))
    BY <2>1, <2>2 DEF DeviceInv, EraseInv
  <2>4. \A p \in PartitionPages(App) : flash[p] = {}
    BY <2>3 DEF ErasedTo, PartitionPages
  <2> QED
    BY <2>4, DevicePages DEF AllBlank, Blank
<1> QED
  BY <1>2, <1>3, <1>5, <1>6 DEF PagesInv

\* The controller at work, a frame lost, a reset: the pages that count are not
\* those of the command in progress.
LEMMA PagesBoard ==
  ASSUME Fits, ClientTypeOK, LineTypeOK, DeviceInv, StaleInv, PagesInv, [Next]_vars,
         HardwareStep \/ LoseRequest \/ LoseReply \/ DeviceReset \/ UNCHANGED sessionVars
  PROVE  PagesInv'
<1>1. UNCHANGED client
  BY DEF HardwareStep, LoseRequest, LoseReply, DeviceReset, sessionVars
<1>2. UNCHANGED <<stage, page_no, awaiting, sent, erased>> /\ Method' = Method /\ ToCommit' = ToCommit
  BY <1>1 DEF client, Method, ToCommit
<1>3. \/ UNCHANGED <<loop, request, resp, pc, handling>>
      \/ loop' = "poll"
  BY DEF HardwareStep, ControllerStep, Controller, Complete, CommandError, LockError, FlashError, Finish, driver, bootVars,
     LoseRequest, LoseReply, DeviceReset, Reset, sessionVars, vars, flashVars, line
<1>4. \E d \in {0, 1} : \A i \in DOMAIN toServer' :
         i + d \in DOMAIN toServer /\ toServer'[i] = toServer[i + d]
  <2>1. toServer' = toServer \/ (toServer # <<>> /\ toServer' = Tail(toServer))
    BY DEF HardwareStep, LoseRequest, LoseReply, DeviceReset, sessionVars, line
  <2> QED
    BY <2>1, Subqueue DEF LineTypeOK
<1>5. \E d \in {0, 1} : \A i \in DOMAIN toClient' :
         i + d \in DOMAIN toClient /\ toClient'[i] = toClient[i + d]
  <2>1. toClient' = toClient \/ (toClient # <<>> /\ toClient' = Tail(toClient))
    BY DEF HardwareStep, LoseRequest, LoseReply, DeviceReset, sessionVars, line
  <2> QED
    BY <2>1, Subqueue DEF LineTypeOK
<1>6. erased => /\ \A n \in ToCommit : flash'[DevicePage(n)] = {}
                /\ \A i \in DOMAIN toServer : toServer[i].method = "writePage" => flash'[DevicePage(page_no)] = {}
  BY ToCommitKept
<1>7. erased => \A n \in ToCommit' : Blank(n)'
  BY <1>2, <1>6 DEF Blank, DevicePage
<1>8. Blank(page_no)' <=> flash'[DevicePage(page_no)] = {}
  BY <1>2 DEF Blank, DevicePage
<1>9. \A i \in DOMAIN toServer' :
        /\ toServer'[i].id = sent' /\ awaiting' => toServer'[i].method = Method'
        /\ toServer'[i].method = "writePage" => toServer'[i].n = page_no' /\ (erased' => Blank(page_no)')
        /\ toServer'[i].method = "eraseApp" => ~erased'
  BY <1>2, <1>4, <1>6, <1>8 DEF PagesInv
<1>10. fcr = NoCommand /\ AllBlank => AllBlank'
  BY AllBlankKept
<1>11. loop # "flash" => fcr = NoCommand
  BY DEF DeviceInv, FlashAtRest
<1>12. loop' = "reply" /\ request'.method = "eraseApp" /\ resp' = 0 => AllBlank'
  BY <1>3, <1>10, <1>11 DEF PagesInv
<1>13. stage' = "eraseApp" /\ awaiting' =>
         \A i \in DOMAIN toClient' : toClient'[i].id = sent' /\ toClient'[i].value = 0 => AllBlank'
  <2> SUFFICES ASSUME stage = "eraseApp", awaiting, NEW i \in DOMAIN toClient, toClient[i].id = sent,
                      toClient[i].value = 0
               PROVE  AllBlank'
    BY <1>2, <1>5
  <2>1. AllBlank
    BY DEF PagesInv
  <2>2. fcr = NoCommand
    BY CommandIsLast
  <2> QED
    BY <1>10, <2>1, <2>2
<1>14. pc = "write_issue" => fcr = NoCommand
  BY DEF DeviceInv, FlashInv, OneCommandAtATime
<1>15. loop = "flash" /\ request.method = "writePage" /\ erased /\ pc = "write_issue" => Blank(page_no)'
  <2> SUFFICES ASSUME loop = "flash", request.method = "writePage", erased, pc = "write_issue"
               PROVE  Blank(page_no)'
    OBVIOUS
  <2>1. Blank(page_no) /\ page_no \in DOMAIN Image
    BY DEF PagesInv, ClientTypeOK
  <2> QED
    BY <1>8, <1>14, <2>1, PageKept DEF Blank
<1>16. loop' = "flash" =>
        /\ request'.id = App /\ request'.method \in {"eraseApp", "writePage"}
        /\ request'.method = "writePage" =>
             request'.n = page_no' - 1 /\ (erased' /\ pc' = "write_issue" => Blank(page_no)')
        /\ request'.method = "eraseApp" => ~erased'
  BY <1>2, <1>3, <1>15 DEF PagesInv
<1>17. Handling' /\ handling'.id = sent' /\ awaiting' => request'.method = Method'
  BY <1>2, <1>3 DEF PagesInv, Handling
<1>18. erased' => stage' \notin {"ping", "eraseApp"}
  BY <1>2 DEF PagesInv
<1> QED
  BY <1>2, <1>7, <1>9, <1>12, <1>13, <1>16, <1>17, <1>18 DEF PagesInv

\* So what has been erased stays blank until it is committed.
LEMMA PagesStep ==
  ASSUME Fits, MaxFaults < SEQUENCES, SessionTypeOK, DeviceInv, StaleInv, PagesInv, [SessionNext]_sessionVars
  PROVE  PagesInv'
<1>1. ClientTypeOK /\ LineTypeOK
  BY TypeParts
<1>2. [Next]_vars
  BY ServiceOfSession
<1>3. CASE Send
  BY <1>1, <1>3, PagesSend
<1>4. CASE Receive \/ Timeout
  BY <1>1, <1>4, PagesClient
<1>5. CASE TakeRequest
  BY <1>1, <1>5, PagesTake
<1>6. CASE ServerReply
  <2>1. resp \in {0, -1, -2, -3, -5, -9}
    BY DEF DeviceInv, TypeOK
  <2> QED
    BY <1>1, <1>6, <2>1, PagesReply
<1>7. CASE ServerStep
  BY <1>1, <1>7, PagesServer
<1>8. CASE HardwareStep \/ LoseRequest \/ LoseReply \/ DeviceReset \/ UNCHANGED sessionVars
  BY <1>1, <1>2, <1>8, PagesBoard
<1> QED
  BY <1>3, <1>4, <1>5, <1>6, <1>7, <1>8 DEF SessionNext, ClientStep, DeviceStep

\* The page a commit is issued for has not been programmed.
LEMMA IssuedForBlank ==
  ASSUME Fits, ClientTypeOK, DeviceInv, PagesInv, [Next]_vars,
         fcr'.cmd = "WP", fcr # fcr', erased, NEW p \in Targets(fcr')
  PROVE  flash[p] = {}
<1>1. [FlashNext]_flashVars
  BY FlashOfStep DEF DeviceInv, TypeOK, BufferType
<1>2. WriteIssue
  BY <1>1 DEF FlashNext, DriverStep, Call, EraseCall, WriteCall, EraseIssue, EraseCheck, WriteCheck, Returned,
     Controller, Complete, CommandError, LockError, FlashError, Finish, FlashReset, NoCommand, controller, flashVars
<1>3. pc = "write_issue" /\ fcr' = WriteCommand
  BY <1>2 DEF WriteIssue, WriteCommand
<1>4. loop = "flash" /\ call.op = "write"
  BY <1>3 DEF DeviceInv, FlashAtRest, WriteInv
<1>5. request.method = "writePage"
  BY <1>4 DEF DeviceInv, CallOfRequest, PagesInv
<1>6. request.id = App /\ request.n = page_no - 1 /\ Blank(page_no)
  BY <1>3, <1>4, <1>5 DEF PagesInv
<1>7. page_no \in DOMAIN Image
  BY DEF ClientTypeOK
<1>8. Targets(fcr') = {DevicePage(page_no)}
  BY <1>3, <1>4, <1>5, <1>6, <1>7, CommitTarget
<1> QED
  BY <1>6, <1>8 DEF Blank

\* The invariants of the service, which every session is a behaviour of.
LEMMA DeviceInvariant ==
  ASSUME SERIES = "RH71", EPA_FIELD = "page" PROVE SessionSpec => []DeviceInv
<1>1. Spec => []DeviceInv
  BY ServiceTypeCorrect, ImplementsFlash, FlashInvariant, EraseInvariant, WriteInvariant, FlashRests,
     CallInvariant, PTL DEF DeviceInv
<1> QED
  BY <1>1, SessionIsService, PTL DEF ImplementsService

\* With what the service and the line keep, the pages' invariant is inductive.
LEMMA PagesInvariant ==
  ASSUME Fits, MaxFaults < SEQUENCES
  PROVE  SessionSpec => [](SessionTypeOK /\ DeviceInv /\ BootInv /\ StaleInv /\ PagesInv)
<1>1. SessionInit => PagesInv
  <2> SUFFICES ASSUME SessionInit PROVE PagesInv
    OBVIOUS
  <2>1. toClient = <<>> /\ toServer = <<>> /\ loop = "poll" /\ erased = FALSE /\ stage = "ping"
    BY DEF SessionInit, Init
  <2> QED
    BY <2>1 DEF PagesInv, Handling
<1>2. SessionTypeOK /\ DeviceInv /\ StaleInv /\ PagesInv /\ [SessionNext]_sessionVars => PagesInv'
  BY PagesStep
<1>3. SERIES = "RH71" /\ EPA_FIELD = "page"
  BY DEF Fits
<1>4. ServiceInv => BootInv
  BY DEF ServiceInv
<1> QED
  BY <1>1, <1>2, <1>3, <1>4, DeviceInvariant, StaleInvariant, PTL DEF SessionSpec

\* bootloader.c:117: the RH71, an image that fits its partition, and fewer
\* faults than sequence numbers: after an erase the client has seen succeed, no
\* page is programmed twice, with replies late, frames lost and the device reset.
THEOREM PagesProgrammedOnce ==
  ASSUME SERIES = "RH71", EPA_FIELD = "page", Len(Image) <= APP_PAGES, MaxFaults < SEQUENCES
  PROVE  SessionSpec => ProgramsErasedPages
<1> Fits
  BY DEF Fits
<1>1. SessionTypeOK /\ DeviceInv /\ PagesInv /\ [SessionNext]_sessionVars =>
        [fcr'.cmd = "WP" /\ fcr # fcr' /\ erased => \A p \in Targets(fcr') : flash[p] = {}]_sessionVars
  <2> SUFFICES ASSUME SessionTypeOK, DeviceInv, PagesInv, [SessionNext]_sessionVars,
                      fcr'.cmd = "WP", fcr # fcr', erased, NEW p \in Targets(fcr')
               PROVE  flash[p] = {}
    OBVIOUS
  <2>1. ClientTypeOK /\ [Next]_vars
    BY TypeParts, ServiceOfSession
  <2> QED
    BY <2>1, IssuedForBlank
<1> QED
  BY <1>1, PagesInvariant, PTL DEF SessionSpec, ProgramsErasedPages

-----------------------------------------------------------------------------
(* The image is written *)

\* The n-th page holds what the image has there, and the rest is blank.
Holds(n) == flash[DevicePage(n)] = Image[n].data
RestBlank ==
  \A p \in PartitionPages(App) : (\A n \in DOMAIN Image : p # DevicePage(n)) => flash[p] = {}

\* Main has seen every page acknowledged, or the device may start the application.
AllSent ==
  \/ stage \in {"setBootAction", "boot", "ping_post", "done"}
  \/ boot_enable \/ loop = "app"
  \/ \E i \in DOMAIN toServer : toServer[i].method = "boot"

Committed == {n \in DOMAIN Image : n < page_no \/ AllSent}

\* From the call of the driver to the client's next page: a commit in progress
\* is of the page's data and began with the page blank, its success on the way
\* finds the page written, and nothing touches it after.
WrittenInv ==
  /\ awaiting => ~Ended
  /\ stage = "done" => DOMAIN toServer = {} /\ ~Handling
  /\ stage \in {"ping", "eraseApp"} => page_no = 1
  /\ erased => RestBlank /\ \A n \in Committed : Holds(n)
  /\ loop = "flash" /\ request.method = "writePage" =>
       /\ request.crc = crc_32_page(Image[request.n + 1].data)
       /\ erased => before[DevicePage(page_no)] = {}
  /\ loop = "reply" /\ resp = 0 =>
       /\ request.method = "eraseApp" => RestBlank
       /\ request.method = "writePage" /\ erased /\ awaiting /\ handling.id = sent => Holds(page_no)
  /\ awaiting => \A i \in DOMAIN toClient : toClient[i].id = sent /\ toClient[i].value = 0 =>
       /\ stage = "eraseApp" => RestBlank
       /\ stage = "writePage" /\ erased => Holds(page_no)

\* Where the chunks of page n start, and the cells some of them hold.
Starts(n) == {start \in 0 .. Image[n].size - 1 : \E k \in 0 .. start : start = k * PAYLOAD_SIZE}
Pieces(n, starts) == UNION {start .. start + Chunk(n, start).data_len - 1 : start \in starts}

\* The page buffers a session can make of page n: some of its chunks over a
\* buffer that was erased, or cleared by a reset.
Buffers(n) ==
  {(base \ Pieces(n, starts)) \cup (Image[n].data \cap Pieces(n, starts)) :
     base \in {{}, Cell}, starts \in SUBSET Starts(n)}

\* The CRC of a page of the image tells it from those.
NoCollision ==
  \A n \in DOMAIN Image : \A c \in Buffers(n) : crc_32_page(c) = crc_32_page(Image[n].data) => c = Image[n].data

\* The device has handled the client's last request.
Answered == (Handling /\ handling.id = sent) \/ \E i \in DOMAIN toClient : toClient[i].id = sent

\* From the reply to erasePageBuffer to the commit the buffer is one of those.
BufferInv ==
  /\ addr \in Starts(page_no)
  /\ \A i \in DOMAIN toServer :
       toServer[i].method = "writePageBuffer" => toServer[i].n = page_no /\ toServer[i].addr \in Starts(page_no)
  /\ stage = "erasePageBuffer" /\ awaiting /\ Answered => page_buffer \in {{}, Cell}
  /\ stage \in {"writePageBuffer", "writePage"} => page_buffer \in Buffers(page_no)
  /\ loop = "flash" /\ request.method = "writePage" /\ awaiting /\ handling.id = sent =>
       call.buf \in Buffers(page_no)

\* A request more: none that makes a page count as committed.
LEMMA WrittenSend ==
  ASSUME ClientTypeOK, LineTypeOK, StaleInv, WrittenInv, Send
  PROVE  WrittenInv'
<1> DEFINE m == [seq |-> sequence', id |-> sent', method |-> Method, n |-> page_no, addr |-> addr]
<1>1. /\ ~Ended /\ awaiting' /\ sent' = sent + 1
      /\ UNCHANGED <<stage, page_no, erased, flash, before, loop, boot_enable, request, resp, toClient, handling>>
      /\ toServer' = Append(toServer, m)
  BY DEF Send, vars, bootVars, flashVars
<1>2. m.method = Method
  OBVIOUS
<1>3. toServer \in Seq(RequestMessage \cup {m}) /\ m \in RequestMessage \cup {m}
  BY DEF LineTypeOK
<1> HIDE DEF m
<1>4. \A i \in DOMAIN toServer' :
        (i \in DOMAIN toServer /\ toServer'[i] = toServer[i]) \/ toServer'[i] = m
  BY <1>1, <1>3, AppendToQueue
<1>5. \A x : Recent(x, sent, sequence, Age) => x.id # sent'
  BY <1>1, CounterTypes, SMT DEF Recent
<1>6. AllSent' => AllSent
  BY <1>1, <1>2, <1>4 DEF AllSent, Method
<1>7. Committed' \subseteq Committed /\ (RestBlank' <=> RestBlank) /\ (\A n : Holds(n)' <=> Holds(n))
  BY <1>1, <1>6 DEF Committed, RestBlank, Holds, DevicePage
<1>8. ~Ended' /\ stage' # "done"
  BY <1>1 DEF Ended
<1>9. ~(loop' \in {"flash", "reply"} /\ handling'.id = sent')
  BY <1>1, <1>5 DEF StaleInv, QueueInv, Handling
<1>10. \A i \in DOMAIN toClient' : toClient'[i].id # sent'
  BY <1>1, <1>5 DEF StaleInv, QueueInv
<1>11. erased' => RestBlank' /\ \A n \in Committed' : Holds(n)'
  BY <1>1, <1>7 DEF WrittenInv
<1>12. loop' = "flash" /\ request'.method = "writePage" =>
         /\ request'.crc = crc_32_page(Image[request'.n + 1].data)
         /\ erased' => before'[DevicePage(page_no')] = {}
  BY <1>1 DEF WrittenInv, DevicePage
<1>13. DevicePage(page_no)' = DevicePage(page_no')
  BY DEF DevicePage
<1>14. loop' = "reply" /\ resp' = 0 /\ request'.method = "eraseApp" => RestBlank'
  BY <1>1, <1>7 DEF WrittenInv
<1>15. stage' \in {"ping", "eraseApp"} => page_no' = 1
  BY <1>1 DEF WrittenInv
<1> QED
  BY <1>8, <1>9, <1>10, <1>11, <1>12, <1>13, <1>14, <1>15 DEF WrittenInv

\* The client counts a page as committed when the reply to its commit is 0.
LEMMA WrittenClient ==
  ASSUME MaxFaults < SEQUENCES, ClientTypeOK, LineTypeOK, StaleInv, PagesInv, WrittenInv, Receive \/ Timeout
  PROVE  WrittenInv'
<1>1. /\ awaiting /\ ~awaiting' /\ ~Ended
      /\ UNCHANGED <<toServer, flash, before, loop, boot_enable, request, resp, handling, sent>>
  BY DEF Receive, Timeout, vars, bootVars, flashVars, WrittenInv
<1>2. (RestBlank' <=> RestBlank) /\ (\A n : Holds(n)' <=> Holds(n))
  BY <1>1 DEF RestBlank, Holds, DevicePage
<1>3. loop' = "reply" /\ resp' = 0 /\ request'.method = "eraseApp" => RestBlank'
  BY <1>1, <1>2 DEF WrittenInv
<1>4. page_no \in Nat /\ DOMAIN Image = 1 .. Len(Image) /\ Len(Image) \in Nat
  BY ImagePages DEF ClientTypeOK
<1>5. boot_enable \/ loop = "app" => stage = "boot"
  BY <1>1 DEF StaleInv, CurrentInv, Ended
<1>6. CASE Receive /\ Head(toClient).seq = sequence
  <2>1. 1 \in DOMAIN toClient /\ toClient # <<>> /\ Head(toClient) = toClient[1]
    BY <1>6, TailOfQueue DEF Receive, LineTypeOK
  <2>2. Recent(Head(toClient), sent, sequence, Age)
    BY <2>1 DEF StaleInv, QueueInv
  <2>3. Head(toClient).id = sent
    BY <1>6, <2>2, CounterTypes, SameNumberSameRequest, SMT
  <2>4. DOMAIN toServer' = {} /\ ~Handling' /\ loop' # "flash" /\ loop' # "reply"
    BY <1>1, <2>1, <2>3, NothingLeft DEF StaleInv, Handling
  <2>5. \A value : value = Head(toClient).value => Returns(value)
    BY <1>6 DEF Receive
  <2>6. CASE stage = "ping"
    <3>1. stage' = "eraseApp" /\ page_no' = page_no /\ erased' = erased
      BY <1>6, <2>6 DEF Receive, Returns, Goto
    <3> QED
      BY <1>1, <2>4, <2>6, <3>1 DEF WrittenInv, PagesInv
  <2>7. CASE stage = "eraseApp"
    <3>1. stage' = "erasePageBuffer" /\ page_no' = page_no /\ erased' = (Head(toClient).value = 0)
      BY <1>6, <2>7 DEF Receive, Returns, Goto
    <3>2. erased' => RestBlank
      BY <1>1, <2>1, <2>3, <2>7, <3>1 DEF WrittenInv
    <3>3. ~AllSent' /\ page_no' = 1
      BY <1>1, <1>5, <2>4, <2>7, <3>1 DEF AllSent, WrittenInv
    <3>4. Committed' = {}
      BY <1>4, <3>3 DEF Committed
    <3> QED
      BY <1>1, <1>2, <2>4, <3>1, <3>2, <3>4 DEF WrittenInv
  <2>8. CASE stage = "writePage"
    <3>1. CASE Head(toClient).value = 0
      <4>1. NextPage /\ erased' = erased
        BY <1>6, <2>8, <3>1 DEF Receive, Returns
      <4>2. erased => Holds(page_no)
        BY <1>1, <2>1, <2>3, <2>8, <3>1 DEF WrittenInv
      <4>3. \/ stage' = "erasePageBuffer" /\ page_no' = page_no + 1
            \/ stage' \in {"setBootAction", "ping_post"} /\ page_no' = page_no /\ ~(page_no < Len(Image))
        BY <4>1 DEF NextPage, Goto
      <4>4. stage' = "erasePageBuffer" => ~AllSent'
        BY <1>1, <1>5, <2>4, <2>8 DEF AllSent
      <4>5. \A n \in Committed' : n = page_no \/ n < page_no
        BY <1>4, <4>3, <4>4, SMT DEF Committed
      <4>6. erased' => \A n \in Committed' : Holds(n)
        BY <4>1, <4>2, <4>5 DEF Committed, WrittenInv
      <4> QED
        BY <1>1, <1>2, <2>4, <4>1, <4>3, <4>6 DEF WrittenInv
    <3>2. CASE Head(toClient).value # 0
      <4>1. stage' = "failed" /\ page_no' = page_no /\ erased' = erased
        BY <1>6, <2>8, <3>2 DEF Receive, Returns, Goto
      <4>2. Committed' \subseteq Committed
        BY <1>1, <4>1 DEF Committed, AllSent
      <4> QED
        BY <1>1, <1>2, <2>4, <4>1, <4>2 DEF WrittenInv
    <3> QED
      BY <3>1, <3>2
  <2>9. CASE stage \in {"erasePageBuffer", "writePageBuffer"}
    <3>1. stage' \in {"writePageBuffer", "writePage"} /\ page_no' = page_no /\ erased' = erased
      BY <1>6, <2>9 DEF Receive, Returns, Goto, NextChunk, ChunkFailed
    <3>2. Committed' \subseteq Committed
      BY <1>1, <3>1 DEF Committed, AllSent
    <3> QED
      BY <1>1, <1>2, <2>4, <3>1, <3>2 DEF WrittenInv
  <2>10. CASE stage \in {"setBootAction", "boot", "ping_post"}
    <3>1. stage' \in {"boot", "done"} /\ page_no' = page_no /\ erased' = erased
      BY <1>6, <2>10 DEF Receive, Returns, Goto
    <3>2. Committed' \subseteq Committed
      BY <2>10, <3>1 DEF Committed, AllSent
    <3> QED
      BY <1>1, <1>2, <2>4, <3>1, <3>2 DEF WrittenInv
  <2> QED
    BY <1>1, <2>6, <2>7, <2>8, <2>9, <2>10 DEF ClientTypeOK, Methods, Ended
<1>7. CASE Raise /\ erased' = erased
  <2>1. page_no' = page_no
    BY <1>7 DEF Raise, ChunkFailed, Goto
  <2>2. stage' \in {"failed", "writePageBuffer", "writePage"}
    BY <1>7 DEF Raise, ChunkFailed, Goto
  <2>3. Committed' \subseteq Committed
    BY <1>1, <2>1, <2>2 DEF Committed, AllSent
  <2>4. DevicePage(page_no)' = DevicePage(page_no)
    BY <2>1 DEF DevicePage
  <2> QED
    BY <1>1, <1>2, <1>3, <1>7, <2>1, <2>2, <2>3, <2>4 DEF WrittenInv
<1> QED
  BY <1>6, <1>7 DEF Receive, Timeout

\* A commit accepted is of the data the client computed its CRC of, and its page
\* is blank.
LEMMA WrittenTake ==
  ASSUME ClientTypeOK, LineTypeOK, PagesInv, WrittenInv, TakeRequest
  PROVE  WrittenInv'
<1> DEFINE m == Head(toServer)
<1>1. /\ 1 \in DOMAIN toServer /\ m = toServer[1] /\ m \in RequestMessage
      /\ \A i \in DOMAIN toServer' : i + 1 \in DOMAIN toServer /\ toServer'[i] = toServer[i + 1]
  <2>1. toServer # <<>> /\ toServer \in Seq(RequestMessage) /\ toServer' = Tail(toServer)
    BY DEF TakeRequest, LineTypeOK
  <2>2. 1 \in DOMAIN toServer /\ m = toServer[1]
    BY <2>1, TailOfQueue
  <2> QED
    BY <2>1, <2>2, TailOfQueue
<1>2. m.method = "writePage" => m.n = page_no /\ (erased => Blank(page_no))
  BY <1>1 DEF PagesInv
<1>3. UNCHANGED <<client, toClient>> /\ Handle(m) /\ m.n \in DOMAIN Image
  BY <1>1 DEF TakeRequest, RequestMessage
<1> HIDE DEF m
<1>4. UNCHANGED <<stage, page_no, awaiting, sent, erased, toClient>>
  BY <1>3 DEF client
<1>5. /\ flash' = flash /\ request'.method = m.method
      /\ loop' # "app" /\ (boot_enable' => boot_enable \/ m.method = "boot")
      /\ loop' = "reply" => m.method \notin {"eraseApp", "writePage"} \/ resp' # 0
      /\ loop' = "flash" /\ m.method = "writePage" =>
           request'.n = m.n - 1 /\ request'.crc = crc_32_page(Image[m.n].data) /\ before' = flash
  BY <1>3 DEF Handle, bl_ping, bl_eraseApp, bl_erasePageBuffer, bl_writePageBuffer, bl_writePage,
     bl_setBootAction, bl_boot, Request, Answer, EraseCall, WriteCall, Calls, flashVars, serviceVars, controller
<1>6. AllSent' => AllSent
  BY <1>1, <1>4, <1>5 DEF AllSent
<1>7. Committed' \subseteq Committed /\ (RestBlank' <=> RestBlank) /\ (\A n : Holds(n)' <=> Holds(n))
  BY <1>4, <1>5, <1>6 DEF Committed, RestBlank, Holds, DevicePage
<1>8. (m.n - 1) + 1 = m.n
  BY <1>3, ImagePages, SMT
<1>9. loop' = "flash" /\ request'.method = "writePage" =>
        /\ request'.crc = crc_32_page(Image[request'.n + 1].data)
        /\ erased' => before'[DevicePage(page_no)] = {}
  BY <1>2, <1>4, <1>5, <1>8 DEF Blank
<1>10. DevicePage(page_no)' = DevicePage(page_no) /\ (Holds(page_no)' <=> Holds(page_no))
  BY <1>4, <1>5 DEF DevicePage, Holds
<1>11. stage' # "done"
  BY <1>1, <1>4 DEF WrittenInv
<1>12. awaiting' => \A i \in DOMAIN toClient' : toClient'[i].id = sent' /\ toClient'[i].value = 0 =>
         /\ stage' = "eraseApp" => RestBlank'
         /\ stage' = "writePage" /\ erased' => Holds(page_no)'
  BY <1>4, <1>7, <1>10 DEF WrittenInv
<1>13. awaiting' => ~Ended'
  BY <1>4 DEF WrittenInv, Ended
<1>14. erased' => RestBlank' /\ \A n \in Committed' : Holds(n)'
  BY <1>4, <1>7 DEF WrittenInv
<1>15. loop' = "reply" /\ resp' = 0 => request'.method \notin {"eraseApp", "writePage"}
  BY <1>5
<1>16. stage' \in {"ping", "eraseApp"} => page_no' = 1
  BY <1>4 DEF WrittenInv
<1> QED
  BY <1>9, <1>10, <1>11, <1>12, <1>13, <1>14, <1>15, <1>16 DEF WrittenInv

\* The reply to the client's call takes along what the handler found.
LEMMA WrittenReply ==
  ASSUME LineTypeOK, resp \in {0, -1, -2, -3, -5, -9}, PagesInv, WrittenInv, ServerReply
  PROVE  WrittenInv'
<1> DEFINE m == [seq |-> handling.seq, id |-> handling.id, value |-> resp]
<1>1. /\ loop = "reply" /\ loop' = "boot_poll" /\ flash' = flash /\ boot_enable' = boot_enable
      /\ UNCHANGED <<client, toServer>> /\ toClient' = Append(toClient, m)
  BY DEF ServerReply, Reply, flashVars, serviceVars
<1>2. m.id = handling.id /\ m.value = resp
  OBVIOUS
<1>3. toClient \in Seq(ReplyMessage \cup {m}) /\ m \in ReplyMessage \cup {m}
  BY DEF LineTypeOK
<1> HIDE DEF m
<1>4. \A i \in DOMAIN toClient' :
        (i \in DOMAIN toClient /\ toClient'[i] = toClient[i]) \/ toClient'[i] = m
  BY <1>1, <1>3, AppendToQueue
<1>5. UNCHANGED <<stage, page_no, awaiting, sent, erased>>
  BY <1>1 DEF client
<1>6. Committed' = Committed /\ (RestBlank' <=> RestBlank) /\ (\A n : Holds(n)' <=> Holds(n))
      /\ (Holds(page_no)' <=> Holds(page_no))
  BY <1>1, <1>5 DEF Committed, AllSent, RestBlank, Holds, DevicePage
<1>7. ASSUME awaiting, NEW i \in DOMAIN toClient', toClient'[i].id = sent, toClient'[i].value = 0
      PROVE  /\ stage = "eraseApp" => RestBlank
             /\ stage = "writePage" /\ erased => Holds(page_no)
  <2>1. CASE i \in DOMAIN toClient /\ toClient'[i] = toClient[i]
    BY <1>7, <2>1 DEF WrittenInv
  <2>2. CASE toClient'[i] = m
    <3>1. handling.id = sent /\ resp = 0 /\ request.method = Method
      BY <1>1, <1>2, <1>7, <2>2 DEF PagesInv, Handling
    <3> QED
      BY <1>1, <1>7, <3>1 DEF WrittenInv, Method
  <2> QED
    BY <1>4, <2>1, <2>2
<1>8. ~Handling' /\ loop' # "flash" /\ loop' # "reply"
  BY <1>1 DEF Handling
<1> QED
  BY <1>1, <1>5, <1>6, <1>7, <1>8 DEF WrittenInv, Ended

\* The success of a commit to a blank page is the page's data in its place: the
\* buffer had the CRC of the data.
LEMMA CommitArrives ==
  ASSUME Fits, NoCollision, ClientTypeOK, DeviceInv, PagesInv, WrittenInv, BufferInv, erased,
         loop = "flash", request.method = "writePage", pc = "return", ret = 0, awaiting, handling.id = sent
  PROVE  Holds(page_no)
<1>1. request.id = App /\ request.n = page_no - 1
  BY DEF PagesInv
<1>2. /\ call.op = "write" /\ call.id = App /\ call.n = page_no - 1
      /\ request.crc = crc_32_page(call.buf)
  BY <1>1 DEF DeviceInv, CallOfRequest
<1>3. page_no \in DOMAIN Image /\ page_no \in 1 .. Len(Image) /\ Len(Image) \in Nat
      /\ Len(Image) <= APP_PAGES /\ APP_PAGES \in Nat
  BY ImagePages, GeometryAssumption DEF Fits, ClientTypeOK
<1>4. (page_no - 1) + 1 = page_no /\ call.n < APP_PAGES
  BY <1>2, <1>3, SMT
<1>5. FlashTypeOK
  BY DEF DeviceInv, TypeOK
<1>6. call.id \in {APP_1, APP_2}
  BY <1>2, SessionAssumption
<1>7. Reached
  BY <1>4, <1>5, <1>6, TargetInPartition
<1>8. call.buf = Image[page_no].data
  BY <1>1, <1>2, <1>3, <1>4 DEF WrittenInv, BufferInv, NoCollision
<1>9. WroteTarget
  BY <1>2, <1>7 DEF DeviceInv, WriteInv
<1>10. DevicePage(page_no) = WriteTarget /\ WriteTarget \in Page
  BY <1>2, <1>3, DevicePages DEF DevicePage, WriteTarget
<1>11. flash[WriteTarget] = before[WriteTarget] \cup call.buf
  BY <1>9, <1>10 DEF WroteTarget
<1>12. before[WriteTarget] = {}
  BY <1>10 DEF WrittenInv
<1>13. {} \cup call.buf = call.buf
  OBVIOUS
<1> QED
  BY <1>8, <1>10, <1>11, <1>12, <1>13 DEF Holds

\* The driver's return and its polls, and the loop's.
LEMMA WrittenServer ==
  ASSUME Fits, NoCollision, ClientTypeOK, LineTypeOK, DeviceInv, PagesInv, WrittenInv, BufferInv, ServerStep
  PROVE  WrittenInv'
<1>1. UNCHANGED <<stage, page_no, awaiting, sent, erased, toServer, toClient, handling>>
  BY DEF ServerStep, client, line
<1>2. /\ flash' = flash /\ before' = before /\ request' = request /\ boot_enable' = boot_enable
      /\ (Handling' => Handling) /\ (loop' = "flash" => loop = "flash")
      /\ (loop' = "app" => boot_enable)
      /\ (loop' = "reply" => FlashReturned)
  BY DEF ServerStep, FlashReturned, FlashStep, sys_boot_poll, Returned, DriverStep, EraseIssue, EraseCheck, WriteIssue,
     WriteCheck, Return, controller, history, bootVars, serviceVars, flashVars, Handling, Answer
<1>3. Committed' \subseteq Committed /\ (RestBlank' <=> RestBlank) /\ (\A n : Holds(n)' <=> Holds(n))
      /\ (Holds(page_no)' <=> Holds(page_no)) /\ DevicePage(page_no)' = DevicePage(page_no)
  BY <1>1, <1>2 DEF Committed, AllSent, RestBlank, Holds, DevicePage
<1>4. ASSUME loop' = "reply", resp' = 0
      PROVE  /\ request.method = "eraseApp" => RestBlank
             /\ request.method = "writePage" /\ erased /\ awaiting /\ handling.id = sent => Holds(page_no)
  <2>1. loop = "flash" /\ pc = "return" /\ ret = 0
    BY <1>2, <1>4 DEF FlashReturned, Returned, Answer
  <2>2. CASE request.method = "eraseApp"
    <3>1. call.op = "erase" /\ call.id = App
      BY <2>1, <2>2 DEF DeviceInv, CallOfRequest, PagesInv
    <3>2. partition = App /\ ErasedTo(PartitionEnd(partition))
      BY <2>1, <3>1 DEF DeviceInv, EraseInv
    <3>3. \A p \in PartitionPages(App) : flash[p] = {}
      BY <3>2 DEF ErasedTo, PartitionPages
    <3> QED
      BY <2>2, <3>3 DEF RestBlank
  <2>3. CASE request.method = "writePage"
    BY <2>1, <2>3, CommitArrives
  <2> QED
    BY <2>2, <2>3
<1> QED
  BY <1>1, <1>2, <1>3, <1>4 DEF WrittenInv, Ended

\* The controller at work, a frame lost, a reset: no page that counts is touched.
LEMMA WrittenBoard ==
  ASSUME Fits, ClientTypeOK, LineTypeOK, DeviceInv, BootInv, StaleInv, PagesInv, WrittenInv, [Next]_vars,
         HardwareStep \/ LoseRequest \/ LoseReply \/ DeviceReset \/ UNCHANGED sessionVars
  PROVE  WrittenInv'
<1>1. UNCHANGED <<stage, page_no, awaiting, sent, erased>>
  BY DEF HardwareStep, LoseRequest, LoseReply, DeviceReset, sessionVars, client
<1>2. /\ before' = before
      /\ \/ UNCHANGED <<loop, request, resp, boot_enable, handling>>
         \/ loop' = "poll" /\ ~boot_enable'
  BY DEF HardwareStep, ControllerStep, Controller, Complete, CommandError, LockError, FlashError, Finish, driver, history,
     bootVars, LoseRequest, LoseReply, DeviceReset, Reset, FlashReset, sessionVars, vars, flashVars, line
<1>3. \E d \in {0, 1} : \A i \in DOMAIN toServer' :
         i + d \in DOMAIN toServer /\ toServer'[i] = toServer[i + d]
  <2>1. toServer' = toServer \/ (toServer # <<>> /\ toServer' = Tail(toServer))
    BY DEF HardwareStep, LoseRequest, LoseReply, DeviceReset, sessionVars, line
  <2> QED
    BY <2>1, Subqueue DEF LineTypeOK
<1>4. \E d \in {0, 1} : \A i \in DOMAIN toClient' :
         i + d \in DOMAIN toClient /\ toClient'[i] = toClient[i + d]
  <2>1. toClient' = toClient \/ (toClient # <<>> /\ toClient' = Tail(toClient))
    BY DEF HardwareStep, LoseRequest, LoseReply, DeviceReset, sessionVars, line
  <2> QED
    BY <2>1, Subqueue DEF LineTypeOK
<1>5. page_no \in DOMAIN Image
  BY DEF ClientTypeOK
<1>6. Committed' \subseteq Committed
  <2>1. AllSent' => AllSent
    BY <1>1, <1>2, <1>3 DEF AllSent
  <2> QED
    BY <1>1, <2>1 DEF Committed
<1>7. ASSUME fcr = NoCommand \/ erased
      PROVE  /\ RestBlank => RestBlank'
             /\ \A n \in Committed : Holds(n) => Holds(n)'
  <2>1. fcr # NoCommand => request.method = "writePage"
    BY <1>7, CommandIsLast
  <2>2. ASSUME NEW p \in PartitionPages(App), \A n \in DOMAIN Image : p # DevicePage(n) PROVE flash'[p] = flash[p]
    BY <1>5, <2>1, <2>2, PlaceKept DEF PartitionPages
  <2>3. fcr # NoCommand => page_no \notin Committed
    <3> SUFFICES ASSUME fcr # NoCommand PROVE ~(page_no < page_no) /\ ~AllSent
      BY DEF Committed
    <3>1. loop = "flash" /\ DOMAIN toServer = {} /\ (Ended \/ Method \in {"eraseApp", "writePage"})
      BY CommandIsLast
    <3>2. stage # "done" /\ ~boot_enable
      BY <3>1 DEF WrittenInv, Handling, BootInv
    <3> QED
      BY <1>5, <3>1, <3>2, ImagePages, SMT DEF AllSent, Method, Ended
  <2>4. ASSUME NEW n \in Committed PROVE flash'[DevicePage(n)] = flash[DevicePage(n)]
    BY <1>5, <2>1, <2>3, PageKept DEF Committed
  <2> QED
    BY <2>2, <2>4 DEF RestBlank, Holds, DevicePage
<1>8. fcr = NoCommand => flash'[DevicePage(page_no)] = flash[DevicePage(page_no)]
  BY <1>5, PageKept
<1>9. DevicePage(page_no)' = DevicePage(page_no) /\ (Holds(page_no)' <=> flash'[DevicePage(page_no)] = Image[page_no].data)
  BY <1>1 DEF Holds, DevicePage
<1>10. loop # "flash" => fcr = NoCommand
  BY DEF DeviceInv, FlashAtRest
<1>11. erased' => RestBlank' /\ \A n \in Committed' : Holds(n)'
  BY <1>1, <1>6, <1>7 DEF WrittenInv
<1>12. loop' = "flash" /\ request'.method = "writePage" =>
         /\ request'.crc = crc_32_page(Image[request'.n + 1].data)
         /\ erased' => before'[DevicePage(page_no)'] = {}
  BY <1>1, <1>2, <1>9 DEF WrittenInv
<1>13. loop' = "reply" /\ resp' = 0 =>
         /\ request'.method = "eraseApp" => RestBlank'
         /\ request'.method = "writePage" /\ erased' /\ awaiting' /\ handling'.id = sent' => Holds(page_no)'
  BY <1>1, <1>2, <1>7, <1>8, <1>9, <1>10 DEF WrittenInv, Holds
<1>14. ASSUME awaiting', NEW i \in DOMAIN toClient', toClient'[i].id = sent', toClient'[i].value = 0
       PROVE  /\ stage' = "eraseApp" => RestBlank'
              /\ stage' = "writePage" /\ erased' => Holds(page_no)'
  <2>1. PICK j \in DOMAIN toClient : toClient'[i] = toClient[j]
    BY <1>4
  <2>2. fcr = NoCommand
    BY <1>1, <1>14, <2>1, CommandIsLast
  <2>3. /\ stage = "eraseApp" => RestBlank
        /\ stage = "writePage" /\ erased => Holds(page_no)
    BY <1>1, <1>14, <2>1 DEF WrittenInv
  <2> QED
    BY <1>1, <1>7, <1>8, <1>9, <2>2, <2>3 DEF Holds
<1>15. stage' = "done" => DOMAIN toServer' = {} /\ ~Handling'
  BY <1>1, <1>2, <1>3 DEF WrittenInv, Handling
<1>16. (awaiting' => ~Ended') /\ (stage' \in {"ping", "eraseApp"} => page_no' = 1)
  BY <1>1 DEF WrittenInv, Ended
<1> QED
  BY <1>9, <1>11, <1>12, <1>13, <1>14, <1>15, <1>16 DEF WrittenInv

\* So an acknowledged page stays written, and the rest of the partition blank.
LEMMA WrittenStep ==
  ASSUME Fits, NoCollision, MaxFaults < SEQUENCES, SessionTypeOK, DeviceInv, BootInv, StaleInv, PagesInv,
         WrittenInv, BufferInv, [SessionNext]_sessionVars
  PROVE  WrittenInv'
<1>1. ClientTypeOK /\ LineTypeOK
  BY TypeParts
<1>2. [Next]_vars
  BY ServiceOfSession
<1>3. CASE Send
  BY <1>1, <1>3, WrittenSend
<1>4. CASE Receive \/ Timeout
  BY <1>1, <1>4, WrittenClient
<1>5. CASE TakeRequest
  BY <1>1, <1>5, WrittenTake
<1>6. CASE ServerReply
  <2>1. resp \in {0, -1, -2, -3, -5, -9}
    BY DEF DeviceInv, TypeOK
  <2> QED
    BY <1>1, <1>6, <2>1, WrittenReply
<1>7. CASE ServerStep
  BY <1>1, <1>7, WrittenServer
<1>8. CASE HardwareStep \/ LoseRequest \/ LoseReply \/ DeviceReset \/ UNCHANGED sessionVars
  BY <1>1, <1>2, <1>8, WrittenBoard
<1> QED
  BY <1>3, <1>4, <1>5, <1>6, <1>7, <1>8 DEF SessionNext, ClientStep, DeviceStep

\* The first chunk starts at 0, and the next where it ends.
LEMMA ZeroStarts == \A n \in DOMAIN Image : 0 \in Starts(n)
<1> SUFFICES ASSUME NEW n \in DOMAIN Image PROVE 0 \in Starts(n)
  OBVIOUS
<1>1. Image[n].size \in Nat /\ 0 < Image[n].size /\ PAYLOAD_SIZE \in Nat
  BY ImagePage, SessionAssumption
<1>2. 0 \in 0 .. Image[n].size - 1 /\ 0 \in 0 .. 0 /\ 0 = 0 * PAYLOAD_SIZE
  BY <1>1, SMT
<1> QED
  BY <1>2 DEF Starts

LEMMA NextStarts ==
  ASSUME NEW n \in DOMAIN Image, NEW start \in Starts(n), start + PAYLOAD_SIZE < Image[n].size
  PROVE  start + PAYLOAD_SIZE \in Starts(n)
<1>1. Image[n].size \in Nat /\ PAYLOAD_SIZE \in Nat /\ 0 < PAYLOAD_SIZE
  BY ImagePage, SessionAssumption, SMT
<1>2. PICK k \in 0 .. start : start = k * PAYLOAD_SIZE
  BY DEF Starts
<1>3. start \in 0 .. Image[n].size - 1
  BY DEF Starts
<1>4. start + PAYLOAD_SIZE = (k + 1) * PAYLOAD_SIZE
  BY <1>1, <1>2, <1>3, SMT
<1>5. k + 1 \in 0 .. start + PAYLOAD_SIZE /\ start + PAYLOAD_SIZE \in 0 .. Image[n].size - 1
  BY <1>1, <1>2, <1>3, SMT
<1> QED
  BY <1>4, <1>5 DEF Starts

\* An erased or cleared buffer is one of them, and so is one with a chunk more.
LEMMA EmptyBuffers ==
  ASSUME NEW n \in DOMAIN Image, NEW base \in {{}, Cell} PROVE base \in Buffers(n)
<1>1. Pieces(n, {}) = {} /\ {} \in SUBSET Starts(n)
  BY DEF Pieces
<1>2. base = (base \ Pieces(n, {})) \cup (Image[n].data \cap Pieces(n, {}))
  BY <1>1
<1> QED
  BY <1>1, <1>2 DEF Buffers

LEMMA ChunkMore ==
  ASSUME NEW n \in DOMAIN Image, NEW c \in Buffers(n), NEW start \in Starts(n)
  PROVE  (c \ (Chunk(n, start).offset .. Chunk(n, start).offset + Chunk(n, start).data_len - 1))
            \cup Chunk(n, start).data \in Buffers(n)
<1> DEFINE span == start .. start + Chunk(n, start).data_len - 1
<1>1. PICK base \in {{}, Cell}, starts \in SUBSET Starts(n) :
        c = (base \ Pieces(n, starts)) \cup (Image[n].data \cap Pieces(n, starts))
  BY DEF Buffers
<1>2. Pieces(n, starts \cup {start}) = Pieces(n, starts) \cup span
  BY DEF Pieces
<1>3. Chunk(n, start).offset = start /\ Chunk(n, start).data = Image[n].data \cap span
  <2>1. /\ start \in Int /\ Image[n].size \in Int /\ PAYLOAD_SIZE \in Int
        /\ \A x \in Image[n].data : x \in Int
    BY ImagePage, SessionAssumption, SMT DEF Starts
  <2> DEFINE size == IF Image[n].size - start < PAYLOAD_SIZE THEN Image[n].size - start ELSE PAYLOAD_SIZE
  <2>2. /\ Chunk(n, start).offset = start /\ Chunk(n, start).data_len = size
        /\ Chunk(n, start).data = {x \in Image[n].data : start <= x /\ x < start + size}
    BY DEF Chunk
  <2>3. size \in Int
    BY <2>1
  <2> HIDE DEF size
  <2>4. \A x \in Image[n].data : x \in start .. start + size - 1 <=> start <= x /\ x < start + size
    BY <2>1, <2>3, SMT
  <2> QED
    BY <2>2, <2>4
<1>4. starts \cup {start} \in SUBSET Starts(n)
  OBVIOUS
<1> HIDE DEF span
<1>5. (c \ span) \cup (Image[n].data \cap span) =
        (base \ (Pieces(n, starts) \cup span)) \cup (Image[n].data \cap (Pieces(n, starts) \cup span))
  BY <1>1
<1> QED
  BY <1>2, <1>3, <1>4, <1>5 DEF Buffers, span

\* The client asks for the buffer to be erased, then sends the chunks of its page.
LEMMA BufferClient ==
  ASSUME MaxFaults < SEQUENCES, ClientTypeOK, LineTypeOK, StaleInv, BufferInv, Receive \/ Timeout
  PROVE  BufferInv'
<1>1. /\ awaiting /\ ~awaiting'
      /\ UNCHANGED <<toServer, page_buffer, loop, request, handling, call>>
  BY DEF Receive, Timeout, vars, bootVars, flashVars
<1>2. page_no \in DOMAIN Image /\ addr \in Nat
  BY ImagePage DEF ClientTypeOK
<1>3. addr' \in Starts(page_no')
  <2>1. 0 \in Starts(page_no) /\ (addr + PAYLOAD_SIZE < Image[page_no].size => addr + PAYLOAD_SIZE \in Starts(page_no))
    BY <1>2, ZeroStarts, NextStarts DEF BufferInv
  <2>2. CASE page_no' = page_no
    <3>1. addr' \in {addr, 0} \/ (addr + PAYLOAD_SIZE < Image[page_no].size /\ addr' = addr + PAYLOAD_SIZE)
      BY DEF Receive, Timeout, Returns, Raise, Goto, NextPage, NextChunk, ChunkFailed
    <3> QED
      BY <2>1, <2>2, <3>1 DEF BufferInv
  <2>3. CASE stage = "writePage" /\ NextPage /\ page_no < Len(Image)
    <3>1. page_no' = page_no + 1 /\ addr' = 0
      BY <2>3 DEF NextPage, ClientTypeOK
    <3>2. page_no' \in DOMAIN Image
      BY <1>2, <2>3, <3>1, ImagePages, SMT
    <3> QED
      BY <3>1, <3>2, ZeroStarts
  <2> QED
    BY <2>2, <2>3 DEF Receive, Timeout, Returns, Raise, Goto, NextPage, NextChunk, ChunkFailed
<1>4. CASE Receive /\ Head(toClient).seq = sequence
  <2>1. 1 \in DOMAIN toClient /\ toClient # <<>> /\ Head(toClient) = toClient[1]
    BY <1>4, TailOfQueue DEF Receive, LineTypeOK
  <2>2. Recent(Head(toClient), sent, sequence, Age)
    BY <2>1 DEF StaleInv, QueueInv
  <2>3. Head(toClient).id = sent
    BY <1>4, <2>2, CounterTypes, SameNumberSameRequest, SMT
  <2>4. DOMAIN toServer' = {}
    BY <1>1, <2>1, <2>3, NothingLeft DEF StaleInv
  <2>5. ASSUME stage' \in {"writePageBuffer", "writePage"} PROVE page_buffer \in Buffers(page_no')
    <3>1. CASE stage = "erasePageBuffer"
      <4>1. page_no' = page_no
        BY <1>4, <3>1 DEF Receive, Returns, Goto
      <4>2. page_buffer \in {{}, Cell}
        BY <1>1, <2>1, <2>3, <3>1 DEF BufferInv, Answered
      <4> QED
        BY <1>2, <4>1, <4>2, EmptyBuffers
    <3>2. CASE stage = "writePageBuffer"
      <4>1. page_no' = page_no
        BY <1>4, <3>2 DEF Receive, Returns, NextChunk, ChunkFailed
      <4> QED
        BY <3>2, <4>1 DEF BufferInv
    <3>3. CASE stage \notin {"erasePageBuffer", "writePageBuffer"}
      BY <1>4, <2>5, <3>3 DEF Receive, Returns, Goto, NextPage
    <3> QED
      BY <3>1, <3>2, <3>3
  <2> QED
    BY <1>1, <1>3, <2>4, <2>5 DEF BufferInv
<1>5. CASE Raise
  <2>1. page_no' = page_no
    BY <1>5 DEF Raise, ChunkFailed, Goto
  <2>2. stage' \in {"writePageBuffer", "writePage"} => stage = "writePageBuffer"
    BY <1>5, RaiseEnds DEF Ended
  <2> QED
    BY <1>1, <1>3, <2>1, <2>2 DEF BufferInv
<1> QED
  BY <1>4, <1>5 DEF Receive, Timeout

LEMMA BufferSend ==
  ASSUME ClientTypeOK, LineTypeOK, StaleInv, BufferInv, Send
  PROVE  BufferInv'
<1> DEFINE m == [seq |-> sequence', id |-> sent', method |-> Method, n |-> page_no, addr |-> addr]
<1>1. /\ sent' = sent + 1
      /\ UNCHANGED <<stage, page_no, addr, page_buffer, loop, request, call, toClient, handling>>
      /\ toServer' = Append(toServer, m)
  BY DEF Send, vars, bootVars, flashVars
<1>2. m.n = page_no /\ m.addr = addr
  OBVIOUS
<1>3. toServer \in Seq(RequestMessage \cup {m}) /\ m \in RequestMessage \cup {m}
  BY DEF LineTypeOK
<1> HIDE DEF m
<1>4. \A i \in DOMAIN toServer' :
        (i \in DOMAIN toServer /\ toServer'[i] = toServer[i]) \/ toServer'[i] = m
  BY <1>1, <1>3, AppendToQueue
<1>5. \A x : Recent(x, sent, sequence, Age) => x.id # sent'
  BY <1>1, CounterTypes, SMT DEF Recent
<1>6. ~Answered' /\ ~(loop' = "flash" /\ handling'.id = sent')
  BY <1>1, <1>5 DEF Answered, StaleInv, QueueInv, Handling
<1>7. \A i \in DOMAIN toServer' :
        toServer'[i].method = "writePageBuffer" => toServer'[i].n = page_no /\ toServer'[i].addr \in Starts(page_no)
  BY <1>2, <1>4 DEF BufferInv
<1> QED
  BY <1>1, <1>6, <1>7 DEF BufferInv

\* A chunk taken is of the page the buffer is for, and a commit takes the buffer.
LEMMA BufferTake ==
  ASSUME ClientTypeOK, LineTypeOK, StaleInv, PagesInv, BufferInv, TakeRequest
  PROVE  BufferInv'
<1> DEFINE m == Head(toServer)
<1>1. /\ 1 \in DOMAIN toServer /\ m = toServer[1] /\ m \in RequestMessage
      /\ \A i \in DOMAIN toServer' : i + 1 \in DOMAIN toServer /\ toServer'[i] = toServer[i + 1]
  <2>1. toServer # <<>> /\ toServer \in Seq(RequestMessage) /\ toServer' = Tail(toServer)
    BY DEF TakeRequest, LineTypeOK
  <2>2. 1 \in DOMAIN toServer /\ m = toServer[1]
    BY <2>1, TailOfQueue
  <2> QED
    BY <2>1, <2>2, TailOfQueue
<1>2. Handle(m) /\ handling'.id = m.id
      /\ UNCHANGED <<stage, page_no, addr, awaiting, sent, toClient>>
  BY DEF TakeRequest, client
<1>3. /\ m.method # "writePageBuffer" => m.id = sent /\ (Ended \/ (awaiting /\ Method = m.method))
      /\ m.method = "writePageBuffer" => m.n = page_no /\ m.addr \in Starts(page_no)
      /\ \A i \in DOMAIN toClient : toClient[i].id < m.id
      /\ m.id \in Nat /\ m.id <= sent /\ sent \in Nat
  <2>1. Recent(m, sent, sequence, Age) /\ \A i \in DOMAIN toClient : toClient[i].id < m.id
    BY <1>1 DEF StaleInv, QueueInv
  <2> QED
    BY <1>1, <2>1, CounterTypes DEF Recent, StaleInv, CurrentInv, Current, BufferInv
<1>4. page_no \in DOMAIN Image
  BY DEF ClientTypeOK
<1>5. m.id = sent /\ awaiting => m.method = Method
  BY <1>1 DEF PagesInv
<1> HIDE DEF m
<1>6. CASE m.method = "writePageBuffer"
  <2>1. bl_writePageBuffer(Chunk(m.n, m.addr))
    BY <1>2, <1>6 DEF Handle
  <2>2. page_buffer' = page_buffer \/ page_buffer' =
          (page_buffer \ (Chunk(m.n, m.addr).offset .. Chunk(m.n, m.addr).offset + Chunk(m.n, m.addr).data_len - 1))
             \cup Chunk(m.n, m.addr).data
    BY <2>1 DEF bl_writePageBuffer
  <2>3. page_buffer \in Buffers(page_no) => page_buffer' \in Buffers(page_no)
    BY <1>3, <1>4, <1>6, <2>2, ChunkMore
  <2>4. loop' = "reply"
    BY <2>1 DEF bl_writePageBuffer, Answer
  <2>5. stage = "erasePageBuffer" /\ awaiting => m.id # sent
    BY <1>5, <1>6 DEF Method
  <2>6. stage = "erasePageBuffer" /\ awaiting => ~Answered'
    <3>1. ASSUME NEW i \in DOMAIN toClient PROVE toClient[i].id # sent
      <4>1. toClient[i].id < m.id /\ toClient[i].id \in Nat
        BY <1>3 DEF StaleInv, QueueInv, Recent
      <4> QED
        BY <1>3, <4>1, SMT
    <3> QED
      BY <1>2, <2>5, <3>1 DEF Answered
  <2> QED
    BY <1>1, <1>2, <2>3, <2>4, <2>6 DEF BufferInv
<1>7. CASE m.method = "erasePageBuffer"
  <2>1. page_buffer' = {} /\ loop' = "reply"
    BY <1>2, <1>7 DEF Handle, bl_erasePageBuffer, Answer
  <2>2. stage \notin {"writePageBuffer", "writePage"}
    BY <1>3, <1>7 DEF Method, Ended
  <2> QED
    BY <1>1, <1>2, <2>1, <2>2 DEF BufferInv
<1>8. CASE m.method \notin {"writePageBuffer", "erasePageBuffer"}
  <2>1. page_buffer' = page_buffer /\ request'.method = m.method
        /\ (loop' = "flash" /\ m.method = "writePage" => call'.buf = page_buffer)
    BY <1>2, <1>8 DEF Handle, bl_ping, bl_eraseApp, bl_writePage, bl_setBootAction, bl_boot, Request, Answer,
       WriteCall, Calls, serviceVars
  <2>2. ~(stage = "erasePageBuffer" /\ awaiting)
    BY <1>3, <1>8 DEF Method, Ended
  <2>3. m.method = "writePage" /\ awaiting /\ m.id = sent => stage = "writePage"
    BY <1>5 DEF Method
  <2> QED
    BY <1>1, <1>2, <2>1, <2>2, <2>3 DEF BufferInv
<1> QED
  BY <1>6, <1>7, <1>8

\* Nothing else changes the buffer, but a reset clears it.
LEMMA BufferDevice ==
  ASSUME ClientTypeOK, LineTypeOK, BufferInv,
         ServerReply \/ ServerStep \/ HardwareStep \/ LoseRequest \/ LoseReply \/ DeviceReset \/ UNCHANGED sessionVars
  PROVE  BufferInv'
<1>1. UNCHANGED <<stage, page_no, addr, awaiting, sent>>
  BY DEF ServerReply, ServerStep, HardwareStep, LoseRequest, LoseReply, DeviceReset, sessionVars, client
<1>2. page_no \in DOMAIN Image
  BY DEF ClientTypeOK
<1>3. CASE ServerReply
  <2> DEFINE m == [seq |-> handling.seq, id |-> handling.id, value |-> resp]
  <2>1. /\ loop = "reply" /\ loop' = "boot_poll" /\ page_buffer' = page_buffer
        /\ toServer' = toServer /\ toClient' = Append(toClient, m)
    BY <1>3 DEF ServerReply, Reply, serviceVars
  <2>2. m.id = handling.id
    OBVIOUS
  <2>3. toClient \in Seq(ReplyMessage \cup {m}) /\ m \in ReplyMessage \cup {m}
    BY DEF LineTypeOK
  <2> HIDE DEF m
  <2>4. \A i \in DOMAIN toClient' :
          (i \in DOMAIN toClient /\ toClient'[i] = toClient[i]) \/ toClient'[i] = m
    BY <2>1, <2>3, AppendToQueue
  <2>5. Answered' => Answered
    BY <1>1, <2>1, <2>2, <2>4 DEF Answered, Handling
  <2> QED
    BY <1>1, <2>1, <2>5 DEF BufferInv
<1>4. CASE ServerStep \/ HardwareStep \/ UNCHANGED sessionVars
  <2>1. /\ UNCHANGED <<toServer, toClient, handling, page_buffer>>
        /\ (Handling' => Handling) /\ (loop' = "flash" => loop = "flash" /\ request' = request /\ call' = call)
    BY <1>4 DEF ServerStep, HardwareStep, FlashReturned, FlashStep, sys_boot_poll, Returned, DriverStep, EraseIssue, EraseCheck,
       WriteIssue, WriteCheck, Return, history, driver, bootVars, serviceVars, flashVars, vars, line, sessionVars,
       Handling, Answer, ControllerStep, Controller, Complete, CommandError, LockError, FlashError, Finish
  <2> QED
    BY <1>1, <2>1 DEF BufferInv, Answered
<1>5. CASE LoseRequest \/ LoseReply \/ DeviceReset
  <2>1. \/ UNCHANGED <<page_buffer, loop, request, call, handling>>
        \/ page_buffer' = Cell /\ loop' = "poll"
    BY <1>5 DEF LoseRequest, LoseReply, DeviceReset, Reset, vars, bootVars, flashVars
  <2>2. \E d \in {0, 1} : \A i \in DOMAIN toServer' :
          i + d \in DOMAIN toServer /\ toServer'[i] = toServer[i + d]
    <3>1. toServer' = toServer \/ (toServer # <<>> /\ toServer' = Tail(toServer))
      BY <1>5 DEF LoseRequest, LoseReply, DeviceReset
    <3> QED
      BY <3>1, Subqueue DEF LineTypeOK
  <2>3. \E d \in {0, 1} : \A i \in DOMAIN toClient' :
          i + d \in DOMAIN toClient /\ toClient'[i] = toClient[i + d]
    <3>1. toClient' = toClient \/ (toClient # <<>> /\ toClient' = Tail(toClient))
      BY <1>5 DEF LoseRequest, LoseReply, DeviceReset
    <3> QED
      BY <3>1, Subqueue DEF LineTypeOK
  <2>4. Cell \in Buffers(page_no)
    BY <1>2, EmptyBuffers
  <2>5. \A i \in DOMAIN toServer' :
          toServer'[i].method = "writePageBuffer" => toServer'[i].n = page_no /\ toServer'[i].addr \in Starts(page_no)
    BY <2>2 DEF BufferInv
  <2>6. page_buffer' = Cell \/ (Answered' => Answered)
    BY <1>1, <2>1, <2>3 DEF Answered, Handling
  <2> QED
    BY <1>1, <2>1, <2>4, <2>5, <2>6 DEF BufferInv
<1> QED
  BY <1>3, <1>4, <1>5

LEMMA BufferKept ==
  ASSUME MaxFaults < SEQUENCES, SessionTypeOK, StaleInv, PagesInv, BufferInv, [SessionNext]_sessionVars
  PROVE  BufferInv'
<1>1. ClientTypeOK /\ LineTypeOK
  BY TypeParts
<1>2. CASE Send
  BY <1>1, <1>2, BufferSend
<1>3. CASE Receive \/ Timeout
  BY <1>1, <1>3, BufferClient
<1>4. CASE TakeRequest
  BY <1>1, <1>4, BufferTake
<1>5. CASE ServerReply \/ ServerStep \/ HardwareStep \/ LoseRequest \/ LoseReply \/ DeviceReset \/ UNCHANGED sessionVars
  BY <1>1, <1>5, BufferDevice
<1> QED
  BY <1>2, <1>3, <1>4, <1>5 DEF SessionNext, ClientStep, DeviceStep

\* The rest of the partition and the image's pages are all of it.
LEMMA WrittenIsImage ==
  ASSUME Fits, WrittenInv, erased,
         stage \in {"setBootAction", "boot", "ping_post", "done"} \/ loop = "app", NEW p \in PartitionPages(App)
  PROVE  flash[p] = Written[p]
<1> DEFINE n == 1 + (FLASH_BASE_PAGE + p) - PartitionStart(App)
<1>1. App \in Partitions /\ p \in Nat /\ FLASH_BASE_PAGE \in Nat /\ PartitionStart(App) \in Nat
      /\ FLASH_BASE_PAGE <= PartitionStart(App)
  BY SessionAssumption, PartitionBounds, BaseAligned, SMT DEF Partitions, APP_1, APP_2, PartitionPages, Page
<1>2. n \in DOMAIN Image => p = DevicePage(n)
  BY <1>1, SMT DEF DevicePage
<1>3. \A k \in DOMAIN Image : p = DevicePage(k) => n = k
  BY <1>1, ImagePages, SMT DEF DevicePage
<1>4. Written[p] = IF n \in DOMAIN Image THEN Image[n].data ELSE {}
  BY DEF Written
<1> HIDE DEF n
<1>5. CASE n \in DOMAIN Image
  <2>1. Holds(n)
    BY <1>5 DEF WrittenInv, Committed, AllSent
  <2> QED
    BY <1>2, <1>4, <1>5, <2>1 DEF Holds
<1>6. CASE n \notin DOMAIN Image
  BY <1>3, <1>4, <1>6 DEF WrittenInv, RestBlank
<1> QED
  BY <1>5, <1>6

\* blcli.py: on the RH71, for an image that fits its partition, a CRC that tells
\* its pages from incomplete ones, and fewer faults than sequence numbers: a session
\* that erased and saw every page acknowledged has left the image in the partition
\* and nothing else, and the device starts no other after such an erase.
THEOREM ImageArrives ==
  ASSUME SERIES = "RH71", EPA_FIELD = "page", Len(Image) <= APP_PAGES, MaxFaults < SEQUENCES, NoCollision
  PROVE  SessionSpec => []ImageIsWritten
<1> Fits
  BY DEF Fits
<1>1. SessionInit => WrittenInv /\ BufferInv
  <2> SUFFICES ASSUME SessionInit PROVE WrittenInv /\ BufferInv
    OBVIOUS
  <2>1. /\ toClient = <<>> /\ toServer = <<>> /\ loop = "poll" /\ erased = FALSE /\ stage = "ping"
        /\ page_no = 1 /\ awaiting = FALSE /\ addr = 0
    BY DEF SessionInit, Init
  <2>2. 0 \in Starts(1)
    BY ImagePages, ZeroStarts
  <2> QED
    BY <2>1, <2>2 DEF WrittenInv, BufferInv
<1>2. SessionTypeOK /\ DeviceInv /\ BootInv /\ StaleInv /\ PagesInv /\ WrittenInv /\ BufferInv
        /\ [SessionNext]_sessionVars => WrittenInv' /\ BufferInv'
  BY WrittenStep, BufferKept
<1>3. WrittenInv => ImageIsWritten
  BY WrittenIsImage DEF ImageIsWritten
<1> QED
  BY <1>1, <1>2, <1>3, PagesInvariant, PTL DEF SessionSpec
=============================================================================
