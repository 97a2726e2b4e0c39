--------------------------- MODULE RequestProofs ---------------------------
(***************************************************************************)
(* Theorems about Request: its type invariant; that, as long as no call    *)
(* was overtaken between its look at the receipt and its act, and the      *)
(* upload did not end during the response callback, a receipt is listed    *)
(* until its outcome is reported, a reported failure stands, and the       *)
(* request implements Call; and, whatever overtakes whatever, that         *)
(* something is always about to conclude a larger request.                 *)
(***************************************************************************)
EXTENDS Request, SequenceTheorems, TLAPS

\* The callbacks are one of the sequences the abstract call can make.
Outcomes == {<<>>, <<"response">>, <<"failed">>}

\* Nothing but the packet precedes the listing of the receipt, and nothing it.
Issued ==
  status = "NONE" =>
    /\ ~listed /\ callbacks = <<>> /\ passed = {} /\ threads \subseteq {"handle", "respond"}
    /\ upload = "none" /\ inbox = "none" /\ download = "none"
    /\ receipt = "none" => reply = "none" /\ threads = {} /\ net = {}

\* The handler runs once: the request arrives as one packet or as one resource.
HandledOnce ==
  /\ receipt # "none" => upload = "none"
  /\ inbox # "none" => upload # "none"
  /\ "REQUEST" \in net => receipt # "none" /\ "handle" \notin threads /\ reply = "none"
  /\ upload # "none" /\ inbox \in {"none", "RECEIVING"} => "handle" \notin threads /\ reply = "none"
  /\ "handle" \in threads => reply = "none"

\* The response comes once, after the handler's reply, and in the form it was given.
AnsweredOnce ==
  /\ reply = "none" => /\ "RESPONSE" \notin net /\ "respond" \notin threads /\ "answer" \notin threads
                       /\ "respond" \notin passed /\ "complete" \notin passed /\ download = "none"
  /\ reply = "PACKET" => download = "none" /\ "complete" \notin passed
  /\ reply \in {"SENDING", "ENDED"} =>
       "RESPONSE" \notin net /\ "respond" \notin threads /\ "respond" \notin passed
  /\ "RESPONSE" \in net => "respond" \notin threads
  /\ "RESPONSE" \in net \/ "respond" \in threads => "respond" \notin passed /\ "answer" \notin threads
  /\ download \in {"none", "RECEIVING"} /\ reply # "PACKET" =>
       "complete" \notin passed /\ "answer" \notin threads
  /\ "respond" \in passed \/ "complete" \in passed => "answer" \notin threads

\* The callbacks, the list and the status tell the same story, and what a call has
\* seen is still so.
Concluded ==
  /\ callbacks \in Outcomes
  /\ status # "NONE" => (listed <=> callbacks = <<>> \/ "answer" \in threads)
  /\ "answer" \in threads => callbacks = <<"response">> /\ status # "DELIVERED"
  /\ status = "DELIVERED" => upload = "COMPLETE"
  /\ callbacks = <<"failed">> => status = "FAILED" /\ upload # "SENDING"
  /\ passed \subseteq Standing

OrderInv == Issued /\ HandledOnce /\ AnsweredOnce

RequestInv == TypeOK /\ OrderInv /\ (past = {} => Concluded)

\* A larger request whose caller was told nothing, and whose response has not begun, is
\* still being sent, or a thread waits that will report it unless it is answered.
ConclusionPending ==
  upload # "none" /\ callbacks = <<>> /\ download = "none" =>
    \/ upload = "SENDING"
    \/ listed /\ status = "DELIVERED" /\ "wait" \in threads
    \/ listed /\ "wait" \in passed

\* Only a caller who has been told is taken off pending_requests.
Untold ==
  /\ status # "NONE" /\ ~listed => callbacks # <<>>
  /\ "answer" \in threads => callbacks # <<>>
  /\ "progress" \in passed => download # "none"

PendingInv == TypeOK /\ Issued /\ Untold /\ ConclusionPending

-----------------------------------------------------------------------------
(***************************************************************************)
(* Types.                                                                  *)
(***************************************************************************)

\* Every callback keeps the type of callbacks.
LEMMA CallbackType ==
  ASSUME callbacks \in Seq({"response", "failed"}), NEW what \in {"response", "failed"},
         Callback(what)
  PROVE  callbacks' \in Seq({"response", "failed"})
  BY AppendProperties DEF Callback

\* What is noted of a step is an incident, and nothing noted means none.
LEMMA NoteFacts ==
  ASSUME NEW incidents, Note(incidents)
  PROVE  /\ past \subseteq Incident /\ incidents \subseteq Incident => past' \subseteq Incident
         /\ past' = {} => past = {} /\ incidents = {} /\ Overtaken = {}
  BY DEF Note, Incident

\* The steps of the caller that change the receipt without calling the application.
CallerMarks == UploadProved \/ Progress \/ EndAnswer

\* The steps of the caller that make no callback and undo no look.
CallerQuiet ==
  \/ SendPacket \/ ListPacket \/ SendResource \/ Expire \/ RunExpired \/ WaitEnd \/ WaitTimeout
  \/ ReceiveResponse \/ Respond \/ AcceptResponse \/ ReceivePart
  \/ CompleteResponse \/ LoseResponse

\* The latter keep the types.
LEMMA QuietType == ASSUME TypeOK, CallerQuiet PROVE TypeOK'
  <1> USE DEF TypeOK, CallerQuiet, SendPacket, ListPacket, SendResource, Expire, RunExpired, WaitEnd,
        WaitTimeout, ReceiveResponse, Respond, AcceptResponse, ReceivePart, CompleteResponse,
        LoseResponse, LookProgress, LookTimeout, LookResponse, transferVars, receiptVars
  <1>1. UNCHANGED open /\ UNCHANGED callbacks /\ UNCHANGED past
    OBVIOUS
  <1>2. EndsType' /\ CallbacksType'
    BY <1>1 DEF EndsType, CallbacksType
  <1>3. ReceiptType'
    BY DEF ReceiptType
  <1>4. TransferType'
    BY DEF TransferType
  <1>5. ThreadsType'
    BY DEF ThreadsType, Thread, Look, Timeouts, Responses
  <1>6. NetType'
    BY <1>1 DEF NetType
  <1>7. QED
    BY <1>2, <1>3, <1>4, <1>5, <1>6

\* So do the steps that end an upload, a look or the response callback.
LEMMA ActType ==
  ASSUME TypeOK, \/ CallerMarks \/ UploadFail
                 \/ \E call \in Timeouts : TimedOut(call)
                 \/ \E call \in Responses : Answer(call)
  PROVE  TypeOK'
  <1> USE DEF TypeOK, CallerMarks, UploadProved, Progress, EndAnswer, UploadFail, TimedOut, Answer,
        PacketDelivered, transferVars
  <1>1. UNCHANGED <<open, inbox, reply, download>>
    OBVIOUS
  <1>2. UNCHANGED callbacks \/ Callback("failed") \/ Callback("response")
    OBVIOUS
  <1>3. CallbacksType'
    BY <1>2, CallbackType DEF CallbacksType
  <1>4. EndsType'
    BY <1>1 DEF EndsType
  <1>5. status' \in {status, "FAILED", "DELIVERED", "RECEIVING", "READY"}
    OBVIOUS
  <1>6. listed' \in BOOLEAN /\ receipt' \in {receipt, "none", "DELIVERED"}
    BY DEF ReceiptType
  <1>7. ReceiptType'
    BY <1>5, <1>6 DEF ReceiptType
  <1>8. TransferType'
    BY <1>1 DEF TransferType
  <1>9. ThreadsType'
    BY DEF ThreadsType, Thread
  <1>10. PICK incidents \in SUBSET Incident : Note(incidents)
    BY DEF Answered, Incident
  <1>11. NetType'
    BY <1>10, NoteFacts DEF NetType
  <1>12. QED
    BY <1>3, <1>4, <1>7, <1>8, <1>9, <1>11

\* So do the steps of the handler.
LEMMA HandlerType == ASSUME TypeOK, Handler PROVE TypeOK'
  <1> USE DEF TypeOK, Handler, ReceiveRequest, AcceptRequest, CompleteRequest, LoseRequest,
        Handle, EndReply, transferVars, receiptVars
  <1>1. UNCHANGED <<open, receiptVars, passed, past>>
    OBVIOUS
  <1>2. EndsType' /\ ReceiptType' /\ CallbacksType'
    BY <1>1 DEF EndsType, ReceiptType, CallbacksType
  <1>3. TransferType'
    BY DEF TransferType
  <1>4. ThreadsType'
    BY <1>1 DEF ThreadsType, Thread
  <1>5. NetType'
    BY <1>1 DEF NetType
  <1>6. QED
    BY <1>2, <1>3, <1>4, <1>5

\* Every step keeps the types, whatever it overtakes.
LEMMA RequestTypeStep == TypeOK /\ [Next]_vars => TypeOK'
  <1> SUFFICES ASSUME TypeOK, [Next]_vars PROVE TypeOK'
    OBVIOUS
  <1>1. CASE CallerQuiet
    BY <1>1, QuietType
  <1>2. CASE \/ CallerMarks \/ UploadFail
             \/ \E call \in Timeouts : TimedOut(call)
             \/ \E call \in Responses : Answer(call)
    BY <1>2, ActType
  <1>3. CASE Handler
    BY <1>3, HandlerType
  <1>4. ASSUME NEW e \in Ends, Close(e) PROVE TypeOK'
    <2>1. EndsType'
      BY <1>4 DEF Close, TypeOK, EndsType
    <2>2. UNCHANGED <<receiptVars, transferVars, threads, passed, net, past>>
      BY <1>4 DEF Close
    <2>3. QED
      BY <2>1, <2>2 DEF TypeOK, receiptVars, transferVars, ReceiptType, CallbacksType, TransferType,
                        ThreadsType, NetType
  <1>5. CASE UNCHANGED vars
    BY <1>5 DEF vars, receiptVars, transferVars, TypeOK, EndsType, ReceiptType, CallbacksType,
                TransferType, ThreadsType, NetType
  <1>6. QED
    BY <1>1, <1>2, <1>3, <1>4, <1>5 DEF Next, Caller, CallerQuiet, CallerMarks

\* The types hold at the start.
LEMMA InitialType == Init => TypeOK
  <1>1. <<>> \in Seq({"response", "failed"})
    OBVIOUS
  <1>2. Init => EndsType /\ CallbacksType
    BY <1>1 DEF Init, EndsType, CallbacksType
  <1>3. Init => ReceiptType /\ TransferType
    BY DEF Init, ReceiptType, TransferType
  <1>4. Init => ThreadsType /\ NetType
    BY DEF Init, ThreadsType, NetType
  <1>5. QED
    BY <1>2, <1>3, <1>4 DEF TypeOK

\* Every variable of the request keeps its type, whatever overtakes whatever.
THEOREM RequestTypeCorrect == Spec => []TypeOK
  <1>1. Init => TypeOK
    BY InitialType
  <1>2. QED
    BY <1>1, RequestTypeStep, PTL DEF Spec

-----------------------------------------------------------------------------
(***************************************************************************)
(* One request, one response.                                              *)
(***************************************************************************)

\* The request stays issued, and nothing but its packet precedes that.
LEMMA IssuedStep ==
  ASSUME Issued, Next
  PROVE  Issued' /\ (status # "NONE" => status' # "NONE")
  <1> USE DEF Issued, receiptVars, transferVars
  <1>1. CASE CallerQuiet
    BY <1>1 DEF CallerQuiet, SendPacket, ListPacket, SendResource, Expire, RunExpired, WaitEnd,
         WaitTimeout, ReceiveResponse, Respond, AcceptResponse, ReceivePart, CompleteResponse,
         LoseResponse, LookProgress, LookTimeout, LookResponse, TimesOut, Answers
  <1>2. CASE CallerMarks \/ UploadFail
    BY <1>2 DEF CallerMarks, UploadProved, Progress, EndAnswer, UploadFail
  <1>3. CASE (\E call \in Timeouts : TimedOut(call)) \/ (\E call \in Responses : Answer(call))
    BY <1>3 DEF TimedOut, Answer
  <1>4. CASE Handler
    BY <1>4 DEF Handler, ReceiveRequest, AcceptRequest, CompleteRequest, LoseRequest, Handle,
                EndReply
  <1>5. ASSUME NEW e \in Ends, Close(e) PROVE Issued' /\ UNCHANGED status
    BY <1>5 DEF Close
  <1>6. QED
    BY <1>1, <1>2, <1>3, <1>4, <1>5 DEF Next, Caller, CallerQuiet, CallerMarks

\* The handler still runs once.
LEMMA HandledStep == ASSUME TypeOK, OrderInv, Next PROVE HandledOnce'
  <1> USE DEF OrderInv, Issued, HandledOnce, receiptVars, transferVars
  <1>1. CASE CallerQuiet
    BY <1>1 DEF CallerQuiet, SendPacket, ListPacket, SendResource, Expire, RunExpired, WaitEnd,
         WaitTimeout, ReceiveResponse, Respond, AcceptResponse, ReceivePart, CompleteResponse,
         LoseResponse, LookProgress
  <1>2. CASE CallerMarks \/ UploadFail
    BY <1>2 DEF CallerMarks, UploadProved, Progress, EndAnswer, UploadFail, PacketDelivered
  <1>3. CASE (\E call \in Timeouts : TimedOut(call)) \/ (\E call \in Responses : Answer(call))
    BY <1>3 DEF TimedOut, Answer, PacketDelivered
  <1>4. CASE Handler
    BY <1>4 DEF Handler, ReceiveRequest, AcceptRequest, CompleteRequest, LoseRequest, Handle,
                EndReply
  <1>5. ASSUME NEW e \in Ends, Close(e) PROVE HandledOnce'
    BY <1>5 DEF Close
  <1>6. QED
    BY <1>1, <1>2, <1>3, <1>4, <1>5 DEF Next, Caller, CallerQuiet, CallerMarks

\* The response still comes once.
LEMMA AnsweredStep == ASSUME TypeOK, OrderInv, Next PROVE AnsweredOnce'
  <1> USE DEF OrderInv, AnsweredOnce, receiptVars, transferVars
  <1>1. CASE SendPacket \/ ListPacket \/ SendResource \/ Expire
    BY <1>1 DEF SendPacket, ListPacket, SendResource, Expire
  <1>2. CASE RunExpired \/ WaitEnd \/ WaitTimeout
    BY <1>2 DEF RunExpired, WaitEnd, WaitTimeout, LookTimeout
  <1>3. CASE ReceiveResponse
    BY <1>3 DEF ReceiveResponse
  <1>4. CASE Respond
    BY <1>4 DEF Respond, LookResponse, TypeOK, TransferType
  <1>5. CASE AcceptResponse \/ ReceivePart
    BY <1>5 DEF AcceptResponse, ReceivePart, LookProgress, TypeOK, TransferType
  <1>6. CASE CompleteResponse \/ LoseResponse
    BY <1>6 DEF CompleteResponse, LoseResponse, LookResponse, LookTimeout, TypeOK, TransferType
  <1>7. CASE CallerMarks \/ UploadFail
    BY <1>7 DEF CallerMarks, UploadProved, Progress, EndAnswer, UploadFail
  <1>8. ASSUME NEW call \in Timeouts, TimedOut(call) PROVE AnsweredOnce'
    BY <1>8 DEF TimedOut
  <1>9. ASSUME NEW call \in Responses, Answer(call) PROVE AnsweredOnce'
    BY <1>9 DEF Answer, Responses, TypeOK, TransferType
  <1>10. CASE Handler
    BY <1>10 DEF Handler, ReceiveRequest, AcceptRequest, CompleteRequest, LoseRequest, Handle,
                 EndReply, HandledOnce
  <1>11. ASSUME NEW e \in Ends, Close(e) PROVE AnsweredOnce'
    BY <1>11 DEF Close
  <1>12. QED
    BY <1>1, <1>2, <1>3, <1>4, <1>5, <1>6, <1>7, <1>8, <1>9, <1>10, <1>11
    DEF Next, Caller, CallerMarks

-----------------------------------------------------------------------------
(***************************************************************************)
(* The story of a receipt whose calls were not overtaken.                  *)
(***************************************************************************)

\* The three outcomes are told apart, and a first callback is the only one.
LEMMA OutcomeFacts ==
  /\ <<>> # <<"response">> /\ <<>> # <<"failed">> /\ <<"response">> # <<"failed">>
  /\ \A what : callbacks = <<>> /\ Callback(what) => callbacks' = <<what>>
  BY DEF Callback

\* What the calls have seen is still so after a step that overtakes none.
LEMMA StandingStep ==
  ASSUME passed \subseteq Standing, passed' \subseteq passed, Overtaken = {}
  PROVE  passed' \subseteq Standing'
  BY DEF Overtaken

\* So it is after a look.
LEMMA LookStep ==
  ASSUME passed \subseteq Standing, UNCHANGED <<status, listed>>, NEW call \in Look,
         \/ UNCHANGED passed
         \/ passed' = passed \union {call} /\ call \in Standing
  PROVE  passed' \subseteq Standing'
  <1>1. Standing' = Standing
    BY DEF Standing, TimesOut, Proceeds, Answers
  <1>2. QED
    BY <1>1

\* The looks are what Standing says.
LEMMA LookFacts ==
  /\ \A call \in Timeouts : call \in Standing <=> TimesOut
  /\ "progress" \in Standing <=> Proceeds
  /\ \A call \in Responses : call \in Standing <=> Answers
  BY DEF Standing, Timeouts, Responses

\* A call that times out, and one that answers, tells a caller who was told nothing.
LEMMA ActEffect ==
  ASSUME RequestInv, Concluded, status # "NONE"
  PROVE  /\ \A call \in Timeouts :
              TimedOut(call) /\ past' = {} =>
                /\ listed /\ status = "DELIVERED" /\ "answer" \notin threads
                /\ callbacks = <<>> /\ callbacks' = <<"failed">>
         /\ \A call \in Responses :
              Answer(call) /\ past' = {} =>
                /\ listed /\ "answer" \notin threads
                /\ callbacks = <<>> /\ callbacks' = <<"response">>
  <1> USE DEF RequestInv, Concluded
  <1>1. ASSUME NEW call \in Timeouts, TimedOut(call), past' = {}
        PROVE  /\ listed /\ status = "DELIVERED" /\ "answer" \notin threads
               /\ callbacks = <<>> /\ callbacks' = <<"failed">>
    <2>1. listed /\ status = "DELIVERED"
      BY <1>1, LookFacts DEF TimedOut, TimesOut
    <2>2. QED
      BY <1>1, <2>1, OutcomeFacts DEF TimedOut
  <1>2. ASSUME NEW call \in Responses, Answer(call), past' = {}
        PROVE  /\ listed /\ "answer" \notin threads
               /\ callbacks = <<>> /\ callbacks' = <<"response">>
    <2>1. listed
      BY <1>2, LookFacts DEF Answer, Answers
    <2>2. "answer" \notin threads
      BY <1>2 DEF Answer, Responses, OrderInv, AnsweredOnce
    <2>3. QED
      BY <1>2, <2>1, <2>2, OutcomeFacts DEF Answer
  <1>3. QED
    BY <1>1, <1>2

\* So does a resource that fails, if the receipt is still listed.
LEMMA UploadFailEffect ==
  ASSUME RequestInv, Concluded, UploadFail, past' = {}
  PROVE  /\ "answer" \notin threads
         /\ \/ callbacks = <<>> /\ callbacks' = <<"failed">>
            \/ callbacks = <<"response">> /\ UNCHANGED callbacks
  <1>1. "answer" \notin threads
    BY NoteFacts DEF UploadFail, Answered
  <1>2. status # "NONE" /\ callbacks # <<"failed">> /\ callbacks \in Outcomes
    BY DEF RequestInv, OrderInv, Issued, Concluded, UploadFail
  <1>3. listed <=> callbacks = <<>>
    BY <1>1, <1>2 DEF Concluded
  <1>4. CASE listed
    BY <1>1, <1>3, <1>4, OutcomeFacts DEF UploadFail
  <1>5. CASE ~listed
    BY <1>1, <1>2, <1>3, <1>5 DEF UploadFail, Outcomes
  <1>6. QED
    BY <1>4, <1>5

\* The callbacks, the list and the status go on telling the same story, and the calls
\* go on having seen what is so.
LEMMA ConcludedStep ==
  ASSUME RequestInv, Next, past' = {}, past = {} => Concluded
  PROVE  past = {} /\ Concluded'
  <1> USE OutcomeFacts DEF RequestInv, OrderInv, Outcomes, receiptVars, transferVars
  <1>1. CASE SendPacket \/ ListPacket \/ SendResource
    BY <1>1 DEF SendPacket, ListPacket, SendResource, Issued, Concluded, Standing, TimesOut, Proceeds, Answers
  <1>2. CASE Expire \/ WaitEnd \/ ReceiveResponse
    BY <1>2 DEF Expire, WaitEnd, ReceiveResponse, Concluded, Standing, TimesOut, Proceeds, Answers
  <1>3. ASSUME UNCHANGED <<past, receiptVars, upload>>, "answer" \in threads' <=> "answer" \in threads,
               NEW call \in Look,
               \/ UNCHANGED passed
               \/ passed' = passed \union {call} /\ call \in Standing
        PROVE  past = {} /\ Concluded'
    BY <1>3, LookStep DEF Concluded
  <1>4. CASE RunExpired \/ WaitTimeout \/ LoseResponse
    <2>1. PICK call \in Timeouts : LookTimeout(call)
      BY <1>4 DEF RunExpired, WaitTimeout, LoseResponse, Timeouts
    <2>2. UNCHANGED passed \/ (passed' = passed \union {call} /\ call \in Standing)
      BY <2>1, LookFacts DEF LookTimeout
    <2>3. QED
      BY <1>3, <1>4, <2>2 DEF RunExpired, WaitTimeout, LoseResponse, Look
  <1>5. CASE Respond \/ CompleteResponse
    <2>1. PICK call \in Responses : LookResponse(call)
      BY <1>5 DEF Respond, CompleteResponse, Responses
    <2>2. UNCHANGED passed \/ (passed' = passed \union {call} /\ call \in Standing)
      BY <2>1, LookFacts DEF LookResponse
    <2>3. QED
      BY <1>3, <1>5, <2>2 DEF Respond, CompleteResponse, Look
  <1>6. CASE AcceptResponse \/ ReceivePart
    <2>1. LookProgress
      BY <1>6 DEF AcceptResponse, ReceivePart
    <2>2. UNCHANGED passed \/ (passed' = passed \union {"progress"} /\ "progress" \in Standing)
      BY <2>1, LookFacts DEF LookProgress
    <2>3. QED
      BY <1>3, <2>1, <2>2 DEF LookProgress, Look
  <1>7. CASE UploadProved
    <2>1. past = {} /\ "answer" \notin threads /\ Overtaken = {}
      BY <1>7, NoteFacts DEF UploadProved, Answered
    <2>2. passed' \subseteq Standing'
      BY <1>7, <2>1, StandingStep DEF UploadProved, Concluded
    <2>3. QED
      BY <1>7, <2>1, <2>2 DEF UploadProved, Issued, Concluded
  <1>8. CASE UploadFail
    <2>1. past = {} /\ Overtaken = {}
      BY <1>8, NoteFacts DEF UploadFail
    <2>2. passed' \subseteq Standing'
      BY <1>8, <2>1, StandingStep DEF UploadFail, Concluded
    <2>3. QED
      BY <1>8, <2>1, <2>2, UploadFailEffect DEF UploadFail, Concluded
  <1>9. ASSUME NEW call \in Timeouts, TimedOut(call) PROVE past = {} /\ Concluded'
    <2>1. past = {} /\ Overtaken = {} /\ status # "NONE"
      BY <1>9, NoteFacts DEF TimedOut, Issued
    <2>2. passed' \subseteq Standing'
      BY <1>9, <2>1, StandingStep DEF TimedOut, Concluded
    <2>3. QED
      BY <1>9, <2>1, <2>2, ActEffect DEF TimedOut, Concluded
  <1>10. ASSUME NEW call \in Responses, Answer(call) PROVE past = {} /\ Concluded'
    <2>1. past = {} /\ Overtaken = {} /\ status # "NONE"
      BY <1>10, NoteFacts DEF Answer, Issued
    <2>2. passed' \subseteq Standing'
      BY <1>10, <2>1, StandingStep DEF Answer, Concluded
    <2>3. QED
      BY <1>10, <2>1, <2>2, ActEffect DEF Answer, Concluded
  <1>11. CASE Progress
    <2>1. past = {} /\ Overtaken = {} /\ status # "NONE"
      BY <1>11, NoteFacts DEF Progress, Issued
    <2>2. passed' \subseteq Standing'
      BY <1>11, <2>1, StandingStep DEF Progress, Concluded
    <2>3. status # "FAILED"
      BY <1>11, <2>1, LookFacts DEF Progress, Proceeds, Concluded
    <2>4. QED
      BY <1>11, <2>1, <2>2, <2>3 DEF Progress, Concluded
  <1>12. CASE EndAnswer
    <2>1. past = {} /\ Overtaken = {}
      BY <1>12, NoteFacts DEF EndAnswer
    <2>2. passed' \subseteq Standing'
      BY <1>12, <2>1, StandingStep DEF EndAnswer, Concluded
    <2>3. QED
      BY <1>12, <2>1, <2>2 DEF EndAnswer, Concluded
  <1>13. CASE Handler
    BY <1>13 DEF Handler, ReceiveRequest, AcceptRequest, CompleteRequest, LoseRequest, Handle,
         EndReply, Concluded, Standing, TimesOut, Proceeds, Answers
  <1>14. ASSUME NEW e \in Ends, Close(e) PROVE past = {} /\ Concluded'
    BY <1>14 DEF Close, Concluded, Standing, TimesOut, Proceeds, Answers
  <1>15. QED
    BY <1>1, <1>2, <1>4, <1>5, <1>6, <1>7, <1>8, <1>9, <1>10, <1>11, <1>12, <1>13, <1>14
    DEF Next, Caller

\* The invariant holds at the start and through every step.
LEMMA RequestInvHolds == Spec => []RequestInv
  <1>1. Init => RequestInv
    <2>1. Init => OrderInv
      BY DEF Init, OrderInv, Issued, HandledOnce, AnsweredOnce
    <2>2. Init => Concluded
      BY OutcomeFacts DEF Init, Concluded, Outcomes
    <2>3. QED
      BY <2>1, <2>2, InitialType DEF RequestInv
  <1>2. RequestInv /\ [Next]_vars => RequestInv'
    <2>1. ASSUME RequestInv, Next PROVE OrderInv' /\ (past' = {} => Concluded')
      BY <2>1, IssuedStep, HandledStep, AnsweredStep, ConcludedStep DEF RequestInv, OrderInv
    <2>2. ASSUME RequestInv, UNCHANGED vars PROVE OrderInv' /\ (past' = {} => Concluded')
      BY <2>2 DEF RequestInv, OrderInv, Issued, HandledOnce, AnsweredOnce, Concluded, Standing,
                  TimesOut, Proceeds, Answers, vars, receiptVars, transferVars
    <2>3. QED
      BY <2>1, <2>2, RequestTypeStep DEF RequestInv
  <1>3. QED
    BY <1>1, <1>2, PTL DEF Spec

\* A receipt is in pending_requests until its caller has been told the outcome,
\* whichever of answer, proof, failure and timeout comes first, if none overtakes another.
THEOREM RequestListedUntilConcluded == Spec => []ListedUntilConcluded
  <1>1. RequestInv => ListedUntilConcluded
    BY DEF RequestInv, Concluded, ListedUntilConcluded
  <1>2. QED
    BY <1>1, RequestInvHolds, PTL

\* A failure once reported is not undone by a late response, part or proof, but for one
\* whose thread looked at the receipt before it failed.
THEOREM RequestFailureStands == Spec => []FailureStands
  <1>1. RequestInv => FailureStands
    BY DEF RequestInv, Concluded, FailureStands
  <1>2. QED
    BY <1>1, RequestInvHolds, PTL

\* The requester makes one callback at most, a response only after the handler
\* replied: each step up to the first incident is one of the call, or none.
THEOREM RequestIsACall == Spec => ConcludesAsPromised
  <1>1. Init => Promise!Init
    BY DEF Init, Promise!Init
  <1>2. RequestInv /\ RequestInv' /\ [Next]_vars
          => [past' = {} => [Promise!Next]_(Promise!vars)]_vars
    <2> SUFFICES ASSUME RequestInv, Next, past' = {} PROVE [Promise!Next]_(Promise!vars)
      OBVIOUS
    <2> USE DEF Promise!Next, Promise!vars, receiptVars, transferVars
    <2>1. past = {} /\ Concluded
      BY ConcludedStep DEF RequestInv
    <2>2. CASE SendPacket \/ SendResource
      BY <2>2 DEF SendPacket, SendResource, Promise!Issue
    <2>3. CASE Handle
      BY <2>3 DEF Handle, Promise!Reply, RequestInv, OrderInv, Issued
    <2>4. CASE UploadFail
      BY <2>1, <2>4, UploadFailEffect DEF UploadFail, Promise!Fail, RequestInv, OrderInv, Issued
    <2>5. ASSUME NEW call \in Timeouts, TimedOut(call) PROVE [Promise!Next]_(Promise!vars)
      <3>1. status # "NONE"
        BY <2>5 DEF TimedOut, RequestInv, OrderInv, Issued
      <3>2. QED
        BY <2>1, <2>5, <3>1, ActEffect DEF TimedOut, Promise!Fail
    <2>6. ASSUME NEW call \in Responses, Answer(call) PROVE [Promise!Next]_(Promise!vars)
      <3>1. status # "NONE" /\ reply # "none"
        BY <2>6 DEF Answer, RequestInv, OrderInv, Issued, AnsweredOnce, Responses
      <3>2. (receipt' # "none") <=> (receipt # "none")
        BY <2>6 DEF Answer, PacketDelivered
      <3>3. QED
        BY <2>1, <2>6, <3>1, <3>2, ActEffect DEF Answer, Promise!Answer
    <2>7. CASE ListPacket \/ Expire \/ RunExpired \/ WaitEnd \/ WaitTimeout \/ ReceiveResponse \/ Respond
      BY <2>7 DEF ListPacket, Expire, RunExpired, WaitEnd, WaitTimeout, ReceiveResponse, Respond
    <2>8. CASE AcceptResponse \/ ReceivePart \/ CompleteResponse \/ LoseResponse
      BY <2>8 DEF AcceptResponse, ReceivePart, CompleteResponse, LoseResponse, LookProgress
    <2>9. CASE UploadProved \/ Progress \/ EndAnswer
      BY <2>9 DEF UploadProved, Progress, EndAnswer, PacketDelivered, RequestInv, OrderInv, Issued
    <2>10. CASE ReceiveRequest \/ AcceptRequest \/ CompleteRequest \/ LoseRequest \/ EndReply
      BY <2>10 DEF ReceiveRequest, AcceptRequest, CompleteRequest, LoseRequest, EndReply
    <2>11. ASSUME NEW e \in Ends, Close(e) PROVE UNCHANGED Promise!vars
      BY <2>11 DEF Close
    <2>12. QED
      BY <2>2, <2>3, <2>4, <2>5, <2>6, <2>7, <2>8, <2>9, <2>10, <2>11 DEF Next, Caller, Handler
  <1>3. QED
    BY <1>1, <1>2, RequestInvHolds, PTL DEF Spec, ConcludesAsPromised

-----------------------------------------------------------------------------
(***************************************************************************)
(* Larger requests are concluded.                                          *)
(***************************************************************************)

\* No callback is taken back.
LEMMA CallbacksGrow ==
  ASSUME TypeOK, Next, callbacks # <<>>
  PROVE  callbacks' # <<>>
  <1>1. callbacks' = callbacks \/ \E what : callbacks' = Append(callbacks, what)
    <2>1. CASE CallerQuiet \/ CallerMarks
      BY <2>1 DEF CallerQuiet, CallerMarks, SendPacket, ListPacket, SendResource, UploadProved, Expire,
         RunExpired, WaitEnd, WaitTimeout, ReceiveResponse, Respond, AcceptResponse, ReceivePart,
         CompleteResponse, LoseResponse, LookProgress, Progress, EndAnswer, receiptVars
    <2>2. CASE \/ UploadFail \/ \E call \in Timeouts : TimedOut(call)
               \/ \E call \in Responses : Answer(call)
      BY <2>2 DEF UploadFail, TimedOut, Answer, Callback
    <2>3. CASE Handler \/ \E e \in Ends : Close(e)
      BY <2>3 DEF Handler, ReceiveRequest, AcceptRequest, CompleteRequest, LoseRequest, Handle, EndReply,
         Close, receiptVars
    <2>4. QED
      BY <2>1, <2>2, <2>3 DEF Next, Caller, CallerQuiet, CallerMarks
  <1>2. QED
    BY <1>1 DEF TypeOK, CallbacksType

\* A listed receipt that times out, or fails, or is answered, is reported.
LEMMA Reported ==
  ASSUME TypeOK
  PROVE  /\ \A call \in Timeouts : TimedOut(call) /\ listed => callbacks' # <<>>
         /\ UploadFail /\ listed => callbacks' # <<>>
         /\ \A call \in Responses : Answer(call) => callbacks' # <<>>
  <1>1. \A what : Callback(what) => callbacks' # <<>>
    BY DEF Callback, TypeOK, CallbacksType
  <1>2. QED
    BY <1>1 DEF TimedOut, UploadFail, Answer

LEMMA PendingStep ==
  ASSUME PendingInv, Next
  PROVE  Untold' /\ ConclusionPending'
  <1> USE DEF PendingInv, Issued, Untold, ConclusionPending, receiptVars, transferVars
  <1>1. callbacks # <<>> => callbacks' # <<>>
    BY CallbacksGrow
  <1>2. CASE SendPacket \/ ListPacket \/ SendResource
    BY <1>2 DEF SendPacket, ListPacket, SendResource
  <1>3. CASE UploadProved
    BY <1>1, <1>3 DEF UploadProved
  <1>4. CASE UploadFail
    <2>1. callbacks' # <<>>
      BY <1>1, <1>4, Reported DEF UploadFail
    <2>2. QED
      BY <1>4, <2>1 DEF UploadFail
  <1>5. ASSUME NEW call \in Timeouts, TimedOut(call) PROVE Untold' /\ ConclusionPending'
    <2>1. callbacks' # <<>>
      BY <1>1, <1>5, Reported DEF TimedOut
    <2>2. QED
      BY <1>5, <2>1 DEF TimedOut
  <1>6. ASSUME NEW call \in Responses, Answer(call) PROVE Untold' /\ ConclusionPending'
    <2>1. callbacks' # <<>>
      BY <1>6, Reported
    <2>2. QED
      BY <1>6, <2>1 DEF Answer
  <1>7. CASE RunExpired \/ WaitEnd \/ WaitTimeout
    BY <1>7 DEF RunExpired, WaitEnd, WaitTimeout, LookTimeout, TimesOut
  <1>8. CASE Expire \/ ReceiveResponse \/ Respond
    BY <1>8 DEF Expire, ReceiveResponse, Respond, LookResponse, Responses
  <1>9. CASE AcceptResponse \/ ReceivePart
    BY <1>9 DEF AcceptResponse, ReceivePart, LookProgress
  <1>10. CASE CompleteResponse \/ LoseResponse
    BY <1>10 DEF CompleteResponse, LoseResponse, LookResponse, LookTimeout
  <1>11. CASE Progress
    BY <1>11 DEF Progress
  <1>12. CASE EndAnswer
    BY <1>1, <1>12 DEF EndAnswer
  <1>13. CASE Handler
    BY <1>13 DEF Handler, ReceiveRequest, AcceptRequest, CompleteRequest, LoseRequest, Handle, EndReply
  <1>14. ASSUME NEW e \in Ends, Close(e) PROVE Untold' /\ ConclusionPending'
    BY <1>14 DEF Close
  <1>15. QED
    BY <1>2, <1>3, <1>4, <1>5, <1>6, <1>7, <1>8, <1>9, <1>10, <1>11, <1>12, <1>13, <1>14
    DEF Next, Caller

\* The safety behind LargeIsConcluded, whatever overtakes whatever: a request sent as a
\* resource is concluded, or its response has begun, or its resource is still being
\* sent, or a thread of RequestReceipt.__response_timeout_job() will report it.
THEOREM RequestConclusionPending == Spec => []ConclusionPending
  <1>1. Init => PendingInv
    BY InitialType DEF Init, PendingInv, Issued, Untold, ConclusionPending
  <1>2. PendingInv /\ [Next]_vars => PendingInv'
    <2>1. ASSUME PendingInv, Next PROVE PendingInv'
      BY <2>1, RequestTypeStep, IssuedStep, PendingStep DEF PendingInv
    <2>2. ASSUME PendingInv, UNCHANGED vars PROVE PendingInv'
      BY <2>2, RequestTypeStep DEF PendingInv, Issued, Untold, ConclusionPending, vars, receiptVars, transferVars
    <2>3. QED
      BY <2>1, <2>2
  <1>3. PendingInv => ConclusionPending
    BY DEF PendingInv
  <1>4. QED
    BY <1>1, <1>2, <1>3, PTL DEF Spec
=============================================================================
