------------------------------ MODULE Request ------------------------------
(***************************************************************************)
(* One request over an RNS.Link (RNS/Link.py): request() and its           *)
(* RequestReceipt at the end "caller", handle_request() at the end         *)
(* "handler", and the response.  A request or response that fits a packet  *)
(* is one, and may be lost; a larger one is a resource, of which only its  *)
(* beginning, its end and its failure matter here: each end of it may fail *)
(* as long as it has not ended.  Time is left out: what may time out may   *)
(* do so at any moment.                                                    *)
(*                                                                         *)
(* Nothing locks a RequestReceipt.  A thread that is to change it looks at *)
(* it first and changes it in a later step, and every other thread may     *)
(* come in between, as it may during the response callback.                *)
(***************************************************************************)
EXTENDS Sequences

Ends == {"caller", "handler"}

VARIABLES
  open,       \* whether each end's link is open
  status,     \* RequestReceipt.status, "NONE" before
  listed,     \* the receipt is in pending_requests
  receipt,    \* status of the PacketReceipt, of a request that fits a packet
  callbacks,  \* the callbacks made to the application
  upload,     \* the resource of a larger request at the caller
  inbox,      \* the same resource at the handler
  reply,      \* how the response is sent
  download,   \* the resource of a larger response at the caller
  threads,    \* the threads that are started and have not ended
  passed,     \* the calls that have looked at the receipt, and will change it
  net,        \* packets on their way
  past        \* what has befallen the receipt

receiptVars  == <<status, listed, receipt, callbacks>>
transferVars == <<upload, inbox, reply, download>>
vars         == <<open, receiptVars, transferVars, threads, passed, net, past>>

Thread == {"handle",   \* runs handle_request()
           "respond",  \* runs handle_response()
           "answer",   \* is in the response callback, called by response_received()
           "expire",   \* runs the timeout callback of the packet receipt
           "wait"}     \* runs __response_timeout_job()

\* The calls of request_timed_out(), by the thread it runs in or by the failed resource
\* of the response, of response_resource_progress(), and of handle_response(), for a
\* response that is a packet or a resource.
Timeouts  == {"expire", "wait", "lose"}
Responses == {"respond", "complete"}
Look      == Timeouts \union {"progress"} \union Responses

Incident == {"OVERTAKEN",   \* after a call looked at the receipt, and before it acted,
                            \* another thread changed what it had seen
             "ANSWERED"}    \* the request's resource was proved, or failed, during the
                            \* response callback

EndsType == open \in [Ends -> BOOLEAN]
ReceiptType ==
  /\ status \in {"NONE", "FAILED", "SENT", "DELIVERED", "RECEIVING", "READY"}
  /\ listed \in BOOLEAN
  /\ receipt \in {"none", "SENT", "DELIVERED", "FAILED"}
CallbacksType == callbacks \in Seq({"response", "failed"})
TransferType ==
  /\ upload \in {"none", "SENDING", "COMPLETE", "FAILED"}
  /\ inbox \in {"none", "RECEIVING", "COMPLETE", "FAILED"}
  /\ reply \in {"none", "PACKET", "SENDING", "ENDED"}
  /\ download \in {"none", "RECEIVING", "COMPLETE", "FAILED"}
ThreadsType == threads \subseteq Thread /\ passed \subseteq Look
NetType == net \subseteq {"REQUEST", "PROOF", "RESPONSE"} /\ past \subseteq Incident

\* Every variable has its type.
TypeOK ==
  EndsType /\ ReceiptType /\ CallbacksType /\ TransferType /\ ThreadsType /\ NetType

Init ==
  /\ open = [e \in Ends |-> TRUE]
  /\ status = "NONE" /\ listed = FALSE /\ receipt = "none" /\ callbacks = <<>>
  /\ upload = "none" /\ inbox = "none" /\ reply = "none" /\ download = "none"
  /\ threads = {} /\ passed = {} /\ net = {} /\ past = {}

\* mutants: a look finds in order what it ought not to
TimesOutListed == listed
ProceedsAlways == TRUE

\* What request_timed_out(), response_resource_progress() and handle_response() look for.
TimesOut == listed /\ status = "DELIVERED"
Proceeds == status # "FAILED"
Answers  == listed /\ status # "FAILED"

\* The calls whose look would succeed.
Standing ==
  (IF TimesOut THEN Timeouts ELSE {}) \union (IF Proceeds THEN {"progress"} ELSE {})
    \union (IF Answers THEN Responses ELSE {})

\* The calls that have looked and not acted yet, whose look would no longer succeed.
Overtaken == (passed \intersect passed' \intersect Standing) \ Standing'

Note(incidents) ==
  past' = past \union incidents \union (IF Overtaken = {} THEN {} ELSE {"OVERTAKEN"})

Callback(what) == callbacks' = Append(callbacks, what)

-----------------------------------------------------------------------------
(***************************************************************************)
(* The request.                                                            *)
(***************************************************************************)

\* request(): a packet is refused on a closed link, a resource is not.  The packet is
\* sent before its receipt is listed.
SendPacket ==
  /\ status = "NONE" /\ receipt = "none" /\ open["caller"]
  /\ receipt' = "SENT" /\ net' = net \union {"REQUEST"}
  /\ UNCHANGED <<open, status, listed, callbacks, transferVars, threads, passed, past>>

ListPacket ==
  /\ status = "NONE" /\ receipt # "none"
  /\ status' = "SENT" /\ listed' = TRUE
  /\ UNCHANGED <<open, receipt, callbacks, transferVars, threads, passed, net, past>>

SendResource ==
  /\ status = "NONE" /\ receipt = "none"
  /\ status' = "SENT" /\ listed' = TRUE /\ upload' = "SENDING"
  /\ UNCHANGED <<open, receipt, callbacks, inbox, reply, download, threads, passed, net, past>>

\* The resource of the request ends during the response callback.
Answered == IF "answer" \in threads THEN {"ANSWERED"} ELSE {}

\* mutant: the thread that waits for the response is not started
UploadProvedUntimed ==
  /\ "PROOF" \in net /\ upload = "SENDING" /\ open["caller"]
  /\ net' = net \ {"PROOF"}
  /\ upload' = "COMPLETE" /\ status' = "DELIVERED"
  /\ UNCHANGED <<open, listed, receipt, callbacks, inbox, reply, download, threads, passed>>
  /\ Note(Answered)

\* RequestReceipt.request_resource_concluded() of a resource that was proved,
\* whatever the response has done to the receipt in the meantime.
UploadProved ==
  /\ "PROOF" \in net /\ upload = "SENDING" /\ open["caller"]
  /\ net' = net \ {"PROOF"}
  /\ upload' = "COMPLETE" /\ status' = "DELIVERED"
  /\ threads' = threads \union {"wait"}
  /\ UNCHANGED <<open, listed, receipt, callbacks, inbox, reply, download, passed>>
  /\ Note(Answered)

\* The same of one that was not.  A receipt no longer listed makes remove()
\* fail, before the callback is made.
UploadFail ==
  /\ upload = "SENDING"
  /\ upload' = "FAILED" /\ status' = "FAILED" /\ listed' = FALSE
  /\ IF listed THEN Callback("failed") ELSE UNCHANGED callbacks
  /\ UNCHANGED <<open, receipt, inbox, reply, download, threads, passed, net>>
  /\ Note(Answered)

\* request_timed_out() looks at the receipt.
LookTimeout(call) == passed' = IF TimesOut THEN passed \union {call} ELSE passed

\* mutant: the receipt stays listed
TimedOutListed(call) ==
  /\ call \in passed /\ passed' = passed \ {call}
  /\ status' = "FAILED" /\ UNCHANGED listed
  /\ IF listed THEN Callback("failed") ELSE UNCHANGED callbacks
  /\ UNCHANGED <<open, receipt, transferVars, threads, net>>
  /\ Note({})

\* request_timed_out(), once it has looked; remove() fails here too when the receipt
\* is no longer listed.
TimedOut(call) ==
  /\ call \in passed /\ passed' = passed \ {call}
  /\ status' = "FAILED" /\ listed' = FALSE
  /\ IF listed THEN Callback("failed") ELSE UNCHANGED callbacks
  /\ UNCHANGED <<open, receipt, transferVars, threads, net>>
  /\ Note({})

\* The sweep over Transport.receipts finds a request's packet timed out, or culls
\* it, which calls the same callback, if RequestReceipt has set it yet.
Expire ==
  /\ receipt = "SENT"
  /\ receipt' = "FAILED"
  /\ threads' = IF status = "NONE" THEN threads ELSE threads \union {"expire"}
  /\ UNCHANGED <<open, status, listed, callbacks, transferVars, passed, net, past>>

RunExpired ==
  /\ "expire" \in threads
  /\ threads' = threads \ {"expire"} /\ LookTimeout("expire")
  /\ UNCHANGED <<open, receiptVars, transferVars, net, past>>

\* __response_timeout_job(): it ends when the status has moved on, or when the
\* response has not come in time.
WaitEnd ==
  /\ "wait" \in threads /\ status # "DELIVERED"
  /\ threads' = threads \ {"wait"}
  /\ UNCHANGED <<open, receiptVars, transferVars, passed, net, past>>

WaitTimeout ==
  /\ "wait" \in threads /\ status = "DELIVERED"
  /\ threads' = threads \ {"wait"} /\ LookTimeout("wait")
  /\ UNCHANGED <<open, receiptVars, transferVars, net, past>>

-----------------------------------------------------------------------------
(***************************************************************************)
(* The handler.                                                            *)
(***************************************************************************)

ReceiveRequest ==
  /\ "REQUEST" \in net /\ open["handler"]
  /\ net' = net \ {"REQUEST"} /\ threads' = threads \union {"handle"}
  /\ UNCHANGED <<open, receiptVars, transferVars, passed, past>>

\* Resource.accept() of the request's resource.
AcceptRequest ==
  /\ upload = "SENDING" /\ inbox = "none" /\ open["handler"]
  /\ inbox' = "RECEIVING"
  /\ UNCHANGED <<open, receiptVars, upload, reply, download, threads, passed, net, past>>

\* The resource is assembled and proved; Link.request_resource_concluded().
CompleteRequest ==
  /\ inbox = "RECEIVING" /\ open["handler"]
  /\ inbox' = "COMPLETE"
  /\ threads' = threads \union {"handle"} /\ net' = net \union {"PROOF"}
  /\ UNCHANGED <<open, receiptVars, upload, reply, download, passed, past>>

LoseRequest ==
  /\ inbox = "RECEIVING"
  /\ inbox' = "FAILED"
  /\ UNCHANGED <<open, receiptVars, upload, reply, download, threads, passed, net, past>>

\* handle_request(): no response when the link is not open any more, the path
\* unknown, the caller not allowed, or the generator fails or returns None.
Handle ==
  /\ "handle" \in threads
  /\ threads' = threads \ {"handle"}
  /\ \/ UNCHANGED <<reply, net>>
     \/ open["handler"] /\ reply' = "PACKET" /\ net' = net \union {"RESPONSE"}
     \/ open["handler"] /\ reply' = "SENDING" /\ UNCHANGED net
  /\ UNCHANGED <<open, receiptVars, upload, inbox, download, passed, past>>

\* The response's resource ends at the handler, proved or not.
EndReply ==
  /\ reply = "SENDING"
  /\ reply' = "ENDED"
  /\ UNCHANGED <<open, receiptVars, upload, inbox, download, threads, passed, net, past>>

-----------------------------------------------------------------------------
(***************************************************************************)
(* The response.                                                           *)
(***************************************************************************)

\* The receipt of a request's packet counts as delivered once there is a response.
PacketDelivered == receipt' = IF receipt = "none" THEN "none" ELSE "DELIVERED"

\* handle_response() and response_received() look at the link and at the receipt.
LookResponse(call) ==
  passed' = IF open["caller"] /\ Answers THEN passed \union {call} ELSE passed

ReceiveResponse ==
  /\ "RESPONSE" \in net /\ open["caller"]
  /\ net' = net \ {"RESPONSE"} /\ threads' = threads \union {"respond"}
  /\ UNCHANGED <<open, receiptVars, transferVars, passed, past>>

Respond ==
  /\ "respond" \in threads
  /\ threads' = threads \ {"respond"} /\ LookResponse("respond")
  /\ UNCHANGED <<open, receiptVars, transferVars, net, past>>

\* response_resource_progress(): a receipt that has failed cancels the resource.
LookProgress ==
  /\ IF Proceeds
     THEN passed' = passed \union {"progress"} /\ download' = "RECEIVING"
     ELSE download' = "FAILED" /\ UNCHANGED passed
  /\ UNCHANGED <<open, receiptVars, upload, inbox, reply, threads, net, past>>

\* The advertisement of the response's resource is taken for a listed receipt.
AcceptResponse ==
  /\ reply = "SENDING" /\ download = "none" /\ open["caller"] /\ listed
  /\ LookProgress

\* A part of the response arrives.
ReceivePart ==
  /\ download = "RECEIVING" /\ "progress" \notin passed /\ open["caller"]
  /\ LookProgress

\* response_resource_progress(), once it has looked.
Progress ==
  /\ "progress" \in passed /\ passed' = passed \ {"progress"}
  /\ status' = "RECEIVING" /\ PacketDelivered
  /\ UNCHANGED <<open, listed, callbacks, transferVars, threads, net>>
  /\ Note({})

\* response_resource_concluded(): the resource is assembled, which the call of
\* response_resource_progress() for its last part precedes.
CompleteResponse ==
  /\ download = "RECEIVING" /\ "progress" \notin passed
  /\ download' = "COMPLETE" /\ LookResponse("complete")
  /\ UNCHANGED <<open, receiptVars, upload, inbox, reply, threads, net, past>>

\* The same: it has failed, or was cancelled.
LoseResponse ==
  /\ download = "RECEIVING"
  /\ download' = "FAILED" /\ LookTimeout("lose")
  /\ UNCHANGED <<open, receiptVars, upload, inbox, reply, threads, net, past>>

\* response_received(), once it has looked, up to the response callback.
Answer(call) ==
  /\ call \in passed /\ passed' = passed \ {call}
  /\ status' = "READY" /\ PacketDelivered /\ Callback("response")
  /\ threads' = threads \union {"answer"}
  /\ UNCHANGED <<open, listed, transferVars, net>>
  /\ Note({})

\* The response callback returns and handle_response() drops the receipt.
EndAnswer ==
  /\ "answer" \in threads
  /\ threads' = threads \ {"answer"} /\ listed' = FALSE
  /\ UNCHANGED <<open, status, receipt, callbacks, transferVars, passed, net>>
  /\ Note({})

\* The link closes at one end.  link_closed() cancels the resources there, which
\* may as well fail by themselves; it leaves the requests alone.
Close(e) ==
  /\ open[e]
  /\ open' = [open EXCEPT ![e] = FALSE]
  /\ UNCHANGED <<receiptVars, transferVars, threads, passed, net, past>>

-----------------------------------------------------------------------------
Caller ==
  \/ SendPacket \/ ListPacket \/ SendResource
  \/ UploadProved \/ UploadFail
  \/ Expire \/ RunExpired \/ WaitEnd \/ WaitTimeout
  \/ \E call \in Timeouts : TimedOut(call)
  \/ ReceiveResponse \/ Respond \/ AcceptResponse \/ ReceivePart \/ Progress
  \/ CompleteResponse \/ LoseResponse
  \/ \E call \in Responses : Answer(call)
  \/ EndAnswer

Handler ==
  \/ ReceiveRequest \/ AcceptRequest \/ CompleteRequest \/ LoseRequest
  \/ Handle \/ EndReply

Next == Caller \/ Handler \/ \E e \in Ends : Close(e)

Spec == Init /\ [][Next]_vars

\* The sweep of the receipts, the threads started and the callback go on, and
\* the watchdog of a resource ends it.  The network owes nothing.
Fairness ==
  /\ WF_vars(UploadFail) /\ WF_vars(LoseResponse)
  /\ WF_vars(Expire) /\ WF_vars(RunExpired)
  /\ WF_vars(WaitEnd) /\ WF_vars(WaitTimeout) /\ \A call \in Timeouts : WF_vars(TimedOut(call))
  /\ WF_vars(Progress) /\ \A call \in Responses : WF_vars(Answer(call))
  /\ WF_vars(Handle) /\ WF_vars(Respond) /\ WF_vars(EndAnswer)

FairSpec == Spec /\ Fairness

-----------------------------------------------------------------------------
(***************************************************************************)
(* Properties.                                                             *)
(***************************************************************************)

\* A receipt leaves pending_requests if and only if its caller has been told of
\* the outcome, whichever of answer, proof, failure and timeout comes first, unless
\* one of them has overtaken another.
ListedUntilConcluded ==
  status # "NONE" /\ past = {} => (listed <=> callbacks = <<>> \/ "answer" \in threads)

\* A failure that was reported stands: neither a late part of the response nor a
\* late proof changes it, but for one that had looked at the receipt before it failed.
FailureStands == callbacks = <<"failed">> /\ past = {} => status = "FAILED"

\* The request is the call its documentation promises: answered once, and only
\* with a response the handler gave, or failed once.  A timeout, a failure or an
\* answer that was overtaken, and a proof or a failure of the upload during the
\* response callback, are what may break that promise, and nothing else is.
Promise == INSTANCE Call
             WITH issued <- status # "NONE" \/ receipt # "none", replied <- reply # "none",
                  outcome <- callbacks
ConcludesAsPromised ==
  Promise!Init /\ [][past' = {} => [Promise!Next]_(Promise!vars)]_vars

\* A request sent as a resource is concluded unless a response's resource has
\* begun: a lost request fails, one without a response times out, whichever thread
\* overtakes which.  One that fits a packet is not: request_timed_out() acts on a
\* receipt that is DELIVERED only.
LargeIsConcluded ==
  upload # "none" ~> (callbacks # <<>> \/ download # "none")
=============================================================================
