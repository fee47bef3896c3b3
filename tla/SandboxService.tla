---------------------------- MODULE SandboxService ----------------------------
(***************************************************************************)
(* util/_sandbox/service.py: code in a sandbox calls methods of the host   *)
(* process.  A call is a request file in the sandbox; the host, which can  *)
(* only execute commands there, polls the directory, runs the methods of   *)
(* the requests it lists, writes a response file for each and removes the  *)
(* request.  The client polls for its response and removes it.             *)
(*                                                                         *)
(* Files are not written atomically and every command of the host may fail *)
(* or time out, with or without its effect.                                *)
(***************************************************************************)
EXTENDS Integers

CONSTANTS
  Calls,      \* calls made in the sandbox
  MaxFailures \* bounds the failed commands of each call

ASSUME ServiceAssumption == MaxFailures \in [Calls -> Nat]

VARIABLES
  client,   \* each call: new | writing | waiting | loaded | result | error
  loaded,   \* the answer its client has read
  request,  \* its request file: absent | partial | full
  response, \* its response file: absent | partial | result | error
  service,  \* sleeping | handling | stopped
  handler,  \* none | reading | calling | writing | opened | removing | done
  answer,   \* what the handler has to write
  runs,     \* how often the method has run
  outcomes, \* what its runs have come to
  failed  \* commands that failed

clientVars == <<client, loaded>>
handlerVars == <<handler, answer>>
history == <<runs, outcomes, failed>>
serviceVars == <<clientVars, request, response, service, handlerVars, history>>

Answers == {"result", "error"}

ServiceTypeOK ==
  /\ client \in [Calls -> {"new", "writing", "waiting", "loaded"} \cup Answers]
  /\ loaded \in [Calls -> {"none"} \cup Answers]
  /\ request \in [Calls -> {"absent", "partial", "full"}]
  /\ response \in [Calls -> {"absent", "partial"} \cup Answers]
  /\ service \in {"sleeping", "handling", "stopped"}
  /\ handler \in [Calls -> {"none", "reading", "calling", "writing", "opened",
                            "removing", "done"}]
  /\ answer \in [Calls -> {"none"} \cup Answers]
  /\ runs \in [Calls -> Nat]
  /\ outcomes \in [Calls -> SUBSET Answers]
  /\ failed \in [Calls -> Nat]

ServiceInit ==
  /\ client = [c \in Calls |-> "new"]
  /\ loaded = [c \in Calls |-> "none"]
  /\ request = [c \in Calls |-> "absent"]
  /\ response = [c \in Calls |-> "absent"]
  /\ service = "sleeping"
  /\ handler = [c \in Calls |-> "none"]
  /\ answer = [c \in Calls |-> "none"]
  /\ runs = [c \in Calls |-> 0]
  /\ outcomes = [c \in Calls |-> {}]
  /\ failed = [c \in Calls |-> 0]

-----------------------------------------------------------------------------
(* The client code in the sandbox *)

OpenRequest(c) ==
  /\ client[c] = "new"
  /\ client' = [client EXCEPT ![c] = "writing"]
  /\ request' = [request EXCEPT ![c] = "partial"]
  /\ UNCHANGED <<loaded, response, service, handlerVars, history>>

WriteRequest(c) ==
  /\ client[c] = "writing"
  /\ client' = [client EXCEPT ![c] = "waiting"]
  /\ request' = [request EXCEPT ![c] = "full"]
  /\ UNCHANGED <<loaded, response, service, handlerVars, history>>

Loadable_Result(c) == response[c] = "result"  \* mutant: an error response is waited over

(* A file that does not parse is left for the next attempt. *)
Loadable(c) == response[c] \in Answers

Load(c) ==
  /\ client[c] = "waiting" /\ Loadable(c)
  /\ client' = [client EXCEPT ![c] = "loaded"]
  /\ loaded' = [loaded EXCEPT ![c] = response[c]]
  /\ UNCHANGED <<request, response, service, handlerVars, history>>

\* mutant: the response is read and not removed
Unlink_Kept(c) ==
  /\ client[c] = "loaded"
  /\ client' = [client EXCEPT ![c] = loaded[c]]
  /\ UNCHANGED <<response, loaded, request, service, handlerVars, history>>

(* Remove the response, then return its result or raise its error. *)
Unlink(c) ==
  /\ client[c] = "loaded"
  /\ response' = [response EXCEPT ![c] = "absent"]
  /\ client' = [client EXCEPT ![c] = loaded[c]]
  /\ UNCHANGED <<loaded, request, service, handlerVars, history>>

Client(c) == OpenRequest(c) \/ WriteRequest(c) \/ Load(c) \/ Unlink(c)

-----------------------------------------------------------------------------
(* The host: one pass over the requests present *)

\* mutant: a pass begins before the handlers of the last one have finished
Idle_Ever == service # "stopped"

Idle == service = "sleeping"

StartPass ==
  /\ Idle
  /\ \E c \in Calls : request[c] # "absent"
  /\ service' = "handling"
  /\ handler' = [c \in Calls |-> IF request[c] # "absent" THEN "reading" ELSE handler[c]]
  /\ answer' = [c \in Calls |-> "none"]
  /\ UNCHANGED <<clientVars, request, response, history>>

(* The task group of the pass waits for all its handlers. *)
EndPass ==
  /\ service = "handling"
  /\ \A c \in Calls : handler[c] \in {"none", "done"}
  /\ service' = "sleeping"
  /\ handler' = [c \in Calls |-> "none"]
  /\ UNCHANGED <<clientVars, request, response, answer, history>>

Halt ==
  /\ service' = "stopped"
  /\ handler' = [c \in Calls |-> "none"]
  /\ UNCHANGED <<clientVars, request, response, answer, history>>

(* until() holds between two passes, or the enclosing scope is cancelled,  *)
(* which interrupts the handlers wherever they wait.                       *)
Stop == service # "stopped" /\ Halt

-----------------------------------------------------------------------------
(* The handler of a request *)

Goto(c, at) == handler' = [handler EXCEPT ![c] = at]

Reply(c, what) ==
  /\ Goto(c, "writing")
  /\ answer' = [answer EXCEPT ![c] = what]

(* A request that does not parse yet is left for the next pass. *)
Read(c) ==
  /\ handler[c] = "reading"
  /\ Goto(c, IF request[c] = "full" THEN "calling" ELSE "done")
  /\ UNCHANGED <<clientVars, request, response, service, answer, history>>

ComesTo(c, what) ==
  /\ Reply(c, what)
  /\ outcomes' = [outcomes EXCEPT ![c] = @ \cup {what}]

Refused(c) == runs[c] = 0 /\ outcomes[c] # {}

MethodEnds(c) ==
  /\ handler[c] = "calling" /\ ~Refused(c)
  /\ \E what \in Answers : ComesTo(c, what)
  /\ runs' = [runs EXCEPT ![c] = @ + 1]
  /\ UNCHANGED <<clientVars, request, response, service, failed>>

UnknownMethod(c) ==
  /\ handler[c] = "calling" /\ runs[c] = 0
  /\ ComesTo(c, "error")
  /\ UNCHANGED <<clientVars, request, response, service, runs, failed>>

(* A LimitExceededError cancels the sample: the error response that should *)
(* follow is not written, since writing awaits in a cancelled scope.       *)
MethodExceedsLimit(c) == handler[c] = "calling" /\ ~Refused(c) /\ Halt

\* mutant: the request is removed before its response is written
OpenResponse_RemovesFirst(c) ==
  /\ handler[c] = "writing"
  /\ response' = [response EXCEPT ![c] = "partial"]
  /\ request' = [request EXCEPT ![c] = "absent"]
  /\ Goto(c, "opened")
  /\ UNCHANGED <<clientVars, service, answer, history>>

(* tee truncates the response and then writes it. *)
OpenResponse(c) ==
  /\ handler[c] = "writing"
  /\ response' = [response EXCEPT ![c] = "partial"]
  /\ Goto(c, "opened")
  /\ UNCHANGED <<clientVars, request, service, answer, history>>

(* A file its client unlinked in the meantime stays absent. *)
Written(c) == IF response[c] = "absent" THEN "absent" ELSE answer[c]

WriteResponse(c) ==
  /\ handler[c] = "opened"
  /\ response' = [response EXCEPT ![c] = Written(c)]
  /\ Goto(c, "removing")
  /\ UNCHANGED <<clientVars, request, service, answer, history>>

RemoveRequest(c) ==
  /\ handler[c] = "removing"
  /\ request' = [request EXCEPT ![c] = "absent"]
  /\ Goto(c, "done")
  /\ UNCHANGED <<clientVars, response, service, answer, history>>

-----------------------------------------------------------------------------
(* Failed commands *)

CountFailure(c) ==
  /\ failed[c] < MaxFailures[c]
  /\ failed' = [failed EXCEPT ![c] = @ + 1]
  /\ UNCHANGED <<clientVars, service, runs, outcomes>>

\* mutant: a failure to deliver is only logged, as for the error response
Recover_Logged(c) == Goto(c, "done") /\ UNCHANGED answer

(* A failure to write a result, or to remove its request, is reported as an *)
(* error response; a failure of that one is logged, and the request stays.  *)
Recover(c) ==
  IF answer[c] = "result"
  THEN Reply(c, "error")
  ELSE Goto(c, "done") /\ UNCHANGED answer

ReadFails(c) ==
  /\ handler[c] = "reading"
  /\ CountFailure(c)
  /\ Goto(c, "done")
  /\ UNCHANGED <<request, response, answer>>

(* Before or after it opened the file, or having written all of it. *)
WriteFails(c) ==
  /\ handler[c] \in {"writing", "opened"}
  /\ CountFailure(c)
  /\ response' \in {response,
                    [response EXCEPT ![c] = IF handler[c] = "opened" THEN Written(c) ELSE answer[c]]}
  /\ Recover(c)
  /\ UNCHANGED request

RemoveFails(c) ==
  /\ handler[c] = "removing"
  /\ CountFailure(c)
  /\ request' \in {request, [request EXCEPT ![c] = "absent"]}
  /\ Recover(c)
  /\ UNCHANGED response

CommandFails(c) == ReadFails(c) \/ WriteFails(c) \/ RemoveFails(c)

Handler(c) == \/ Read(c) \/ MethodEnds(c) \/ UnknownMethod(c)
              \/ OpenResponse(c) \/ WriteResponse(c) \/ RemoveRequest(c)

Pass == StartPass \/ EndPass

ServiceNext == \/ Pass \/ Stop
               \/ \E c \in Calls : \/ Client(c) \/ Handler(c) \/ CommandFails(c)
                                   \/ MethodExceedsLimit(c)

ServiceSpec == ServiceInit /\ [][ServiceNext]_serviceVars

(* The client and the host keep polling, commands and methods end. *)
FairServiceSpec ==
  /\ ServiceSpec
  /\ WF_serviceVars(Pass)
  /\ \A c \in Calls : WF_serviceVars(Client(c)) /\ WF_serviceVars(Handler(c))

-----------------------------------------------------------------------------
(* Properties *)

(* A client gets one answer, the outcome of its own method unless a        *)
(* command failed, and the method runs again only for a failed command.    *)
CallState == [c \in Calls |-> IF client[c] \in {"writing", "waiting", "loaded"}
                              THEN "sent" ELSE client[c]]
MayAnswer == [c \in Calls |-> outcomes[c] \cup (IF failed[c] > 0 THEN {"error"} ELSE {})]
Remote == INSTANCE RemoteCall WITH call <- CallState, outcomes <- MayAnswer, failures <- failed
ImplementsRemoteCall == Remote!Spec

Served(c) == client[c] \in Answers

(* A call of which no run raised or was refused does not run its method a  *)
(* second time because of a single failed command: the error response      *)
(* makes up for a first failure, whichever command it was.  A method that  *)
(* raised may run again after one, if its error response could not be      *)
(* written.                                                                *)
ResultRunsOnce ==
  \A c \in Calls : (runs[c] > 1 /\ "error" \notin outcomes[c]) => failed[c] > 1

(* A client that waits while no handler works for it has its request or a  *)
(* complete response on disk: an answer is destroyed only by two failures  *)
(* (the rm of the request, then the tee of the error response).            *)
NotForgotten ==
  \A c \in Calls :
    (/\ client[c] = "waiting" /\ handler[c] \in {"none", "done"}
     /\ service # "stopped" /\ failed[c] < 2)
      => (request[c] = "full" \/ response[c] \in Answers)

(* Nothing is left in the sandbox by calls for which no command failed, so *)
(* that a later pass does not answer them again.                           *)
NoLeftovers ==
  service = "sleeping" =>
    \A c \in Calls :
      (Served(c) /\ failed[c] = 0) => (request[c] = "absent" /\ response[c] = "absent")

(* What is on disk between two passes is what the calls still need, no     *)
(* less and no more.                                                       *)
FilesAsNeeded == ServiceTypeOK /\ NotForgotten /\ NoLeftovers

(* With at most one failed command, a call ends unless the service stops.  *)
EveryCallServed ==
  \A c \in Calls :
    client[c] = "waiting" ~> (Served(c) \/ service = "stopped" \/ failed[c] > 1)
=============================================================================
