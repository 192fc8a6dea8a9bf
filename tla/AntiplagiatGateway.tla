------------------------ MODULE AntiplagiatGateway -------------------------
(***************************************************************************)
(* The gateway of AntiplagiatSystem/: it picks a service by the path,      *)
(* rewrites some of the paths, forwards the request and waits for the      *)
(* answer.                                                                 *)
(*                                                                         *)
(* Listener and clients of cpprest share one pool of threads.  A handler   *)
(* runs on a thread of the pool and waits on it, in a get(), for events    *)
(* that another thread of the pool has to process: the body of its own     *)
(* request, and the answer, the error or the timeout of the service.       *)
(*                                                                         *)
(* Outside the model: headers, and the query, which is not forwarded.      *)
(***************************************************************************)
EXTENDS Naturals, FiniteSets

CONSTANTS
    Requests,
    Method, Path,  \* of each request
    Threads        \* the pool, 40 threads in cpprest

Services == {"files", "analysis"}

ASSUME RequestsAssumption ==
    /\ DOMAIN Method = Requests
    /\ DOMAIN Path = Requests

ASSUME ThreadsAssumption == Threads \in Nat \ {0}

VARIABLES
    waiting,       \* what the handler of each request waits for
    reply          \* status code each client got

vars == <<waiting, reply>>

Init ==
    /\ waiting = [r \in Requests |-> "arrival"]
    /\ reply = [r \in Requests |-> "none"]

-----------------------------------------------------------------------------
(* Routing.                                                                  *)

IsFileServiceRequest(r) == Path[r] \in {"/api/files/1", "/api/upload", "/api/works"}

IsAnalysisServiceRequest(r) == Path[r] \in {"/api/reports/1", "/api/analyze"}

Target(r) == IF IsFileServiceRequest(r) THEN "files" ELSE "analysis"

(* The path the service gets: /api is taken off where the code says so.      *)
TargetPath(r) ==
    CASE Path[r] = "/api/files/1" -> "/files/1"
      [] Path[r] = "/api/reports/1" -> "/reports/1"
      [] Path[r] = "/api/analyze" -> "/analyze"
      [] OTHER -> Path[r]

(* FileHandler and Analyzer support GET and POST on these paths.             *)
Endpoints(service) ==
    IF service = "files"
    THEN {<<"GET", "/files/1">>, <<"GET", "/works/1">>, <<"GET", "/reports">>, <<"POST", "/upload">>}
    ELSE {<<"GET", "/reports/1">>, <<"POST", "/analyze">>}

(* What a service that is there answers.                                     *)
Status(r) ==
    IF <<Method[r], TargetPath(r)>> \in Endpoints(Target(r)) THEN "2xx"
    ELSE IF Method[r] \in {"GET", "POST"} THEN "404" ELSE "405"

ReadsBody(r) == Method[r] = "POST" \/ (Method[r] = "PUT" /\ Target(r) = "files")

-----------------------------------------------------------------------------
(* The pool.                                                                 *)

Blocked(r) == waiting[r] \in Services \cup {"body", "files health", "analysis health"}

Exhausted == Cardinality({r \in Requests : Blocked(r)}) >= Threads

(* A thread takes up a request, or the event that request waits for.         *)
ThreadIsFree == ~Exhausted

-----------------------------------------------------------------------------
(* Handlers.                                                                 *)

WaitsFor(r, event) ==
    /\ waiting' = [waiting EXCEPT ![r] = event]
    /\ UNCHANGED reply

Replies(r, status) ==
    /\ waiting' = [waiting EXCEPT ![r] = "nothing"]
    /\ reply' = [reply EXCEPT ![r] = status]

IsForwarded(r) ==
    Method[r] # "OPTIONS" /\ (IsFileServiceRequest(r) \/ IsAnalysisServiceRequest(r))

HandleRequest(r) ==
    /\ waiting[r] = "arrival"
    /\ ThreadIsFree
    /\ \/ Path[r] = "/health" /\ WaitsFor(r, "files health")
       \/ Path[r] # "/health" /\ Method[r] = "OPTIONS" /\ Replies(r, "2xx")
       \/ IsForwarded(r) /\ WaitsFor(r, IF ReadsBody(r) THEN "body" ELSE Target(r))
       \/ /\ Path[r] # "/health" /\ Method[r] # "OPTIONS" /\ ~IsForwarded(r)
          /\ Replies(r, "404")

(* Mutant: the request is forwarded although it has been answered.           *)
BodyArrives_GoesOn(r) ==
    /\ waiting[r] = "body"
    /\ ThreadIsFree
    /\ waiting' = [waiting EXCEPT ![r] = Target(r)]
    /\ reply' \in {reply, [reply EXCEPT ![r] = "502"]}

(* extract_json().get(): a body that is no JSON throws, like a service that  *)
(* cannot be reached.                                                        *)
BodyArrives(r) ==
    /\ waiting[r] = "body"
    /\ ThreadIsFree
    /\ WaitsFor(r, Target(r)) \/ Replies(r, "502")

(* Mutant: nothing catches what get() throws.                                *)
ServiceAnswers_Uncaught(r) ==
    /\ waiting[r] \in Services
    /\ ThreadIsFree
    /\ Replies(r, Status(r)) \/ WaitsFor(r, "nothing")

ServiceAnswers(r) ==
    /\ waiting[r] \in Services
    /\ ThreadIsFree
    /\ Replies(r, Status(r)) \/ Replies(r, "502")

(* handle_health() asks one service after the other and catches everything.  *)
HealthAnswers(r) ==
    /\ ThreadIsFree
    /\ \/ waiting[r] = "files health" /\ WaitsFor(r, "analysis health")
       \/ waiting[r] = "analysis health" /\ Replies(r, "2xx")

Next ==
    \E r \in Requests :
        HandleRequest(r) \/ BodyArrives(r) \/ ServiceAnswers(r) \/ HealthAnswers(r)

(* A service answers, refuses the connection or is timed out by the client,  *)
(* and a free thread processes the event.  Of clients nothing is assumed,    *)
(* not even that they send the body they have announced.                     *)
Fairness == \A r \in Requests : WF_vars(ServiceAnswers(r)) /\ WF_vars(HealthAnswers(r))

Spec == Init /\ [][Next]_vars
FairSpec == Spec /\ Fairness

-----------------------------------------------------------------------------
(* Properties.                                                               *)

(* Types; and a request is answered exactly when nothing is waited for any   *)
(* more: no path through the handlers replies twice or not at all.           *)
TypeOK ==
    /\ waiting \in [Requests -> Services \cup
          {"arrival", "body", "files health", "analysis health", "nothing"}]
    /\ reply \in [Requests -> {"none", "2xx", "404", "405", "502"}]
    /\ \A r \in Requests : waiting[r] = "nothing" <=> reply[r] # "none"

(* route_to_file_service, handle_health: a forwarded request is answered,    *)
(* whatever becomes of the service, unless the pool runs out of threads.     *)
ForwardedIsAnswered ==
    \A r \in Requests :
        Blocked(r) /\ waiting[r] # "body" ~> reply[r] # "none" \/ Exhausted
=============================================================================
