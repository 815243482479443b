--------------------------- MODULE RetryingClient ---------------------------
(***************************************************************************)
(* Goroutines issuing operations through one ReconnectingTransport with the *)
(* retry loops of modbus.Client.send and ethernetip.Client.do: obtain the   *)
(* shared session, run the operation, and on a transport error reset this   *)
(* session and try again.  The device may drop a session or stay silent at  *)
(* any moment, and one goroutine may close the client under the others.     *)
(***************************************************************************)
EXTENDS ReconnectingTransport

CONSTANTS
    Protocol,   \* "modbus" or "ethernetip": which retry loop
    Retries,    \* the client's retries option
    MaxOps      \* bound: operations each goroutine issues

ASSUME RetryAssumption ==
    /\ Protocol \in {"modbus", "ethernetip"}
    /\ Retries \in Int
    /\ MaxOps \in Nat

VARIABLES
    at,         \* where the retry loop is: "idle", "loop", "conn", "op", "reset"
    tries,      \* i: attempts already spent
    ops,        \* operations started so far
    result,     \* outcome of the last operation
    saw,        \* sessions on which the current operation met a transport error
    refused,    \* Conn errors the current operation met
    broken,     \* sessions the device or the network dropped
    failed      \* sessions some operation ever saw fail

cvars == <<at, tries, ops, result, saw, refused, broken, failed>>
vars == <<tvars, cvars>>

ClientInit ==
    /\ Init
    /\ at = [c \in Caller |-> "idle"]
    /\ tries = [c \in Caller |-> 0]
    /\ ops = [c \in Caller |-> 0]
    /\ result = [c \in Caller |-> "none"]
    /\ saw = [c \in Caller |-> {}]
    /\ refused = [c \in Caller |-> 0]
    /\ broken = {}
    /\ failed = {}

Endless == Protocol = "ethernetip" /\ Retries < 0

(* The loop conditions: i < 1 + retries, and retries < 0 || i <= retries. *)
MoreAttempts(i) ==
    IF Protocol = "modbus" THEN i < 1 + Retries ELSE Retries < 0 \/ i <= Retries

(* i++; with endless retries the loop never reads i, so it is not counted. *)
SpendAttempt(c) == tries' = IF Endless THEN tries ELSE [tries EXCEPT ![c] = @ + 1]

StartOp(c) ==
    /\ at[c] = "idle"
    /\ ops[c] < MaxOps
    /\ ops' = [ops EXCEPT ![c] = @ + 1]
    /\ at' = [at EXCEPT ![c] = "loop"]
    /\ tries' = [tries EXCEPT ![c] = 0]
    /\ result' = [result EXCEPT ![c] = "none"]
    /\ saw' = [saw EXCEPT ![c] = {}]
    /\ refused' = [refused EXCEPT ![c] = 0]
    /\ UNCHANGED <<tvars, broken, failed>>

Finish(c, outcome) ==
    /\ at' = [at EXCEPT ![c] = "idle"]
    /\ result' = [result EXCEPT ![c] = outcome]

LoopHead(c) ==
    /\ at[c] = "loop"
    /\ \/ /\ MoreAttempts(tries[c])
          /\ at' = [at EXCEPT ![c] = "conn"]
          /\ UNCHANGED result
       \/ ~MoreAttempts(tries[c]) /\ Finish(c, "exhausted")
    /\ UNCHANGED <<tvars, tries, ops, saw, refused, broken, failed>>

(* Mutant of GetConn: a Conn error is retried without spending an attempt. *)
GetConnInPlace(c) ==
    /\ at[c] = "conn"
    /\ Conn(c)
    /\ IF pc'[c] = "out" /\ got'[c] # 0 THEN at' = [at EXCEPT ![c] = "op"] ELSE UNCHANGED at
    /\ UNCHANGED <<tries, refused, ops, result, saw, broken, failed>>

(* One step of transport.Conn; its error costs an attempt.  ethernetip.do    *)
(* with retries = 0 returns it at once, which is what the loop test does too. *)
GetConn(c) ==
    /\ at[c] = "conn"
    /\ Conn(c)
    /\ \/ pc'[c] # "out" /\ UNCHANGED <<at, tries, refused>>
       \/ /\ pc'[c] = "out" /\ got'[c] # 0
          /\ at' = [at EXCEPT ![c] = "op"]
          /\ UNCHANGED <<tries, refused>>
       \/ /\ pc'[c] = "out" /\ got'[c] = 0
          /\ at' = [at EXCEPT ![c] = "loop"]
          /\ SpendAttempt(c)
          /\ refused' = IF Endless THEN refused ELSE [refused EXCEPT ![c] = @ + 1]
    /\ UNCHANGED <<ops, result, saw, broken, failed>>

Usable(s) == s \in live /\ s \notin broken

(* The device answered; a ModbusError, an exception response or a cipError   *)
(* is an answer, and is returned without another attempt.                    *)
OpAnswered(c) ==
    /\ at[c] = "op"
    /\ Usable(got[c])
    /\ \E outcome \in {"ok", "rejected"} : Finish(c, outcome)
    /\ UNCHANGED <<tvars, tries, ops, saw, refused, broken, failed>>

(* Transport error: the session is dead, or no answer came in time, in which *)
(* case the device may well have executed the request.                       *)
OpFails(c) ==
    /\ at[c] = "op"
    /\ at' = [at EXCEPT ![c] = "reset"]
    /\ saw' = [saw EXCEPT ![c] = @ \cup {got[c]}]
    /\ failed' = failed \cup {got[c]}
    /\ UNCHANGED <<tvars, tries, ops, result, refused, broken>>

ResetConn(c) ==
    /\ at[c] = "reset"
    /\ Reset(c)
    /\ at' = [at EXCEPT ![c] = "loop"]
    /\ SpendAttempt(c)
    /\ UNCHANGED <<ops, result, saw, refused, broken, failed>>

(* Client.Close from a goroutine that is not inside an operation. *)
CloseClient(c) ==
    /\ at[c] = "idle"
    /\ Close(c)
    /\ UNCHANGED cvars

(* Environment: the connection is lost. *)
DropSession(s) ==
    /\ Usable(s)
    /\ broken' = broken \cup {s}
    /\ UNCHANGED <<tvars, at, tries, ops, result, saw, refused, failed>>

Work(c) == LoopHead(c) \/ GetConn(c) \/ OpAnswered(c) \/ OpFails(c) \/ ResetConn(c)

ClientNext ==
    \/ \E c \in Caller : StartOp(c) \/ Work(c) \/ CloseClient(c)
    \/ \E s \in live : DropSession(s)

(* sync.RWMutex is starvation-free, and connector.Connect and every          *)
(* operation return (dial timeout, send deadline), hence strong fairness on  *)
(* a goroutine's own steps.                                                  *)
ClientSpec ==
    ClientInit /\ [][ClientNext]_vars /\ \A c \in Caller : SF_vars(Work(c))

-----------------------------------------------------------------------------
(* A session is ended only by Close, or after an operation met a transport   *)
(* error on this very session: a late Reset by a goroutine that was using an *)
(* older session leaves its successor alone (Reset's comparison with stale). *)
HealthySessionsKept ==
    [][\A s \in live : s \notin live' => s \in failed \/ (closed' /\ ~closed)]_vars

(* Every attempt an operation spends is a different fault: a Conn error, or  *)
(* a session it had not seen fail before.  So a client survives as many      *)
(* faults as it has retries; after Reset(s), Conn never returns s again.     *)
AttemptsAreDistinctFaults ==
    ~Endless => \A c \in Caller :
        tries[c] + (IF at[c] = "reset" THEN 1 ELSE 0) = Cardinality(saw[c]) + refused[c]

(* Every operation returns, whatever the device, the network and the other   *)
(* goroutines do, when the number of retries is finite.                      *)
OperationsReturn == \A c \in Caller : at[c] # "idle" ~> at[c] = "idle"
=============================================================================
