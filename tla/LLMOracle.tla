------------------------------ MODULE LLMOracle ------------------------------
(***************************************************************************)
(* What an LLM call promises a node of the graph: it returns an answer the *)
(* provider once gave to that very request, in the shape the caller asks   *)
(* for, or it raises.  Nothing is promised of how often the provider is    *)
(* asked, nor that two calls agree.                                        *)
(***************************************************************************)
CONSTANTS
    None, Callers, Requests, Answers,
    Fits(_, _, _)                 \* answer, request, caller

VARIABLES
    given,     \* the pairs of a request and an answer the provider gave to it
    request,   \* what each caller asks
    status,    \* whether its call is pending, returned or raised
    answer     \* what it returned

vars == <<given, request, status, answer>>

Init ==
    /\ given = {}
    /\ request \in [Callers -> Requests]
    /\ status = [c \in Callers |-> "idle"]
    /\ answer = [c \in Callers |-> None]

Ask(c) ==
    /\ status[c] # "pending"
    /\ \E r \in Requests : request' = [request EXCEPT ![c] = r]
    /\ status' = [status EXCEPT ![c] = "pending"]
    /\ answer' = [answer EXCEPT ![c] = None]
    /\ UNCHANGED given

Give(c) ==
    /\ status[c] = "pending"
    /\ \E a \in Answers : given' = given \cup {<<request[c], a>>}
    /\ UNCHANGED <<request, status, answer>>

Return(c) ==
    /\ status[c] = "pending"
    /\ \E a \in Answers : /\ <<request[c], a>> \in given
                          /\ Fits(a, request[c], c)
                          /\ answer' = [answer EXCEPT ![c] = a]
    /\ status' = [status EXCEPT ![c] = "returned"]
    /\ UNCHANGED <<given, request>>

Raise(c) ==
    /\ status[c] = "pending"
    /\ status' = [status EXCEPT ![c] = "raised"]
    /\ UNCHANGED <<given, request, answer>>

Next == \E c \in Callers : Ask(c) \/ Give(c) \/ Return(c) \/ Raise(c)

Spec == Init /\ [][Next]_vars
=============================================================================
