------------------------- MODULE CachedInvokeProofs -------------------------
(***************************************************************************)
(* For every number of processes, builds, retries and calls: the rows of   *)
(* the cache answer their requests, no call overruns its retries, and      *)
(* CachedInvoke implements LLMOracle.                                      *)
(***************************************************************************)
EXTENDS CachedInvoke, TLAPS

\* Two requests with one key are one request (hashing.py:10-13).
LEMMA KeysAreInjective ==
    ASSUME NEW r \in Request, NEW q \in Request, cache_key(r) = cache_key(q)
    PROVE  r = q
BY DEF Request, cache_key

\* The keys of the table are the triples of the three fields.
LEMMA KeysAreTriples == Keys = Models \X Prompts \X Schemas
<1>1. ASSUME NEW k \in Models \X Prompts \X Schemas PROVE k \in Keys
  <2>1. PICK m \in Models, p \in Prompts, s \in Schemas : k = <<m, p, s>>
    OBVIOUS
  <2>2. [model |-> m, prompt |-> p, schema |-> s] \in Request
    BY DEF Request
  <2> QED BY <2>1, <2>2 DEF Keys, cache_key
<1>2. Keys \subseteq Models \X Prompts \X Schemas
  BY DEF Keys, Request, cache_key
<1> QED BY <1>1, <1>2

\* A row is found under the key of each request.
LEMMA KeyTyped ==
    ASSUME NEW r \in Request
    PROVE  cache_key(r) \in Models \X Prompts \X Schemas
BY DEF Request, cache_key

-----------------------------------------------------------------------------
\* The type invariant is inductive by itself.
LEMMA CacheTypeInit == Init => CacheTypeOK
BY KeysAreTriples, CallersAssumption DEF Init, CacheTypeOK, Optional

LEMMA CacheTypeStep == CacheTypeOK /\ [Next]_vars => CacheTypeOK'
<1> SUFFICES ASSUME CacheTypeOK, [Next]_vars PROVE CacheTypeOK'
  OBVIOUS
<1> USE CallersAssumption DEF CacheTypeOK, Optional, Finish
<1>1. ASSUME NEW c \in Callers, NEW r \in Request, NEW b \in BOOLEAN, Begin(c, r, b)
      PROVE  CacheTypeOK'
  BY <1>1 DEF Begin
<1>2. ASSUME NEW c \in Callers, get_cached_response(c) PROVE CacheTypeOK'
  BY <1>2, KeyTyped DEF get_cached_response
<1>3. ASSUME NEW c \in Callers, ProviderAnswers(c) PROVE CacheTypeOK'
  <2>1. PICK text \in Texts :
          LET answer == [text |-> text, schema |-> request[c].schema, build |-> Build[c]]
          IN  /\ Finish(c, "store", answer)
              /\ given' = given \cup {[caller |-> c, request |-> request[c], answer |-> answer]}
    BY <1>3 DEF ProviderAnswers
  <2> DEFINE answer == [text |-> text, schema |-> request[c].schema, build |-> Build[c]]
  <2>2. answer \in Answer /\ answer # None
    BY NoneAssumption DEF Answer, Request
  <2> HIDE DEF answer
  <2>3. given' = given \cup {[caller |-> c, request |-> request[c], answer |-> answer]}
    BY <2>1 DEF answer
  <2>4. pc' = [pc EXCEPT ![c] = "store"] /\ parsed' = [parsed EXCEPT ![c] = answer]
    BY <2>1 DEF answer
  <2> QED BY <1>3, <2>2, <2>3, <2>4 DEF ProviderAnswers, count_attempt
<1>4. ASSUME NEW c \in Callers, TransientError(c) PROVE CacheTypeOK'
  BY <1>4 DEF TransientError, count_attempt
<1>5. ASSUME NEW c \in Callers, FatalError(c) PROVE CacheTypeOK'
  BY <1>5 DEF FatalError, count_attempt
<1>6. ASSUME NEW c \in Callers, store_response(c) PROVE CacheTypeOK'
  BY <1>6, KeyTyped DEF store_response, upsert
<1>7. ASSUME NEW c \in Callers, DatabaseError(c) PROVE CacheTypeOK'
  BY <1>7 DEF DatabaseError
<1>8. ASSUME clear_cache PROVE CacheTypeOK'
  BY <1>8, KeysAreTriples DEF clear_cache
<1>9. ASSUME UNCHANGED vars PROVE CacheTypeOK'
  BY <1>9 DEF vars
<1> QED
  BY <1>1, <1>2, <1>3, <1>4, <1>5, <1>6, <1>7, <1>8, <1>9 DEF Next, CallStep

\* Every state of the processes and their table is well typed.
THEOREM CacheTyping == Spec => []CacheTypeOK
<1>1. Init => CacheTypeOK
  BY CacheTypeInit
<1>2. CacheTypeOK /\ [Next]_vars => CacheTypeOK'
  BY CacheTypeStep
<1> QED BY <1>1, <1>2, PTL DEF Spec

-----------------------------------------------------------------------------
(***************************************************************************)
(* What a call that is about to store must know for its row to answer the  *)
(* request, and to be returned.                                            *)
(***************************************************************************)
StoredWasGiven ==
    \A c \in Callers :
        pc[c] = "store" => /\ <<request[c], parsed[c]>> \in Exchanges
                           /\ FitsCall(parsed[c], request[c], c)

ExchangeInv == CacheTypeOK /\ RowsAnswerTheirRequest /\ StoredWasGiven

LEMMA ExchangeInit == Init => ExchangeInv
BY CacheTypeInit
DEF Init, ExchangeInv, RowsAnswerTheirRequest, StoredWasGiven, Keys

\* What was said is never unsaid.
LEMMA ExchangesGrow ==
    ASSUME CacheTypeOK, [Next]_vars
    PROVE  Exchanges \subseteq Exchanges'
<1> SUFFICES given \subseteq given'
  BY DEF Exchanges
<1> QED
  BY DEF Next, vars, CallStep, Begin, get_cached_response, ProviderAnswers,
         TransientError, FatalError, store_response, DatabaseError, clear_cache

\* The answer of the provider is on record, and fits the build that asked.
LEMMA AnswerOnRecord ==
    ASSUME CacheTypeOK, NEW c \in Callers, ProviderAnswers(c)
    PROVE  \E answer \in Answer :
              /\ pc' = [pc EXCEPT ![c] = "store"]
              /\ parsed' = [parsed EXCEPT ![c] = answer]
              /\ Exchanges' = Exchanges \cup {<<request[c], answer>>}
              /\ FitsCall(answer, request[c], c)
<1>1. PICK text \in Texts :
        LET answer == [text |-> text, schema |-> request[c].schema, build |-> Build[c]]
        IN  /\ Finish(c, "store", answer)
            /\ given' = given \cup {[caller |-> c, request |-> request[c], answer |-> answer]}
  BY DEF ProviderAnswers
<1> DEFINE answer == [text |-> text, schema |-> request[c].schema, build |-> Build[c]]
<1>2. answer \in Answer
  BY DEF Answer, Request, CacheTypeOK
<1>3. FitsCall(answer, request[c], c)
  BY CallersAssumption DEF FitsCall
<1> HIDE DEF answer
<1>4. given' = given \cup {[caller |-> c, request |-> request[c], answer |-> answer]}
  BY <1>1 DEF answer
<1>5. Exchanges' = Exchanges \cup {<<request[c], answer>>}
  <2> DEFINE g == [caller |-> c, request |-> request[c], answer |-> answer]
  <2>1. g.request = request[c] /\ g.answer = answer
    OBVIOUS
  <2>2. given' = given \cup {g}
    BY <1>4
  <2> HIDE DEF g
  <2>3. Exchanges' = {<<h.request, h.answer>> : h \in given \cup {g}}
    BY <2>2 DEF Exchanges
  <2>4. Exchanges' = Exchanges \cup {<<g.request, g.answer>>}
    BY <2>3 DEF Exchanges
  <2> QED BY <2>1, <2>4
<1>6. pc' = [pc EXCEPT ![c] = "store"] /\ parsed' = [parsed EXCEPT ![c] = answer]
  BY <1>1 DEF answer, Finish
<1> QED BY <1>2, <1>3, <1>5, <1>6

LEMMA ExchangeStep == ExchangeInv /\ [Next]_vars => ExchangeInv'
<1> SUFFICES ASSUME ExchangeInv, [Next]_vars PROVE ExchangeInv'
  OBVIOUS
<1>1. CacheTypeOK /\ CacheTypeOK'
  BY CacheTypeStep DEF ExchangeInv
<1>2. Exchanges \subseteq Exchanges'
  BY <1>1, ExchangesGrow
<1>3. RowsAnswerTheirRequest'
  <2>1. CASE UNCHANGED llm_cache
    BY <1>2, <2>1 DEF ExchangeInv, RowsAnswerTheirRequest
  <2>2. ASSUME NEW c \in Callers, store_response(c) PROVE RowsAnswerTheirRequest'
    <3> SUFFICES ASSUME NEW r \in Request, llm_cache'[cache_key(r)] # None
                 PROVE  <<r, llm_cache'[cache_key(r)]>> \in Exchanges'
      BY DEF RowsAnswerTheirRequest, cache_key
    <3>1. request[c] \in Request
      BY <1>1 DEF CacheTypeOK
    <3>2. llm_cache' = [llm_cache EXCEPT ![cache_key(request[c])] = parsed[c]]
      BY <2>2 DEF store_response, upsert
    <3>3. CASE cache_key(r) = cache_key(request[c])
      <4>1. r = request[c]
        BY <3>1, <3>3, KeysAreInjective
      <4>2. llm_cache'[cache_key(r)] = parsed[c]
        BY <1>1, <3>1, <3>2, <3>3, KeyTyped DEF CacheTypeOK
      <4>3. <<request[c], parsed[c]>> \in Exchanges
        BY <2>2 DEF store_response, ExchangeInv, StoredWasGiven
      <4> QED BY <1>2, <4>1, <4>2, <4>3
    <3>4. CASE cache_key(r) # cache_key(request[c])
      <4>1. llm_cache'[cache_key(r)] = llm_cache[cache_key(r)]
        BY <1>1, <3>1, <3>2, <3>4, KeyTyped DEF CacheTypeOK
      <4> QED BY <1>2, <4>1 DEF ExchangeInv, RowsAnswerTheirRequest
    <3> QED BY <3>3, <3>4
  <2>3. CASE clear_cache
    BY <2>3, KeysAreTriples, KeyTyped DEF clear_cache, RowsAnswerTheirRequest
  <2> QED
    BY <2>1, <2>2, <2>3
    DEF Next, vars, CallStep, Begin, get_cached_response, ProviderAnswers,
        TransientError, FatalError, DatabaseError
<1>4. StoredWasGiven'
  <2> SUFFICES ASSUME NEW d \in Callers, pc'[d] = "store"
               PROVE  /\ <<request'[d], parsed'[d]>> \in Exchanges'
                      /\ FitsCall(parsed'[d], request'[d], d)
    BY DEF StoredWasGiven, FitsCall
  <2>1. ASSUME pc[d] = "store", request'[d] = request[d], parsed'[d] = parsed[d]
        PROVE  /\ <<request'[d], parsed'[d]>> \in Exchanges'
               /\ FitsCall(parsed'[d], request'[d], d)
    BY <1>2, <2>1 DEF ExchangeInv, StoredWasGiven
  <2>2. ASSUME NEW c \in Callers, ProviderAnswers(c)
        PROVE  /\ <<request'[d], parsed'[d]>> \in Exchanges'
               /\ FitsCall(parsed'[d], request'[d], d)
    <3>1. request' = request
      BY <2>2 DEF ProviderAnswers
    <3>2. PICK answer \in Answer :
            /\ pc' = [pc EXCEPT ![c] = "store"]
            /\ parsed' = [parsed EXCEPT ![c] = answer]
            /\ Exchanges' = Exchanges \cup {<<request[c], answer>>}
            /\ FitsCall(answer, request[c], c)
      BY <1>1, <2>2, AnswerOnRecord
    <3>3. CASE d = c
      BY <1>1, <3>1, <3>2, <3>3 DEF CacheTypeOK
    <3>4. CASE d # c
      BY <1>1, <2>1, <3>1, <3>2, <3>4 DEF CacheTypeOK
    <3> QED BY <3>3, <3>4
  <2>3. CASE \/ \E c \in Callers : \/ get_cached_response(c) \/ TransientError(c)
                                   \/ FatalError(c) \/ store_response(c)
                                   \/ DatabaseError(c)
             \/ \E c \in Callers, r \in Request, b \in BOOLEAN : Begin(c, r, b)
             \/ clear_cache \/ UNCHANGED vars
    <3>1. /\ pc[d] = "store"
          /\ request'[d] = request[d]
          /\ parsed'[d] = parsed[d]
      BY <1>1, <2>3
      DEF CacheTypeOK, Finish, vars, Begin, get_cached_response, TransientError,
          FatalError, store_response, DatabaseError, clear_cache
    <3> QED BY <2>1, <3>1
  <2> QED BY <2>2, <2>3 DEF Next, CallStep
<1> QED BY <1>1, <1>3, <1>4 DEF ExchangeInv

LEMMA Exchanged == Spec => []ExchangeInv
<1>1. Init => ExchangeInv
  BY ExchangeInit
<1>2. ExchangeInv /\ [Next]_vars => ExchangeInv'
  BY ExchangeStep
<1> QED BY <1>1, <1>2, PTL DEF Spec

\* However the calls interleave, and whatever is cleared or refreshed under
\* them, the row a request finds is an answer the provider gave to it.
THEOREM RowsAnswer == Spec => []RowsAnswerTheirRequest
<1>1. ExchangeInv => RowsAnswerTheirRequest
  BY DEF ExchangeInv
<1> QED BY <1>1, Exchanged, PTL

-----------------------------------------------------------------------------
\* Attempts are counted from zero, and only go on below the budget.
BudgetInv ==
    /\ CacheTypeOK
    /\ RetryBudget
    /\ \A c \in Callers :
          /\ pc[c] = "lookup" => attempts[c] = 0
          /\ pc[c] = "invoke" => attempts[c] = 0 \/ attempts[c] < MAX_RETRY_ATTEMPTS

LEMMA BudgetInit == Init => BudgetInv
BY CacheTypeInit, CallersAssumption DEF Init, BudgetInv, RetryBudget

LEMMA BudgetStep == BudgetInv /\ [Next]_vars => BudgetInv'
<1> SUFFICES ASSUME BudgetInv, [Next]_vars PROVE BudgetInv'
  OBVIOUS
<1>1. CacheTypeOK /\ CacheTypeOK'
  BY CacheTypeStep DEF BudgetInv
<1> DEFINE Within(c) ==
      /\ attempts[c] <= (IF MAX_RETRY_ATTEMPTS = 0 THEN 1 ELSE MAX_RETRY_ATTEMPTS)
      /\ pc[c] = "lookup" => attempts[c] = 0
      /\ pc[c] = "invoke" => attempts[c] = 0 \/ attempts[c] < MAX_RETRY_ATTEMPTS
<1> SUFFICES ASSUME NEW d \in Callers PROVE Within(d)'
  BY <1>1 DEF BudgetInv, RetryBudget
<1>2. Within(d)
  BY DEF BudgetInv, RetryBudget
<1> USE CallersAssumption DEF CacheTypeOK, Finish
<1>3. ASSUME NEW c \in Callers, NEW r \in Request, NEW b \in BOOLEAN, Begin(c, r, b)
      PROVE  Within(d)'
  BY <1>1, <1>2, <1>3 DEF Begin
<1>4. ASSUME NEW c \in Callers, TransientError(c) PROVE Within(d)'
  BY <1>1, <1>2, <1>4 DEF TransientError, count_attempt, budget_left
<1>5. ASSUME NEW c \in Callers, ProviderAnswers(c) \/ FatalError(c) PROVE Within(d)'
  <2>1. /\ pc[c] = "invoke"
        /\ attempts' = [attempts EXCEPT ![c] = @ + 1]
        /\ \E where \in {"store", "raised"} : pc' = [pc EXCEPT ![c] = where]
    BY <1>5 DEF ProviderAnswers, FatalError, count_attempt
  <2> QED BY <1>1, <1>2, <2>1
<1>6. ASSUME NEW c \in Callers,
             get_cached_response(c) \/ store_response(c) \/ DatabaseError(c)
      PROVE  Within(d)'
  BY <1>1, <1>2, <1>6 DEF get_cached_response, store_response, DatabaseError
<1>7. ASSUME clear_cache \/ UNCHANGED vars PROVE Within(d)'
  BY <1>2, <1>7 DEF clear_cache, vars
<1> QED BY <1>3, <1>4, <1>5, <1>6, <1>7 DEF Next, CallStep

\* No call asks the provider more often than max_retry_attempts, or once if
\* that is zero.
THEOREM RetriesBounded == Spec => []RetryBudget
<1>1. Init => BudgetInv
  BY BudgetInit
<1>2. BudgetInv /\ [Next]_vars => BudgetInv'
  BY BudgetStep
<1>3. BudgetInv => RetryBudget
  BY DEF BudgetInv
<1> QED BY <1>1, <1>2, <1>3, PTL DEF Spec

\* What the retries leave of a call is never negative, and falls at each step
\* the call takes.
LEMMA StepsLeftBounded ==
    ASSUME BudgetInv, NEW c \in Callers
    PROVE  StepsLeft(c) \in 0..(3 + MAX_RETRY_ATTEMPTS)
<1>1. attempts[c] \in Nat /\ MAX_RETRY_ATTEMPTS \in Nat
  BY CallersAssumption DEF BudgetInv, CacheTypeOK
<1>2. /\ attempts[c] <= (IF MAX_RETRY_ATTEMPTS = 0 THEN 1 ELSE MAX_RETRY_ATTEMPTS)
      /\ pc[c] = "lookup" => attempts[c] = 0
  BY DEF BudgetInv, RetryBudget
<1> QED BY <1>1, <1>2 DEF StepsLeft

LEMMA StepsLeftFall ==
    ASSUME BudgetInv, [Next]_vars, NEW d \in Callers,
           calls'[d] = calls[d], <<pc'[d], attempts'[d]>> # <<pc[d], attempts[d]>>
    PROVE  StepsLeft(d)' < StepsLeft(d)
<1>1. CacheTypeOK /\ attempts[d] \in Nat /\ MAX_RETRY_ATTEMPTS \in Nat
  BY CallersAssumption DEF BudgetInv, CacheTypeOK
<1>2. /\ attempts[d] <= (IF MAX_RETRY_ATTEMPTS = 0 THEN 1 ELSE MAX_RETRY_ATTEMPTS)
      /\ pc[d] = "lookup" => attempts[d] = 0
      /\ pc[d] = "invoke" => attempts[d] = 0 \/ attempts[d] < MAX_RETRY_ATTEMPTS
  BY DEF BudgetInv, RetryBudget
<1> USE <1>1, <1>2 DEF CacheTypeOK, Finish
<1>3. ASSUME NEW c \in Callers, NEW r \in Request, NEW b \in BOOLEAN, Begin(c, r, b)
      PROVE  FALSE
  <2>1. c # d
    BY <1>3 DEF Begin
  <2> QED BY <1>3, <2>1 DEF Begin
<1>4. ASSUME NEW c \in Callers, CallStep(c) PROVE c = d
  BY <1>4 DEF CallStep, get_cached_response, ProviderAnswers, TransientError, FatalError,
     store_response, DatabaseError, count_attempt
<1>5. CASE get_cached_response(d) \/ store_response(d) \/ DatabaseError(d)
  <2>1. /\ attempts'[d] = attempts[d]
        /\ \/ pc[d] = "lookup" /\ pc'[d] \in {"invoke", "returned", "raised"}
           \/ pc[d] = "store" /\ pc'[d] \in {"returned", "raised"}
    BY <1>5 DEF get_cached_response, store_response, DatabaseError
  <2> QED BY <2>1 DEF StepsLeft
<1>6. CASE ProviderAnswers(d) \/ TransientError(d) \/ FatalError(d)
  <2>1. /\ pc[d] = "invoke" /\ attempts'[d] = attempts[d] + 1
        /\ \/ pc'[d] \in {"store", "raised"}
           \/ pc'[d] = "invoke" /\ attempts[d] + 1 < MAX_RETRY_ATTEMPTS
    BY <1>6 DEF ProviderAnswers, TransientError, FatalError, count_attempt, budget_left
  <2> QED BY <2>1 DEF StepsLeft
<1>7. CASE clear_cache \/ UNCHANGED vars
  BY <1>7 DEF clear_cache, vars
<1> QED BY <1>3, <1>4, <1>5, <1>6, <1>7 DEF Next, CallStep

\* Whatever moves a call brings it nearer to its end (CallsRunDown).
THEOREM CallsAreProgress == Spec => CallsRunDown
<1>1. Init => BudgetInv
  BY BudgetInit
<1>2. BudgetInv /\ [Next]_vars => BudgetInv'
  BY BudgetStep
<1>3. BudgetInv /\ [Next]_vars =>
        [ \A c \in Callers :
             calls'[c] = calls[c] /\ <<pc'[c], attempts'[c]>> # <<pc[c], attempts[c]>>
                 => StepsLeft(c)' < StepsLeft(c) ]_vars
  BY StepsLeftFall
<1> QED BY <1>1, <1>2, <1>3, PTL DEF Spec, CallsRunDown

\* No call, from its lookup to its store, is longer than its retries allow.
THEOREM CallsAreShort ==
    Spec => [](\A c \in Callers : StepsLeft(c) \in 0..(3 + MAX_RETRY_ATTEMPTS))
<1>1. Init => BudgetInv
  BY BudgetInit
<1>2. BudgetInv /\ [Next]_vars => BudgetInv'
  BY BudgetStep
<1>3. BudgetInv => \A c \in Callers : StepsLeft(c) \in 0..(3 + MAX_RETRY_ATTEMPTS)
  BY StepsLeftBounded
<1> QED BY <1>1, <1>2, <1>3, PTL DEF Spec

-----------------------------------------------------------------------------
LEMMA OracleInit == Init => Oracle!Init
BY DEF Init, Oracle!Init, Exchanges, status, returned

LEMMA OracleStep == ExchangeInv /\ [Next]_vars => [Oracle!Next]_(Oracle!vars)
<1> SUFFICES ASSUME ExchangeInv, [Next]_vars PROVE [Oracle!Next]_(Oracle!vars)
  OBVIOUS
<1>1. CacheTypeOK
  BY DEF ExchangeInv
<1> USE DEF CacheTypeOK, Finish
<1>2. ASSUME NEW c \in Callers, NEW r \in Request, NEW b \in BOOLEAN, Begin(c, r, b)
      PROVE  Oracle!Ask(c)
  BY <1>1, <1>2 DEF Begin, Oracle!Ask, status, returned, Exchanges
<1>3. ASSUME NEW c \in Callers, get_cached_response(c)
      PROVE  Oracle!Return(c) \/ UNCHANGED Oracle!vars
  <2> DEFINE row == llm_cache[cache_key(request[c])]
  <2>1. CASE row # None /\ model_validate(row, request[c].schema, Build[c])
    <3>1. row \in Answer /\ <<request[c], row>> \in Exchanges
      BY <1>1, <2>1, KeyTyped DEF ExchangeInv, RowsAnswerTheirRequest, Optional
    <3>2. FitsCall(row, request[c], c)
      BY <2>1 DEF model_validate, FitsCall
    <3>3. /\ pc' = [pc EXCEPT ![c] = "returned"]
          /\ parsed' = [parsed EXCEPT ![c] = row]
      BY <1>3, <2>1 DEF get_cached_response
    <3>4. status' = [status EXCEPT ![c] = "returned"] /\ status[c] = "pending"
      BY <1>1, <1>3, <3>3 DEF status, get_cached_response
    <3>5. returned' = [returned EXCEPT ![c] = row]
      BY <1>1, <3>3 DEF returned
    <3>6. UNCHANGED <<Exchanges, request>>
      BY <1>3 DEF get_cached_response, Exchanges
    <3> HIDE DEF row
    <3> QED BY <3>1, <3>2, <3>4, <3>5, <3>6 DEF Oracle!Return
  <2>2. CASE ~(row # None /\ model_validate(row, request[c].schema, Build[c]))
    <3>1. pc' = [pc EXCEPT ![c] = "invoke"] /\ pc[c] = "lookup"
      BY <1>3, <2>2 DEF get_cached_response
    <3>2. parsed' = [parsed EXCEPT ![c] = None]
      BY <1>3, <2>2 DEF get_cached_response
    <3>3. UNCHANGED <<Exchanges, request>>
      BY <1>3 DEF get_cached_response, Exchanges
    <3>4. UNCHANGED <<status, returned>>
      BY <1>1, <3>1, <3>2 DEF status, returned
    <3> QED BY <3>3, <3>4 DEF Oracle!vars
  <2> QED BY <2>1, <2>2
<1>4. ASSUME NEW c \in Callers, ProviderAnswers(c) PROVE Oracle!Give(c)
  <2>1. PICK answer \in Answer :
          /\ pc' = [pc EXCEPT ![c] = "store"]
          /\ parsed' = [parsed EXCEPT ![c] = answer]
          /\ Exchanges' = Exchanges \cup {<<request[c], answer>>}
    BY <1>1, <1>4, AnswerOnRecord
  <2>2. pc[c] = "invoke" /\ request' = request
    BY <1>4 DEF ProviderAnswers
  <2>3. status' = status /\ returned' = returned /\ status[c] = "pending"
    BY <1>1, <2>1, <2>2 DEF status, returned
  <2> QED BY <2>1, <2>2, <2>3 DEF Oracle!Give
<1>5. ASSUME NEW c \in Callers, TransientError(c) \/ FatalError(c) \/ DatabaseError(c)
      PROVE  Oracle!Raise(c) \/ UNCHANGED Oracle!vars
  <2>1. /\ pc[c] \in {"lookup", "invoke", "store"}
        /\ parsed' = [parsed EXCEPT ![c] = None]
        /\ \E where \in {"invoke", "raised"} : pc' = [pc EXCEPT ![c] = where]
        /\ UNCHANGED <<request, given>>
    BY <1>5 DEF TransientError, FatalError, DatabaseError
  <2>2. returned' = returned /\ status[c] = "pending"
    BY <1>1, <2>1 DEF returned, status
  <2>3. status' = status \/ status' = [status EXCEPT ![c] = "raised"]
    BY <1>1, <2>1 DEF status
  <2>4. Exchanges' = Exchanges
    BY <2>1 DEF Exchanges
  <2> QED BY <2>1, <2>2, <2>3, <2>4 DEF Oracle!Raise, Oracle!vars
<1>6. ASSUME NEW c \in Callers, store_response(c) PROVE Oracle!Return(c)
  <2>1. /\ pc[c] = "store"
        /\ pc' = [pc EXCEPT ![c] = "returned"]
        /\ parsed' = [parsed EXCEPT ![c] = parsed[c]]
        /\ UNCHANGED <<request, given>>
    BY <1>6 DEF store_response
  <2>2. /\ parsed[c] \in Answer
        /\ <<request[c], parsed[c]>> \in Exchanges
        /\ FitsCall(parsed[c], request[c], c)
    BY <1>1, <2>1 DEF ExchangeInv, StoredWasGiven, Optional
  <2>3. /\ returned' = [returned EXCEPT ![c] = parsed[c]]
        /\ status[c] = "pending"
        /\ status' = [status EXCEPT ![c] = "returned"]
    BY <1>1, <2>1 DEF returned, status
  <2>4. Exchanges' = Exchanges
    BY <2>1 DEF Exchanges
  <2> QED BY <2>1, <2>2, <2>3, <2>4 DEF Oracle!Return
<1>7. ASSUME clear_cache \/ UNCHANGED vars PROVE UNCHANGED Oracle!vars
  BY <1>7 DEF clear_cache, vars, Oracle!vars, Exchanges, status, returned
<1> QED
  BY <1>2, <1>3, <1>4, <1>5, <1>6, <1>7 DEF Next, CallStep, Oracle!Next

\* cached_invoke keeps the promise LLMOracle makes to the nodes.
THEOREM CacheImplementsOracle == Spec => KeepsOraclePromise
<1>1. Init => Oracle!Init
  BY OracleInit
<1>2. ExchangeInv /\ [Next]_vars => [Oracle!Next]_(Oracle!vars)
  BY OracleStep
<1> QED BY <1>1, <1>2, Exchanged, PTL DEF Spec, Oracle!Spec, KeepsOraclePromise

-----------------------------------------------------------------------------
\* An answer on its way to the table is on record as its caller's.
StoredIsItsCallers ==
    \A c \in Callers :
        pc[c] = "store" =>
            [caller |-> c, request |-> request[c], answer |-> parsed[c]] \in given

FreshInv == CacheTypeOK /\ StoredIsItsCallers /\ NextCallFindsTheAnswer

\* Whom NextCallFindsTheAnswer speaks of: the one process that asked for this.
Alone(c) ==
    pc[c] = "returned" /\ clears = 0 /\ \A g \in given : g.request = request[c] => g.caller = c

FindsItAgain(c) == Alone(c) => llm_cache[cache_key(request[c])] = parsed[c]

LEMMA FreshInit == Init => FreshInv
BY CacheTypeInit DEF Init, FreshInv, StoredIsItsCallers, NextCallFindsTheAnswer

LEMMA StoredIsItsCallersStep == FreshInv /\ [Next]_vars => StoredIsItsCallers'
<1> SUFFICES ASSUME FreshInv, [Next]_vars,
                    NEW d \in Callers, pc'[d] = "store"
             PROVE  [caller |-> d, request |-> request'[d], answer |-> parsed'[d]] \in given'
  BY DEF StoredIsItsCallers
<1> USE DEF Finish
<1>1. CacheTypeOK
  BY DEF FreshInv
<1>2. CASE ProviderAnswers(d)
  <2>1. PICK answer :
          /\ parsed' = [parsed EXCEPT ![d] = answer]
          /\ given' = given \cup {[caller |-> d, request |-> request[d], answer |-> answer]}
    BY <1>2 DEF ProviderAnswers
  <2>2. request' = request /\ parsed'[d] = answer
    BY <1>1, <1>2, <2>1 DEF ProviderAnswers, CacheTypeOK
  <2> QED BY <2>1, <2>2
<1>3. CASE ~ProviderAnswers(d)
  <2>1. pc[d] = "store" /\ request'[d] = request[d] /\ parsed'[d] = parsed[d]
    <3>1. ASSUME NEW c \in Callers, NEW r \in Request, NEW b \in BOOLEAN, Begin(c, r, b)
          PROVE  pc[d] = "store" /\ request'[d] = request[d] /\ parsed'[d] = parsed[d]
      BY <1>1, <3>1 DEF CacheTypeOK, Begin
    <3>2. ASSUME NEW c \in Callers, get_cached_response(c)
          PROVE  pc[d] = "store" /\ request'[d] = request[d] /\ parsed'[d] = parsed[d]
      BY <1>1, <3>2 DEF CacheTypeOK, get_cached_response
    <3>3. ASSUME NEW c \in Callers, ProviderAnswers(c)
          PROVE  pc[d] = "store" /\ request'[d] = request[d] /\ parsed'[d] = parsed[d]
      <4>1. c # d
        BY <1>3, <3>3
      <4>2. PICK answer :
              /\ parsed' = [parsed EXCEPT ![c] = answer] /\ pc' = [pc EXCEPT ![c] = "store"]
              /\ request' = request
        BY <3>3 DEF ProviderAnswers
      <4> QED BY <1>1, <4>1, <4>2 DEF CacheTypeOK
    <3>4. ASSUME NEW c \in Callers,
                 TransientError(c) \/ FatalError(c) \/ store_response(c) \/ DatabaseError(c)
          PROVE  pc[d] = "store" /\ request'[d] = request[d] /\ parsed'[d] = parsed[d]
      BY <1>1, <3>4 DEF CacheTypeOK, TransientError, FatalError, store_response, DatabaseError
    <3>5. ASSUME clear_cache \/ UNCHANGED vars
          PROVE  pc[d] = "store" /\ request'[d] = request[d] /\ parsed'[d] = parsed[d]
      BY <3>5 DEF clear_cache, vars
    <3> QED BY <3>1, <3>2, <3>3, <3>4, <3>5 DEF Next, CallStep
  <2>2. given \subseteq given'
    BY DEF Next, CallStep, vars, Begin, get_cached_response, ProviderAnswers, TransientError,
           FatalError, store_response, DatabaseError, clear_cache
  <2> QED BY <2>1, <2>2 DEF FreshInv, StoredIsItsCallers
<1> QED BY <1>2, <1>3

\* Nobody else stores under the key of a process that asked alone: whoever
\* stores has an answer on record to the same request.
LEMMA FindsItAgainStep ==
    ASSUME FreshInv, [Next]_vars, NEW d \in Callers
    PROVE  FindsItAgain(d)'
<1> SUFFICES ASSUME Alone(d)'
             PROVE  llm_cache'[cache_key(request'[d])] = parsed'[d]
  BY DEF FindsItAgain, cache_key
<1> USE DEF Finish
<1>1. CacheTypeOK /\ FindsItAgain(d)
  BY DEF FreshInv, NextCallFindsTheAnswer, FindsItAgain, Alone
<1>2. /\ pc'[d] = "returned" /\ clears' = 0
      /\ \A g \in given' : g.request = request'[d] => g.caller = d
  BY DEF Alone
<1>3. cache_key(request[d]) \in Models \X Prompts \X Schemas
  BY <1>1, KeyTyped DEF CacheTypeOK
<1>4. ASSUME NEW c \in Callers, NEW r \in Request, NEW b \in BOOLEAN, Begin(c, r, b)
      PROVE  llm_cache'[cache_key(request'[d])] = parsed'[d]
  <2>1. c # d
    BY <1>1, <1>2, <1>4 DEF Begin, CacheTypeOK
  <2>2. /\ UNCHANGED <<llm_cache, clears, given>> /\ request'[d] = request[d]
        /\ parsed'[d] = parsed[d] /\ pc'[d] = pc[d]
    BY <1>1, <1>4, <2>1 DEF Begin, CacheTypeOK
  <2> QED BY <1>1, <1>2, <2>2 DEF FindsItAgain, Alone
<1>5. ASSUME NEW c \in Callers, get_cached_response(c)
      PROVE  llm_cache'[cache_key(request'[d])] = parsed'[d]
  <2>1. UNCHANGED <<llm_cache, request, clears, given>>
    BY <1>5 DEF get_cached_response
  <2>2. CASE c = d
    BY <1>1, <1>2, <1>5, <2>1, <2>2 DEF get_cached_response, CacheTypeOK
  <2>3. CASE c # d
    <3>1. parsed'[d] = parsed[d] /\ pc'[d] = pc[d]
      BY <1>1, <1>5, <2>3 DEF get_cached_response, CacheTypeOK
    <3> QED BY <1>1, <1>2, <2>1, <3>1 DEF FindsItAgain, Alone
  <2> QED BY <2>2, <2>3
<1>6. ASSUME NEW c \in Callers, store_response(c)
      PROVE  llm_cache'[cache_key(request'[d])] = parsed'[d]
  <2>1. /\ UNCHANGED <<request, clears, given>> /\ pc[c] = "store"
        /\ llm_cache' = [llm_cache EXCEPT ![cache_key(request[c])] = parsed[c]]
        /\ parsed' = [parsed EXCEPT ![c] = parsed[c]] /\ pc' = [pc EXCEPT ![c] = "returned"]
    BY <1>6 DEF store_response, upsert
  <2>2. CASE c = d
    BY <1>1, <1>3, <2>1, <2>2 DEF CacheTypeOK
  <2>3. CASE c # d
    <3>1. [caller |-> c, request |-> request[c], answer |-> parsed[c]] \in given
      BY <2>1 DEF FreshInv, StoredIsItsCallers
    <3>2. request[c] # request[d]
      BY <1>2, <2>1, <2>3, <3>1
    <3>3. cache_key(request[c]) # cache_key(request[d])
      BY <1>1, <3>2, KeysAreInjective DEF CacheTypeOK
    <3>4. parsed'[d] = parsed[d] /\ pc'[d] = pc[d]
      BY <1>1, <2>1, <2>3 DEF CacheTypeOK
    <3>5. llm_cache'[cache_key(request[d])] = llm_cache[cache_key(request[d])]
      BY <1>1, <1>3, <2>1, <3>3 DEF CacheTypeOK
    <3> QED BY <1>1, <1>2, <2>1, <3>4, <3>5 DEF FindsItAgain, Alone
  <2> QED BY <2>2, <2>3
<1>7. ASSUME NEW c \in Callers,
             ProviderAnswers(c) \/ TransientError(c) \/ FatalError(c) \/ DatabaseError(c)
      PROVE  llm_cache'[cache_key(request'[d])] = parsed'[d]
  <2>1. /\ UNCHANGED <<llm_cache, request, clears>> /\ given \subseteq given'
        /\ \E where \in {"store", "invoke", "raised"} : pc' = [pc EXCEPT ![c] = where]
    BY <1>7 DEF ProviderAnswers, TransientError, FatalError, DatabaseError
  <2>2. \E value : parsed' = [parsed EXCEPT ![c] = value]
    BY <1>7 DEF ProviderAnswers, TransientError, FatalError, DatabaseError
  <2>3. c # d
    BY <1>1, <1>2, <2>1 DEF CacheTypeOK
  <2>4. parsed'[d] = parsed[d] /\ pc'[d] = pc[d]
    BY <1>1, <2>1, <2>2, <2>3 DEF CacheTypeOK
  <2> QED BY <1>1, <1>2, <2>1, <2>4 DEF FindsItAgain, Alone
<1>8. ASSUME clear_cache \/ UNCHANGED vars
      PROVE  llm_cache'[cache_key(request'[d])] = parsed'[d]
  <2>1. ~clear_cache
    BY <1>1, <1>2 DEF clear_cache, CacheTypeOK
  <2> QED BY <1>1, <1>2, <1>8, <2>1 DEF vars, FindsItAgain, Alone
<1> QED BY <1>4, <1>5, <1>6, <1>7, <1>8 DEF Next, CallStep

\* What a call returned is what the next one finds, as long as nobody else
\* asked for the same and the cache was not cleared.
THEOREM AnswersAreFoundAgain == Spec => []NextCallFindsTheAnswer
<1>1. Init => FreshInv
  BY FreshInit
<1>2. FreshInv /\ [Next]_vars => FreshInv'
  <2> SUFFICES ASSUME FreshInv, [Next]_vars PROVE FreshInv'
    OBVIOUS
  <2>1. CacheTypeOK' /\ StoredIsItsCallers'
    BY CacheTypeStep, StoredIsItsCallersStep DEF FreshInv
  <2>2. \A d \in Callers : FindsItAgain(d)'
    BY FindsItAgainStep
  <2>3. NextCallFindsTheAnswer'
    BY <2>2 DEF NextCallFindsTheAnswer, FindsItAgain, Alone
  <2> QED BY <2>1, <2>3 DEF FreshInv
<1>3. FreshInv => NextCallFindsTheAnswer
  BY DEF FreshInv
<1> QED BY <1>1, <1>2, <1>3, PTL DEF Spec
=============================================================================
