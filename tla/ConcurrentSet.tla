---------------------------- MODULE ConcurrentSet ----------------------------
(***************************************************************************)
(* What every tree of the benchmark promises: a linearizable set.  A call  *)
(* of add, remove or contains is in progress between its invocation and    *)
(* its return; an add or a remove that changes the set does so in one step *)
(* between the two and returns true, and every other outcome is an answer  *)
(* that was right at some moment of the call.                              *)
(***************************************************************************)

CONSTANTS
    Threads,
    Keys

VARIABLES
    set,        \* the keys in the set
    call,       \* thread -> its call in progress, or NoCall
    answers,    \* thread -> the results its call may return by now
    result      \* thread -> {the result of its last call}, or NoResult

setVars == <<set, call, answers, result>>

NoCall == [op |-> "none"]
NoResult == {}
SetCalls == [op : {"add", "remove", "contains"}, key : Keys]
Results == SUBSET BOOLEAN

(* The answers that need no change of the set, in the set S. *)
Observed(c, S) ==
    CASE c.op = "contains" -> {c.key \in S}
      [] c.op = "add"      -> IF c.key \in S THEN {FALSE} ELSE {}
      [] c.op = "remove"   -> IF c.key \in S THEN {} ELSE {FALSE}
      [] OTHER             -> {}

(* An add or remove that has changed the set can only return true. *)
Applied(c, a) == c.op # "contains" /\ TRUE \in a

(* The answers of all the calls once `owner' has made the set S. *)
AnswersAfter(owner, S) ==
    [t \in Threads |->
        IF t = owner THEN {TRUE}
        ELSE IF Applied(call[t], answers[t]) THEN answers[t]
        ELSE answers[t] \cup Observed(call[t], S)]

-----------------------------------------------------------------------------
SetTypeOK ==
    /\ set \subseteq Keys
    /\ call \in [Threads -> SetCalls \cup {NoCall}]
    /\ answers \in [Threads -> SUBSET BOOLEAN]
    /\ result \in [Threads -> Results]

SetInit ==
    /\ set = {}
    /\ call = [t \in Threads |-> NoCall]
    /\ answers = [t \in Threads |-> {}]
    /\ result = [t \in Threads |-> NoResult]

SetInvoke(t, c) ==
    /\ call[t] = NoCall
    /\ call' = [call EXCEPT ![t] = c]
    /\ answers' = [answers EXCEPT ![t] = Observed(c, set)]
    /\ result' = [result EXCEPT ![t] = NoResult]
    /\ UNCHANGED set

SetAdd(t) ==
    /\ call[t].op = "add"
    /\ ~Applied(call[t], answers[t])
    /\ call[t].key \notin set
    /\ set' = set \cup {call[t].key}
    /\ answers' = AnswersAfter(t, set')
    /\ UNCHANGED <<call, result>>

SetRemove(t) ==
    /\ call[t].op = "remove"
    /\ ~Applied(call[t], answers[t])
    /\ call[t].key \in set
    /\ set' = set \ {call[t].key}
    /\ answers' = AnswersAfter(t, set')
    /\ UNCHANGED <<call, result>>

SetReturn(t, r) ==
    /\ call[t] # NoCall
    /\ r \in answers[t]
    /\ call' = [call EXCEPT ![t] = NoCall]
    /\ answers' = [answers EXCEPT ![t] = {}]
    /\ result' = [result EXCEPT ![t] = {r}]
    /\ UNCHANGED set

SetNext ==
    \E t \in Threads :
        \/ \E c \in SetCalls : SetInvoke(t, c)
        \/ SetAdd(t)
        \/ SetRemove(t)
        \/ \E r \in BOOLEAN : SetReturn(t, r)

SetSpec == SetInit /\ [][SetNext]_setVars
=============================================================================
