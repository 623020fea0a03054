------------------------ MODULE ToolApprovalProofs ------------------------
(***************************************************************************)
(* For every number of requests and of concurrent answers, at most one     *)
(* answer to a request is recorded, and it is the one its agent receives.  *)
(***************************************************************************)
EXTENDS ToolApproval, FiniteSetTheorems, TLAPS

Call == [id : Approvals, answer : Answers]

ApprovalType ==
  /\ agent \in [Approvals -> {"new", "created", "waiting", "cancelled"} \cup Delivered]
  /\ pending \subseteq Approvals
  /\ channel \in [Approvals -> {"open", "closed"} \cup Delivered]
  /\ call \in [Responders -> SUBSET Call]
  /\ granted \in [Approvals -> SUBSET Delivered]

(* Who holds the sending end of a request: the map, or one respond call.    *)
Holds(r, a) == \E c \in call[r] : c.id = a
Held(a) == a \in pending \/ \E r \in Responders : Holds(r, a)

(* There is one sending end, and it is unused as long as it is held.        *)
HeldOnce ==
  /\ \A r \in Responders : \A c, d \in call[r] : c = d
  /\ \A r \in Responders : \A c \in call[r] : c.id \notin pending
  /\ \A r, o \in Responders : \A c \in call[r], d \in call[o] : c.id = d.id => r = o
HeldIsOpen ==
  \A a \in Approvals :
    /\ Held(a) => agent[a] # "new"
    /\ Held(a) \/ agent[a] = "new" => channel[a] = "open"

(* A used channel carries an answer that fits and was recorded, or a        *)
(* timeout.                                                                 *)
Fits(a, answer) ==
  (answer = "approved" => a \notin Questions) /\ (answer = "answered" => a \in Questions)
ChannelOK ==
  \A a \in Approvals :
    /\ granted[a] = {} \/ granted[a] = {channel[a]}
    /\ channel[a] \in {"approved", "answered"} => granted[a] = {channel[a]}
    /\ channel[a] = "open" => granted[a] = {}
    /\ Fits(a, channel[a])
AgentOK ==
  \A a \in Approvals :
    agent[a] \in Delivered =>
      /\ channel[a] # "open"
      /\ agent[a] = IF channel[a] = "closed" THEN "timed_out" ELSE channel[a]

DecisionInv == ApprovalType /\ HeldOnce /\ HeldIsOpen /\ ChannelOK /\ AgentOK

---------------------------------------------------------------------------
(* Steps that leave the channels and the calls alone.                       *)
LEMMA QuietSteps ==
  ASSUME DecisionInv, NEW a \in Approvals, Create(a) \/ Watch(a) \/ Resolve(a) \/ Expire(a)
  PROVE  DecisionInv'
<1>1. UNCHANGED <<channel, call, granted>>
  BY DEF Create, Watch, Resolve, Expire
<1>2. CASE Create(a)
  <2>1. agent[a] = "new" /\ pending' = pending \cup {a}
        /\ \A b \in Approvals : agent'[b] = IF b = a THEN "created" ELSE agent[b]
    BY <1>2 DEF Create, DecisionInv, ApprovalType
  <2>2. ~Held(a)
    BY <2>1 DEF DecisionInv, HeldIsOpen
  <2>3. ApprovalType'
    BY <1>1, <1>2 DEF Create, DecisionInv, ApprovalType
  <2>4. HeldOnce'
    BY <1>1, <2>1, <2>2 DEF DecisionInv, HeldOnce, Held, Holds
  <2>5. HeldIsOpen'
    BY <1>1, <2>1 DEF DecisionInv, HeldIsOpen, Held, Holds
  <2>6. ChannelOK' /\ AgentOK'
    BY <1>1, <2>1 DEF DecisionInv, ChannelOK, AgentOK, Fits, Delivered
  <2> QED
    BY <2>3, <2>4, <2>5, <2>6 DEF DecisionInv
<1>3. CASE Watch(a)
  <2>1. agent[a] = "created" /\ UNCHANGED pending
        /\ \A b \in Approvals : agent'[b] = IF b = a THEN "waiting" ELSE agent[b]
    BY <1>3 DEF Watch, DecisionInv, ApprovalType
  <2>2. ApprovalType'
    BY <1>1, <1>3 DEF Watch, DecisionInv, ApprovalType
  <2>3. HeldOnce' /\ HeldIsOpen'
    BY <1>1, <2>1 DEF DecisionInv, HeldOnce, HeldIsOpen, Held, Holds
  <2>4. ChannelOK' /\ AgentOK'
    BY <1>1, <2>1 DEF DecisionInv, ChannelOK, AgentOK, Fits, Delivered
  <2> QED
    BY <2>2, <2>3, <2>4 DEF DecisionInv
<1>4. CASE Resolve(a) \/ Expire(a)
  <2>1. UNCHANGED <<agent, pending>>
    BY <1>4 DEF Resolve, Expire
  <2> QED
    BY <1>1, <2>1 DEF DecisionInv, ApprovalType, HeldOnce, HeldIsOpen, Held, Holds, ChannelOK,
       AgentOK
<1> QED
  BY <1>2, <1>3, <1>4

(* The agent takes what its channel carries, once nobody can change it.     *)
LEMMA ReceiveStep ==
  ASSUME DecisionInv, NEW a \in Approvals, Receive(a)
  PROVE  DecisionInv'
<1>1. UNCHANGED <<pending, channel, call, granted>>
  BY DEF Receive
<1> DEFINE got == IF channel[a] = "closed" THEN "timed_out" ELSE channel[a]
<1>2. /\ channel[a] # "open" /\ got \in Delivered
      /\ \A b \in Approvals : agent'[b] = IF b = a THEN got ELSE agent[b]
  BY DEF Receive, DecisionInv, ApprovalType, Delivered
<1>3. ApprovalType'
  BY <1>1, <1>2 DEF Receive, DecisionInv, ApprovalType
<1>4. HeldOnce' /\ HeldIsOpen'
  BY <1>1, <1>2 DEF DecisionInv, HeldOnce, HeldIsOpen, Held, Holds, Delivered
<1>5. ChannelOK' /\ AgentOK'
  BY <1>1, <1>2 DEF DecisionInv, ChannelOK, AgentOK, Fits
<1> QED
  BY <1>3, <1>4, <1>5 DEF DecisionInv

(* A sending end that is dropped, or used, out of the map.                  *)
LEMMA ReleaseStep ==
  ASSUME DecisionInv, NEW a \in pending, NEW end \in {"closed", "timed_out"},
         pending' = pending \ {a}, channel' = [channel EXCEPT ![a] = end],
         UNCHANGED <<call, granted>>,
         \A b \in Approvals : agent'[b] = agent[b] \/ (b = a /\ agent'[b] = "cancelled"),
         agent' \in [Approvals -> {"new", "created", "waiting", "cancelled"} \cup Delivered]
  PROVE  DecisionInv'
<1>1. a \in Approvals /\ \A b \in Approvals : channel'[b] = IF b = a THEN end ELSE channel[b]
  BY DEF DecisionInv, ApprovalType
<1>2. channel[a] = "open" /\ granted[a] = {} /\ agent[a] \notin {"new"} \cup Delivered
  BY <1>1 DEF DecisionInv, HeldIsOpen, Held, ChannelOK, AgentOK
<1>3. ~Held(a)'
  BY DEF DecisionInv, HeldOnce, Held, Holds
<1>4. ApprovalType'
  BY <1>1 DEF DecisionInv, ApprovalType, Delivered
<1>5. HeldOnce'
  BY DEF DecisionInv, HeldOnce
<1>6. HeldIsOpen'
  <2> SUFFICES ASSUME NEW b \in Approvals
               PROVE  /\ Held(b)' => agent'[b] # "new"
                      /\ Held(b)' \/ agent'[b] = "new" => channel'[b] = "open"
    BY DEF HeldIsOpen
  <2>1. Held(b)' => Held(b)
    BY DEF Held, Holds
  <2> QED
    BY <1>1, <1>2, <1>3, <2>1 DEF DecisionInv, HeldIsOpen
<1>7. ChannelOK'
  BY <1>1, <1>2 DEF DecisionInv, ChannelOK, Fits
<1>8. AgentOK'
  BY <1>1, <1>2 DEF DecisionInv, AgentOK, Delivered
<1> QED
  BY <1>4, <1>5, <1>6, <1>7, <1>8 DEF DecisionInv

(* A cancelled agent's entry goes, unless a respond call has it.            *)
LEMMA CancelStep ==
  ASSUME DecisionInv, NEW a \in Approvals, Cancel(a)
  PROVE  DecisionInv'
<1>1. agent[a] = "waiting" /\ UNCHANGED <<call, granted>>
      /\ \A b \in Approvals : agent'[b] = IF b = a THEN "cancelled" ELSE agent[b]
  BY DEF Cancel, DecisionInv, ApprovalType
<1>2. agent' \in [Approvals -> {"new", "created", "waiting", "cancelled"} \cup Delivered]
  BY DEF Cancel, DecisionInv, ApprovalType
<1>3. CASE a \in pending
  BY <1>1, <1>2, <1>3, ReleaseStep DEF Cancel
<1>4. CASE a \notin pending
  <2>1. UNCHANGED <<pending, channel>>
    BY <1>4 DEF Cancel
  <2>2. ApprovalType' /\ HeldOnce'
    BY <1>1, <1>2, <2>1 DEF DecisionInv, ApprovalType, HeldOnce
  <2>3. HeldIsOpen'
    BY <1>1, <2>1 DEF DecisionInv, HeldIsOpen, Held, Holds
  <2>4. ChannelOK' /\ AgentOK'
    BY <1>1, <2>1 DEF DecisionInv, ChannelOK, AgentOK, Fits, Delivered
  <2> QED
    BY <2>2, <2>3, <2>4 DEF DecisionInv
<1> QED
  BY <1>3, <1>4

(* The watcher resolves the entry it finds in the map, and no other.        *)
LEMMA SweepStep ==
  ASSUME DecisionInv, NEW a \in Approvals, Sweep(a)
  PROVE  DecisionInv'
<1>1. CASE a \in pending
  <2>1. agent' = agent /\ agent \in [Approvals -> {"new", "created", "waiting", "cancelled"}
                                                    \cup Delivered]
    BY DEF Sweep, DecisionInv, ApprovalType
  <2> QED
    BY <1>1, <2>1, ReleaseStep DEF Sweep
<1>2. CASE a \notin pending
  <2>1. UNCHANGED <<agent, pending, channel, call, granted>>
    BY <1>2 DEF Sweep
  <2> QED
    BY <2>1 DEF DecisionInv, ApprovalType, HeldOnce, HeldIsOpen, Held, Holds, ChannelOK, AgentOK
<1> QED
  BY <1>1, <1>2

(* respond moves the entry from the map to itself ...                       *)
LEMMA TakeStep ==
  ASSUME DecisionInv, NEW r \in Responders, NEW a \in Approvals, NEW answer \in Answers,
         Take(r, a, answer)
  PROVE  DecisionInv'
<1> DEFINE c == [id |-> a, answer |-> answer]
<1>1. c \in Call /\ c.id = a
  BY DEF Call
<1>2. /\ call[r] = {} /\ a \in pending /\ pending' = pending \ {a}
      /\ UNCHANGED <<agent, channel, granted>>
      /\ call' \in [Responders -> SUBSET Call]
      /\ \A o \in Responders : call'[o] = IF o = r THEN {c} ELSE call[o]
  BY <1>1 DEF Take, DecisionInv, ApprovalType
<1> HIDE DEF c
<1>3. ApprovalType'
  BY <1>2 DEF DecisionInv, ApprovalType
<1>4. \A o \in Responders : \A d \in call[o] : d.id # a
  BY <1>2 DEF DecisionInv, HeldOnce
<1>5. HeldOnce'
  BY <1>1, <1>2, <1>4 DEF DecisionInv, HeldOnce
<1>6. \A b \in Approvals : Held(b)' => Held(b)
  BY <1>1, <1>2 DEF Held, Holds
<1>7. HeldIsOpen' /\ ChannelOK' /\ AgentOK'
  BY <1>2, <1>6 DEF DecisionInv, HeldIsOpen, ChannelOK, AgentOK
<1> QED
  BY <1>3, <1>5, <1>7 DEF DecisionInv

(* ... and back if the answer does not fit ...                              *)
LEMMA RefuseStep ==
  ASSUME DecisionInv, NEW r \in Responders, Refuse(r)
  PROVE  DecisionInv'
<1>1. PICK c \in call[r] : pending' = pending \cup {c.id}
  BY DEF Refuse
<1>2. c.id \in Approvals
  BY DEF DecisionInv, ApprovalType, Call
<1>3. /\ UNCHANGED <<agent, channel, granted>>
      /\ call' \in [Responders -> SUBSET Call]
      /\ \A o \in Responders : call'[o] = IF o = r THEN {} ELSE call[o]
  BY DEF Refuse, DecisionInv, ApprovalType
<1>4. ApprovalType'
  BY <1>1, <1>2, <1>3 DEF DecisionInv, ApprovalType
<1>5. \A o \in Responders \ {r} : \A d \in call[o] : d.id # c.id
  BY DEF DecisionInv, HeldOnce
<1>6. HeldOnce'
  BY <1>1, <1>3, <1>5 DEF DecisionInv, HeldOnce
<1>7. \A b \in Approvals : Held(b)' => Held(b)
  BY <1>1, <1>3 DEF Held, Holds
<1>8. HeldIsOpen' /\ ChannelOK' /\ AgentOK'
  BY <1>3, <1>7 DEF DecisionInv, HeldIsOpen, ChannelOK, AgentOK
<1> QED
  BY <1>4, <1>6, <1>8 DEF DecisionInv

(* ... or uses the sending end up.                                          *)
LEMMA AcceptStep ==
  ASSUME DecisionInv, NEW r \in Responders, Accept(r)
  PROVE  DecisionInv'
<1>1. PICK c \in call[r] : /\ Valid(c)
                           /\ channel' = [channel EXCEPT ![c.id] = c.answer]
                           /\ granted' = [granted EXCEPT ![c.id] = @ \cup {c.answer}]
  BY DEF Accept
<1>2. PICK a \in Approvals, answer \in Answers : a = c.id /\ answer = c.answer
  BY DEF DecisionInv, ApprovalType, Call
<1>3. Fits(a, answer) /\ answer \in Delivered
  BY <1>1, <1>2 DEF Valid, Fits, Answers, Delivered
<1>4. Held(a)
  BY <1>2 DEF Held, Holds
<1>5. channel[a] = "open" /\ granted[a] = {} /\ agent[a] \notin {"new"} \cup Delivered
  BY <1>4 DEF DecisionInv, HeldIsOpen, ChannelOK, AgentOK
<1>6. /\ UNCHANGED <<agent, pending>>
      /\ call' \in [Responders -> SUBSET Call]
      /\ \A o \in Responders : call'[o] = IF o = r THEN {} ELSE call[o]
  BY DEF Accept, DecisionInv, ApprovalType
<1>7. /\ \A b \in Approvals : channel'[b] = IF b = a THEN answer ELSE channel[b]
      /\ \A b \in Approvals : granted'[b] = IF b = a THEN {answer} ELSE granted[b]
  BY <1>1, <1>2, <1>5 DEF DecisionInv, ApprovalType
<1>8. ApprovalType'
  BY <1>1, <1>2, <1>3, <1>6 DEF DecisionInv, ApprovalType
<1>9. HeldOnce'
  BY <1>6 DEF DecisionInv, HeldOnce
<1>10. ~Held(a)'
  BY <1>2, <1>6 DEF DecisionInv, HeldOnce, Held, Holds
<1>11. \A b \in Approvals : Held(b)' => Held(b)
  BY <1>6 DEF Held, Holds
<1>12. HeldIsOpen'
  BY <1>5, <1>6, <1>7, <1>10, <1>11 DEF DecisionInv, HeldIsOpen
<1>13. ChannelOK'
  BY <1>3, <1>7 DEF DecisionInv, ChannelOK, Fits, Delivered
<1>14. AgentOK'
  BY <1>5, <1>6, <1>7 DEF DecisionInv, AgentOK
<1> QED
  BY <1>8, <1>9, <1>12, <1>13, <1>14 DEF DecisionInv

(* DecisionInv is inductive.                                                *)
LEMMA NextDecision == DecisionInv /\ [Next]_vars => DecisionInv'
<1> SUFFICES ASSUME DecisionInv, [Next]_vars PROVE DecisionInv'
  OBVIOUS
<1>1. CASE UNCHANGED vars
  BY <1>1 DEF vars, DecisionInv, ApprovalType, HeldOnce, HeldIsOpen, Held, Holds, ChannelOK, AgentOK
<1>2. CASE Next
  BY <1>2, QuietSteps, ReceiveStep, CancelStep, SweepStep, TakeStep, RefuseStep, AcceptStep DEF Next
<1> QED
  BY <1>1, <1>2

(* respond and wait_internal: of any number of concurrent answers at most   *)
(* one is reported as recorded, it is the one in the agent's channel, and   *)
(* the agent receives no answer of the other kind or for another execution. *)
THEOREM DecidedOnce == Spec => []OneDecision
<1>1. Init => DecisionInv
  BY DEF Init, DecisionInv, ApprovalType, HeldOnce, HeldIsOpen, Held, Holds, ChannelOK, AgentOK,
     Fits, Delivered
<1>2. DecisionInv => OneDecision
  <2> SUFFICES ASSUME DecisionInv, NEW a \in Approvals
               PROVE  /\ Cardinality(granted[a]) <= 1
                      /\ granted[a] # {} => channel[a] \in granted[a]
                      /\ agent[a] \in Delivered =>
                           /\ agent[a] = "timed_out" \/ agent[a] \in granted[a]
                           /\ agent[a] = "approved" => a \notin Questions
                           /\ agent[a] = "answered" => a \in Questions
    BY DEF OneDecision
  <2>1. granted[a] = {} \/ granted[a] = {channel[a]}
    BY DEF DecisionInv, ChannelOK
  <2>2. Cardinality(granted[a]) <= 1
    <3>1. CASE granted[a] = {}
      BY <3>1, FS_EmptySet
    <3>2. CASE granted[a] = {channel[a]}
      <4>1. Cardinality({channel[a]}) = 1
        BY FS_Singleton
      <4> QED
        BY <3>2, <4>1
    <3> QED
      BY <2>1, <3>1, <3>2
  <2>3. agent[a] \in Delivered => /\ agent[a] = "timed_out" \/ agent[a] \in granted[a]
                                  /\ Fits(a, agent[a])
    BY DEF DecisionInv, ChannelOK, AgentOK, Fits, Delivered
  <2> QED
    BY <2>1, <2>2, <2>3 DEF Fits
<1> QED
  BY <1>1, <1>2, NextDecision, PTL DEF Spec
===========================================================================
