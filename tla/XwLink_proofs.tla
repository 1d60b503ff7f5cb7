----------------------------- MODULE XwLink_proofs -----------------------------
(***************************************************************************)
(* A request for the XW of which no call is lost is what the XW shows in   *)
(* the end, for any colours, any operations and any number of calls under  *)
(* way, whatever was lost of the requests before.                          *)
(***************************************************************************)
EXTENDS XwLink, Integers, TLAPS

\* What the XW can be told to show.
Colour == Entries \cup {Blank}
Light  == [type : {"ON", "OFF", "BLINK", "SEQ_BLINK"}, ontime : Nat, offtime : Nat]
Look   == [pwm : Colour, current : Colour, action : Light]

\* What can be on its way to the XW.
Message == [sets : {"nothing", "all", "shown"}]
           \cup [sets : {"pwm", "current"}, to : SUBSET Entries]
           \cup [sets : {"action"}, to : SUBSET Light]

\* The types of all variables.
Types ==
  /\ todo \in Seq(Message) /\ Len(todo) <= 6
  /\ inbox \in Seq(Message) /\ Len(inbox) <= MaxInbox
  /\ xw \in Look /\ shown \in Look /\ up \in BOOLEAN /\ whole \in BOOLEAN
  /\ request \in [op : Ops \cup {"NO_LIGHT"}, rgb : Colour]

\* The request's calls, and how many of them the XW has executed: none as long
\* as it is busy with older ones.
Calls    == Script(request.op, request.rgb)
Executed == Len(Calls) - Len(todo) - Len(inbox)

\* What is still to be executed is the rest of the request's calls, in order;
\* in the inbox there may be older ones before them.
InOrder ==
  /\ request.op \in LedMgrOp /\ Len(todo) <= Len(Calls)
  /\ \A i \in 1..Len(todo) : todo[i] = Calls[Len(Calls) - Len(todo) + i]
  /\ \A i \in 1..Len(inbox) : Executed + i >= 1 => inbox[i] = Calls[Executed + i]

\* What the first k calls of r have made of the XW's configuration x and of
\* what it shows, d.
Done(r, k, x, d) ==
  LET n == Len(Script(r.op, r.rgb)) IN
  /\ r.op # "NO_LIGHT" => /\ k >= 2 /\ n = 5 => x.action.type = "ON"
                          /\ k >= 3 => x.pwm = r.rgb
                          /\ k >= 4 => x.current = r.rgb
                          /\ k >= 5 /\ n = 6 => x.action.type = Kind(r.op)
  /\ r.op = "NO_LIGHT" /\ k >= 2 => x.action.type = "OFF"
  /\ k >= n => Fits(d, r)

\* A request of which nothing is lost gets on as it should.
WholeInv == whole => InOrder /\ Done(request, Executed, xw, shown)

\* The times of g_ledOpVal are times.
LEMMA TimesFacts ==
  \A op \in LedMgrOp : /\ Times[op][1] \in Nat /\ Times[op][2] \in Nat
                       /\ Times[op][3] \in Nat
BY DEF LedMgrOp, Times

\* The calls of every request, in their order.
LEMMA ScriptFacts ==
  ASSUME NEW op \in LedMgrOp, NEW c \in Colour
  PROVE  LET s == Script(op, c) IN
         /\ Len(s) \in 3..6 /\ s[1].sets = "nothing" /\ s[Len(s)].sets = "shown"
         /\ op = "NO_LIGHT" =>
              /\ Len(s) = 3 /\ s[2].sets = "action" /\ s[2].to = {Steady("OFF")}
         /\ op # "NO_LIGHT" =>
              /\ Len(s) \in {5, 6} /\ (Len(s) = 5 <=> op = "SOLID_LIGHT")
              /\ s[2].sets = "all"
              /\ s[3].sets = "pwm" /\ s[3].to = {c}
              /\ s[4].sets = "current" /\ s[4].to = {c}
              /\ Len(s) = 6 => /\ s[5].sets = "action"
                               /\ \A v \in s[5].to : v.type = Kind(op)
<1> USE DEF Script, Paint, Action, xw_led_init, xw_led_reset, xw_led_applySettings,
            xw_led_setBrightness, xw_led_setColor, xw_led_setOnOff, xw_led_setBlink,
            xw_led_setBlinkSequence, Steady, Blink, Kind
<1>1. CASE op = "NO_LIGHT"
  BY <1>1
<1>2. CASE op = "SOLID_LIGHT"
  BY <1>2
<1>3. CASE op = "DOUBLE_BLINK"
  BY <1>3
<1>4. CASE op \in {"BLINK", "SLOW_BLINK", "FAST_BLINK"}
  BY <1>4
<1> QED
  BY <1>1, <1>2, <1>3, <1>4 DEF LedMgrOp

\* A request is made of messages.
LEMMA ScriptMessages ==
  ASSUME NEW op \in LedMgrOp, NEW c \in Entries PROVE Script(op, c) \in Seq(Message)
<1>1. xw_led_init \in Message /\ xw_led_reset \in Message /\ xw_led_applySettings \in Message
  BY DEF Message, xw_led_init, xw_led_reset, xw_led_applySettings
<1>2. xw_led_setBrightness(c) \in Message /\ xw_led_setColor(c) \in Message
  BY DEF Message, xw_led_setBrightness, xw_led_setColor
<1>3. xw_led_setOnOff("OFF") \in Message
  BY DEF Message, xw_led_setOnOff, Steady, Light
<1>4. \A s, t \in Nat : xw_led_setBlink(s, t) \in Message
  BY DEF Message, xw_led_setBlink, Blink, Light
<1>5. \A s, t, u \in Nat : xw_led_setBlinkSequence(s, t, 2, u) \in Message
  BY DEF Message, xw_led_setBlinkSequence, Blink, Light
<1>6. Action(op) \in Seq(Message)
  BY <1>3, <1>4, <1>5, TimesFacts DEF Action
<1>7. Paint(c) \in Seq(Message)
  BY <1>2 DEF Paint
<1> QED
  BY <1>1, <1>6, <1>7 DEF Script

\* What executing m makes of x and d.
Effect(m, x, d, x2, d2) ==
  \/ m.sets = "nothing" /\ x2 = x /\ d2 = d
  \/ m.sets = "all"     /\ x2 = Default /\ d2 = d
  \/ m.sets = "shown"   /\ d2 = x /\ x2 = x
  \/ /\ m.sets \in {"pwm", "current", "action"}
     /\ \E v \in m.to : x2 = [x EXCEPT ![m.sets] = v]
     /\ d2 = d

\* The XW executes the oldest call it has.
LEMMA ExecuteEffect ==
  Execute => Effect(Head(inbox), xw, shown, xw', shown')
BY DEF Execute, Effect

\* Each of a request's calls, executed, takes the XW one step on.
LEMMA OneMore ==
  ASSUME NEW r \in [op : LedMgrOp, rgb : Colour], NEW x \in Look, NEW d \in Look,
         NEW x2, NEW d2, NEW m, NEW k \in Int,
         k < Len(Script(r.op, r.rgb)), Done(r, k, x, d),
         k >= 0 => m = Script(r.op, r.rgb)[k + 1],
         Effect(m, x, d, x2, d2)
  PROVE  Done(r, k + 1, x2, d2)
<1> DEFINE s == Script(r.op, r.rgb)
<1> DEFINE n == Len(s)
<1> DEFINE j == k + 1
<1>1. /\ n \in 3..6 /\ s[1].sets = "nothing" /\ s[n].sets = "shown"
      /\ r.op = "NO_LIGHT" =>
           /\ n = 3 /\ s[2].sets = "action" /\ s[2].to = {Steady("OFF")}
      /\ r.op # "NO_LIGHT" =>
           /\ n \in {5, 6} /\ (n = 5 <=> r.op = "SOLID_LIGHT")
           /\ s[2].sets = "all"
           /\ s[3].sets = "pwm" /\ s[3].to = {r.rgb}
           /\ s[4].sets = "current" /\ s[4].to = {r.rgb}
           /\ n = 6 => s[5].sets = "action" /\ \A v \in s[5].to : v.type = Kind(r.op)
  BY ScriptFacts
<1>2. j \in Int /\ k < n /\ (k >= 0 => m = s[j])
  OBVIOUS
<1>3. Done(r, j, x2, d2) <=>
        /\ r.op # "NO_LIGHT" => /\ j >= 2 /\ n = 5 => x2.action.type = "ON"
                                /\ j >= 3 => x2.pwm = r.rgb
                                /\ j >= 4 => x2.current = r.rgb
                                /\ j >= 5 /\ n = 6 => x2.action.type = Kind(r.op)
        /\ r.op = "NO_LIGHT" /\ j >= 2 => x2.action.type = "OFF"
        /\ j >= n => Fits(d2, r)
  BY DEF Done
<1>4. /\ r.op # "NO_LIGHT" => /\ k >= 2 /\ n = 5 => x.action.type = "ON"
                              /\ k >= 3 => x.pwm = r.rgb
                              /\ k >= 4 => x.current = r.rgb
                              /\ k >= 5 /\ n = 6 => x.action.type = Kind(r.op)
      /\ r.op = "NO_LIGHT" /\ k >= 2 => x.action.type = "OFF"
  BY DEF Done
<1>5. Default.action.type = "ON" /\ Steady("OFF").type = "OFF"
  BY DEF Default, Steady
<1> HIDE DEF s, n
<1>6. CASE j < 2
  BY <1>1, <1>2, <1>3, <1>6
<1>7. CASE j = n /\ j >= 2
  <2>1. m.sets = "shown"
    BY <1>1, <1>2, <1>7
  <2>2. d2 = x /\ x2 = x
    BY <2>1 DEF Effect
  <2>3. Fits(x, r)
    BY <1>1, <1>4, <1>7 DEF Fits, Kind
  <2> QED
    BY <1>1, <1>3, <1>4, <1>7, <2>2, <2>3 DEF Kind
<1>8. CASE r.op = "NO_LIGHT" /\ j = 2
  <2>1. m.sets = "action" /\ m.to = {Steady("OFF")}
    BY <1>1, <1>2, <1>8
  <2>2. x2 = [x EXCEPT !["action"] = Steady("OFF")]
    BY <2>1 DEF Effect
  <2>3. x2.action.type = "OFF"
    BY <1>5, <2>2 DEF Look
  <2> QED
    BY <1>1, <1>3, <1>8, <2>3
<1>9. CASE r.op # "NO_LIGHT" /\ j = 2
  <2>1. x2 = Default
    BY <1>1, <1>2, <1>9 DEF Effect
  <2> QED
    BY <1>1, <1>3, <1>5, <1>9, <2>1
<1>10. CASE r.op # "NO_LIGHT" /\ j = 3
  <2>1. m.sets = "pwm" /\ m.to = {r.rgb}
    BY <1>1, <1>2, <1>10
  <2>2. x2 = [x EXCEPT !["pwm"] = r.rgb]
    BY <2>1 DEF Effect
  <2>3. x2.pwm = r.rgb /\ x2.action = x.action
    BY <2>2 DEF Look
  <2> QED
    BY <1>1, <1>3, <1>4, <1>10, <2>3
<1>11. CASE r.op # "NO_LIGHT" /\ j = 4
  <2>1. m.sets = "current" /\ m.to = {r.rgb}
    BY <1>1, <1>2, <1>11
  <2>2. x2 = [x EXCEPT !["current"] = r.rgb]
    BY <2>1 DEF Effect
  <2>3. x2.current = r.rgb /\ x2.action = x.action /\ x2.pwm = x.pwm
    BY <2>2 DEF Look
  <2> QED
    BY <1>1, <1>3, <1>4, <1>11, <2>3
<1>12. CASE r.op # "NO_LIGHT" /\ j = 5 /\ n = 6
  <2>1. m.sets = "action" /\ \A v \in m.to : v.type = Kind(r.op)
    BY <1>1, <1>2, <1>12
  <2>2. PICK v \in m.to : x2 = [x EXCEPT !["action"] = v]
    BY <2>1 DEF Effect
  <2>3. x2.action = v /\ x2.pwm = x.pwm /\ x2.current = x.current
    BY <2>2 DEF Look
  <2> QED
    BY <1>1, <1>3, <1>4, <1>12, <2>1, <2>3
<1> QED
  BY <1>1, <1>2, <1>6, <1>7, <1>8, <1>9, <1>10, <1>11, <1>12
-----------------------------------------------------------------------------
\* What is left of a sequence without its head, and with one more at its end.
LEMMA SequenceFacts ==
  ASSUME NEW S, NEW q \in Seq(S)
  PROVE  /\ q # <<>> => /\ Head(q) \in S /\ Head(q) = q[1] /\ Tail(q) \in Seq(S)
                        /\ Len(Tail(q)) = Len(q) - 1 /\ Len(q) > 0
                        /\ \A i \in 1..Len(Tail(q)) : Tail(q)[i] = q[i + 1]
         /\ \A m \in S : /\ Append(q, m) \in Seq(S) /\ Len(Append(q, m)) = Len(q) + 1
                         /\ \A i \in 1..Len(q) : Append(q, m)[i] = q[i]
                         /\ Append(q, m)[Len(q) + 1] = m
OBVIOUS

\* Nothing is under way at the start.
LEMMA InitInv == Init => Types /\ WholeInv
<1>1. Default \in Look /\ Dark \in Look
  BY DEF Default, Dark, Look, Light, Colour, Steady
<1>2. NoRequest \in [op : Ops \cup {"NO_LIGHT"}, rgb : Colour]
  BY DEF NoRequest, Colour
<1>3. <<>> \in Seq(Message) /\ Len(<<>>) <= 6 /\ Len(<<>>) <= MaxInbox
  BY LinkAssumption
<1> QED
  BY <1>1, <1>2, <1>3 DEF Init, Types, WholeInv

\* A message is executed on a look, and leaves one.
LEMMA EffectTypes ==
  ASSUME NEW m \in Message, NEW x \in Look, NEW d \in Look, NEW x2, NEW d2,
         Effect(m, x, d, x2, d2)
  PROVE  x2 \in Look /\ d2 \in Look
<1>1. Default \in Look
  BY DEF Default, Look, Light, Colour, Steady
<1>2. CASE m.sets \in {"nothing", "all", "shown"}
  BY <1>1, <1>2 DEF Effect
<1>3. CASE m.sets \in {"pwm", "current"}
  <2>1. m.to \subseteq Entries
    BY <1>3 DEF Message
  <2>2. PICK v \in m.to : x2 = [x EXCEPT ![m.sets] = v]
    BY <1>3 DEF Effect
  <2>3. v \in Colour /\ d2 = d
    BY <1>3, <2>1 DEF Effect, Colour
  <2> QED
    BY <1>3, <2>2, <2>3 DEF Look
<1>4. CASE m.sets = "action"
  <2>1. m.to \subseteq Light
    BY <1>4 DEF Message
  <2>2. PICK v \in m.to : x2 = [x EXCEPT !["action"] = v]
    BY <1>4 DEF Effect
  <2>3. v \in Light /\ d2 = d
    BY <1>4, <2>1 DEF Effect
  <2> QED
    BY <2>2, <2>3 DEF Look
<1> QED
  BY <1>2, <1>3, <1>4 DEF Effect

\* Every step keeps the types.
LEMMA TypesKept == Types /\ [Next]_vars => Types'
<1> SUFFICES ASSUME Types, [Next]_vars PROVE Types'
  OBVIOUS
<1> USE DEF Types
<1>1. ASSUME NEW op \in Ops, NEW c \in Entries, led_xw_setOp(op, c) PROVE Types'
  <2>1. op \in LedMgrOp /\ c \in Colour
    BY LinkAssumption DEF Colour
  <2>2. Script(op, c) \in Seq(Message) /\ Len(Script(op, c)) \in 3..6
    BY <2>1, ScriptMessages, ScriptFacts
  <2> QED
    <3>1. todo' \in Seq(Message) /\ Len(todo') <= 6
      <4>1. todo' = Script(op, c)
        BY <1>1 DEF led_xw_setOp
      <4>2. \A n \in 3..6 : n <= 6
        OBVIOUS
      <4> QED
        BY <2>2, <4>1, <4>2
    <3>2. request' \in [op : Ops \cup {"NO_LIGHT"}, rgb : Colour] /\ whole' \in BOOLEAN
      BY <1>1, <2>1 DEF led_xw_setOp
    <3> QED
      BY <1>1, <3>1, <3>2 DEF led_xw_setOp
<1>2. CASE Send
  <2>1. /\ todo' \in Seq(Message) /\ Len(todo') = Len(todo) - 1 /\ Len(todo) > 0
        /\ Head(todo) \in Message
    BY <1>2, SequenceFacts DEF Send
  <2>2. inbox' \in Seq(Message) /\ Len(inbox') = Len(inbox) + 1
    BY <1>2, <2>1, SequenceFacts DEF Send
  <2>3. Len(todo) \in Nat /\ Len(inbox) \in Nat /\ MaxInbox \in Nat
    BY LinkAssumption
  <2>4. Len(todo') <= 6 /\ Len(inbox') <= MaxInbox
    BY <1>2, <2>1, <2>2, <2>3 DEF Send
  <2> QED
    BY <1>2, <2>1, <2>2, <2>4 DEF Send
<1>3. CASE SendFails
  <2>1. todo' \in Seq(Message) /\ Len(todo') = Len(todo) - 1 /\ Len(todo) > 0
    BY <1>3, SequenceFacts DEF SendFails
  <2> QED
    <3>1. Len(todo) \in Nat /\ Len(todo') <= 6
      BY <2>1
    <3> QED
      BY <1>3, <2>1, <3>1 DEF SendFails
<1>4. CASE Execute
  <2>1. /\ inbox' \in Seq(Message) /\ Len(inbox') = Len(inbox) - 1 /\ Len(inbox) > 0
        /\ Head(inbox) \in Message
    BY <1>4, SequenceFacts DEF Execute
  <2>2. xw' \in Look /\ shown' \in Look
    BY <1>4, <2>1, ExecuteEffect, EffectTypes
  <2>3. MaxInbox \in Nat
    BY LinkAssumption
  <2> QED
    BY <1>4, <2>1, <2>2, <2>3 DEF Execute
<1>5. CASE GoDown
  <2>1. Default \in Look /\ Dark \in Look
    BY DEF Default, Dark, Look, Light, Colour, Steady
  <2>2. <<>> \in Seq(Message) /\ Len(<<>>) <= MaxInbox
    BY LinkAssumption
  <2> QED
    BY <1>5, <2>1, <2>2 DEF GoDown
<1>6. CASE ComeUp
  BY <1>6 DEF ComeUp
<1>7. CASE UNCHANGED vars
  BY <1>7 DEF vars
<1> QED
  BY <1>1, <1>2, <1>3, <1>4, <1>5, <1>6, <1>7 DEF Next

\* Nothing of a request is lost: its calls are sent and executed in order.
LEMMA WholeKept == Types /\ WholeInv /\ [Next]_vars => WholeInv'
<1> SUFFICES ASSUME Types, WholeInv, [Next]_vars, whole'
             PROVE  InOrder' /\ Done(request', Executed', xw', shown')
  BY DEF WholeInv
<1>1. ASSUME NEW op \in Ops, NEW c \in Entries, led_xw_setOp(op, c)
      PROVE  InOrder' /\ Done(request', Executed', xw', shown')
  <2> DEFINE n == Len(Script(op, c))
  <2>1. op \in LedMgrOp /\ n \in 3..6
    BY LinkAssumption, ScriptFacts DEF Colour
  <2>2. /\ request' = [op |-> op, rgb |-> c] /\ todo' = Script(op, c) /\ inbox' = inbox
        /\ request'.op = op /\ request'.rgb = c
    BY <1>1 DEF led_xw_setOp
  <2>3. Calls' = Script(op, c) /\ Len(todo') = n
    BY <2>2 DEF Calls
  <2>4. Executed' = 0 - Len(inbox) /\ Len(inbox) \in Nat
    BY <2>1, <2>2, <2>3 DEF Executed, Types
  <2>5. InOrder'
    BY <2>1, <2>2, <2>3, <2>4 DEF InOrder
  <2>6. Done(request', Executed', xw', shown')
    <3>1. Executed' \in Int /\ Executed' <= 0
      BY <2>4
    <3>2. Len(Script(request'.op, request'.rgb)) = n
      BY <2>2
    <3> HIDE DEF n
    <3> QED
      BY <2>1, <3>1, <3>2 DEF Done
  <2> QED
    BY <2>5, <2>6
<1>2. CASE Send
  <2>1. /\ whole /\ request' = request /\ xw' = xw /\ shown' = shown /\ Calls' = Calls
        /\ todo' = Tail(todo) /\ inbox' = Append(inbox, Head(todo)) /\ todo # <<>>
    BY <1>2 DEF Send, Calls
  <2>2. InOrder /\ Done(request, Executed, xw, shown)
    BY <2>1 DEF WholeInv
  <2> DEFINE n == Len(Calls)
  <2>3. /\ Len(todo) \in Nat /\ Len(todo) > 0 /\ Len(inbox) \in Nat /\ n \in Nat
        /\ Len(todo') = Len(todo) - 1 /\ Head(todo) = todo[1] /\ Head(todo) \in Message
        /\ \A i \in 1..Len(todo') : todo'[i] = todo[i + 1]
    <3>1. n \in Nat
      BY <2>2, ScriptFacts DEF Calls, InOrder, Types
    <3> QED
      BY <2>1, <3>1, SequenceFacts DEF Types
  <2>4. /\ Len(inbox') = Len(inbox) + 1 /\ inbox'[Len(inbox) + 1] = todo[1]
        /\ \A i \in 1..Len(inbox) : inbox'[i] = inbox[i]
    BY <2>1, <2>3, SequenceFacts DEF Types
  <2>5. Executed' = Executed /\ Executed = n - Len(todo) - Len(inbox)
    BY <2>1, <2>3, <2>4 DEF Executed
  <2>6. InOrder'
    <3>1. ASSUME NEW i \in 1..Len(todo') PROVE todo'[i] = Calls[n - Len(todo') + i]
      <4>1. i + 1 \in 1..Len(todo) /\ n - Len(todo) + (i + 1) = n - Len(todo') + i
        BY <2>3
      <4> QED
        BY <2>2, <2>3, <4>1 DEF InOrder
    <3>2. ASSUME NEW i \in 1..Len(inbox'), Executed + i >= 1
          PROVE  inbox'[i] = Calls[Executed + i]
      <4>1. CASE i = Len(inbox) + 1
        <5>1. Executed + i = n - Len(todo) + 1 /\ 1 \in 1..Len(todo)
          BY <2>3, <2>5, <4>1
        <5> QED
          BY <2>2, <2>4, <4>1, <5>1 DEF InOrder
      <4>2. CASE i \in 1..Len(inbox)
        BY <2>2, <2>4, <3>2, <4>2 DEF InOrder
      <4> QED
        BY <2>3, <2>4, <4>1, <4>2
    <3>3. request'.op \in LedMgrOp /\ Len(todo') <= n
      BY <2>1, <2>2, <2>3 DEF InOrder
    <3> QED
      BY <2>1, <2>5, <3>1, <3>2, <3>3 DEF InOrder
  <2> QED
    BY <2>1, <2>2, <2>5, <2>6
<1>3. CASE Execute
  <2>1. /\ whole /\ request' = request /\ todo' = todo /\ Calls' = Calls
        /\ inbox' = Tail(inbox) /\ inbox # <<>>
    BY <1>3 DEF Execute, Calls
  <2>2. InOrder /\ Done(request, Executed, xw, shown)
    BY <2>1 DEF WholeInv
  <2> DEFINE n == Len(Calls)
  <2>3. /\ Len(todo) \in Nat /\ Len(inbox) \in Nat /\ Len(inbox) > 0 /\ n \in Nat
        /\ Len(inbox') = Len(inbox) - 1 /\ Head(inbox) = inbox[1]
        /\ \A i \in 1..Len(inbox') : inbox'[i] = inbox[i + 1]
    <3>1. n \in Nat
      BY <2>2, ScriptFacts DEF Calls, InOrder, Types
    <3> QED
      BY <2>1, <3>1, SequenceFacts DEF Types
  <2>4. /\ Executed = n - Len(todo) - Len(inbox) /\ Executed' = Executed + 1
        /\ Executed \in Int /\ Executed < n
    <3>1. Executed = n - Len(todo) - Len(inbox)
      BY DEF Executed
    <3>2. Executed' = n - Len(todo) - Len(inbox')
      BY <2>1 DEF Executed
    <3> QED
      BY <2>3, <3>1, <3>2
  <2>5. InOrder'
    <3>1. ASSUME NEW i \in 1..Len(inbox'), Executed + 1 + i >= 1
          PROVE  inbox'[i] = Calls[Executed + 1 + i]
      <4>1. i + 1 \in 1..Len(inbox) /\ Executed + (i + 1) = Executed + 1 + i
        BY <2>3, <2>4
      <4>2. inbox[i + 1] = Calls[Executed + (i + 1)]
        BY <2>2, <3>1, <4>1 DEF InOrder
      <4> QED
        BY <2>3, <4>1, <4>2
    <3>2. /\ request'.op \in LedMgrOp /\ Len(todo') <= Len(Calls')
          /\ \A i \in 1..Len(todo') : todo'[i] = Calls'[Len(Calls') - Len(todo') + i]
      BY <2>1, <2>2 DEF InOrder
    <3> QED
      BY <2>1, <2>4, <3>1, <3>2 DEF InOrder
  <2>6. Executed >= 0 => Head(inbox) = Calls[Executed + 1]
    <3>1. Executed >= 0 => Executed + 1 >= 1 /\ 1 \in 1..Len(inbox)
      BY <2>3, <2>4
    <3> QED
      BY <2>2, <2>3, <3>1 DEF InOrder
  <2>7. request \in [op : LedMgrOp, rgb : Colour] /\ xw \in Look /\ shown \in Look
    BY <2>2 DEF InOrder, Types
  <2>8. Effect(Head(inbox), xw, shown, xw', shown')
    BY <1>3, ExecuteEffect
  <2>9. Done(request, Executed + 1, xw', shown')
    BY <2>2, <2>4, <2>6, <2>7, <2>8, OneMore DEF Calls
  <2> QED
    BY <2>1, <2>4, <2>5, <2>9
<1>4. CASE SendFails \/ GoDown
  BY <1>4 DEF SendFails, GoDown
<1>5. CASE ComeUp \/ UNCHANGED vars
  BY <1>5 DEF ComeUp, vars, WholeInv, InOrder, Executed, Calls
<1> QED
  BY <1>1, <1>2, <1>3, <1>4, <1>5 DEF Next

\* Types and progress are as described in every reachable state.
THEOREM LinkInvariance == Spec => [](Types /\ WholeInv)
BY InitInv, TypesKept, WholeKept, PTL DEF Spec

\* Type correctness, for any colours, operations and bound on the calls under way.
THEOREM LinkTypeCorrect == Spec => []TypeOK
<1>1. Types => TypeOK
  BY DEF Types, TypeOK, Look, Light, Colour
<1> QED
  BY <1>1, LinkInvariance, PTL

\* A request of which nothing was lost is what the XW shows once it has executed
\* it, whatever was left of the requests before.
THEOREM LastRequestShown == Spec => []ShowsLastRequest
<1>1. Types /\ WholeInv => ShowsLastRequest
  <2> SUFFICES ASSUME Types, WholeInv, whole, todo = <<>>, inbox = <<>>
               PROVE  Fits(shown, request)
    BY DEF ShowsLastRequest
  <2>1. InOrder /\ Done(request, Executed, xw, shown)
    BY DEF WholeInv
  <2>2. Len(Calls) \in Nat
    BY <2>1, ScriptFacts DEF Calls, InOrder, Types
  <2>3. Executed = Len(Calls)
    BY <2>2 DEF Executed
  <2> QED
    BY <2>1, <2>2, <2>3 DEF Done, Calls
<1> QED
  BY <1>1, LinkInvariance, PTL
=============================================================================
