------------------------------ MODULE PartsProofs ------------------------------
(***************************************************************************)
(* Theorems about Parts, for any values and bounds of the parts: what the  *)
(* smaller parts keep true of themselves, then the composition.            *)
(***************************************************************************)
EXTENDS PartsInvariants

-----------------------------------------------------------------------------
(* SearchInput *)

(* SearchInput: whichever timer is left hands over what is typed, or what *)
(* the page has already, and not before its pause.                         *)
SearchInv ==
    /\ Search!TypeOK
    /\ Search!SettledShowsValue
    /\ Search!ClearedStaysClear
    /\ v5 => v3 = {}
    /\ \A t \in v3 : /\ v2 \in {v1, t.text}
                     /\ Given.search.pause <= t.left + v4

LEMMA SearchInit ==
    ASSUME Search!SearchAssumption, Search!Init
    PROVE  SearchInv
  <1>1. v5 = FALSE /\ v3 = {} /\ v4 \in 0..Given.search.pause
    BY DEF Search!Init, Search!SearchAssumption
  <1>2. v1 \in Given.search.texts /\ v2 = v1
    BY DEF Search!Init
  <1> QED
    BY <1>1, <1>2 DEF SearchInv, Search!TypeOK, Search!SettledShowsValue, Search!ClearedStaysClear

LEMMA SearchStep ==
    ASSUME Search!SearchAssumption, SearchInv, Search!Next
    PROVE  SearchInv'
  <1> DEFINE Texts == Given.search.texts
             Pause == Given.search.pause
             Slower(t) == [t EXCEPT !.left = IF @ > 0 THEN @ - 1 ELSE 0]
  <1>1. /\ Pause \in Nat \ {0} /\ Given.search.blank \in Texts
        /\ v1 \in Texts /\ v2 \in Texts /\ v4 \in 0..Pause /\ v5 \in BOOLEAN
        /\ \A t \in v3 : t \in Search!Timer /\ v3 = {t}
    BY DEF Search!SearchAssumption, SearchInv, Search!TypeOK
  <1>2. \A t \in Search!Timer : t.text \in Texts /\ t.left \in 0..Pause
    BY DEF Search!Timer
  <1>3. \A text \in Texts : /\ [text |-> text, left |-> Pause] \in Search!Timer
                            /\ [text |-> text, left |-> Pause].text = text
                            /\ [text |-> text, left |-> Pause].left = Pause
    BY <1>1 DEF Search!Timer
  <1>4. \A t \in Search!Timer :
          /\ Slower(t) \in Search!Timer /\ Slower(t).text = t.text
          /\ Slower(t).left = IF t.left > 0 THEN t.left - 1 ELSE 0
    BY <1>1 DEF Search!Timer
  <1>10. v5 => v3 = {} /\ v1 = Given.search.blank
    BY DEF SearchInv, Search!ClearedStaysClear
  <1>5. ASSUME NEW text \in Texts, Search!Type(text)
        PROVE  SearchInv'
    <2>1. /\ v1' = v1 /\ v2' = text /\ v4' = 0 /\ v5' = FALSE
          /\ v3' = {[text |-> text, left |-> Pause]}
      BY <1>5 DEF Search!Type, Search!Schedule
    <2>2. ASSUME NEW t \in v3'
          PROVE  /\ t \in Search!Timer /\ v3' = {t} /\ t.text = text
                 /\ Pause <= t.left + v4'
      BY <1>1, <1>3, <2>1
    <2>3. v5' = FALSE /\ v4' \in 0..Pause
      BY <1>1, <2>1
    <2>4. Search!TypeOK'
      BY <1>1, <2>1, <2>2, <2>3 DEF Search!TypeOK
    <2> QED
      BY <2>1, <2>2, <2>3, <2>4
      DEF SearchInv, Search!TypeOK, Search!SettledShowsValue, Search!ClearedStaysClear
  <1>6. ASSUME NEW text \in Texts, Search!SetValue(text)
        PROVE  SearchInv'
    <2>1. /\ v1' = text /\ v2' = text /\ v4' = v4 /\ v5' = FALSE /\ v3' = v3
      BY <1>6 DEF Search!SetValue, Search!OnChange
    <2> QED
      BY <1>1, <2>1
      DEF SearchInv, Search!TypeOK, Search!SettledShowsValue, Search!ClearedStaysClear
  <1>7. ASSUME NEW t \in v3, Search!Fire(t)
        PROVE  SearchInv'
    <2>1. /\ v1' = t.text /\ v4' = v4 /\ v5' = v5 /\ v3' = {}
          /\ v2' = IF t.text = v1 THEN v2 ELSE t.text
      BY <1>1, <1>7 DEF Search!Fire, Search!OnChange
    <2>2. v2 \in {v1, t.text} /\ t.text \in Texts /\ ~v5
      BY <1>1, <1>2 DEF SearchInv
    <2> QED
      BY <1>1, <2>1, <2>2
      DEF SearchInv, Search!TypeOK, Search!SettledShowsValue, Search!ClearedStaysClear
  <1>8. ASSUME Search!Clear
        PROVE  SearchInv'
    <2>1. /\ v1' = Given.search.blank /\ v2' = Given.search.blank
          /\ v3' = {} /\ v4' = v4 /\ v5' = TRUE
      BY <1>8 DEF Search!Clear
    <2> QED
      BY <1>1, <2>1
      DEF SearchInv, Search!TypeOK, Search!SettledShowsValue, Search!ClearedStaysClear
  <1>9. ASSUME Search!Pass
        PROVE  SearchInv'
    <2>8. v1' = v1 /\ v2' = v2 /\ v5' = v5
      BY <1>9 DEF Search!Pass
    <2>1. /\ v1' = v1 /\ v2' = v2
          /\ v4' = IF v4 < Pause THEN v4 + 1 ELSE v4
          /\ v3' = {Slower(t) : t \in v3}
      BY <1>9 DEF Search!Pass
    <2>2. v3 = {} <=> v3' = {}
      <3> HIDE DEF Slower
      <3> QED
        BY <2>1
    <2>3. ASSUME NEW u \in v3'
          PROVE  /\ u \in Search!Timer /\ v3' = {u} /\ v2' \in {v1', u.text}
                 /\ Pause <= u.left + v4' /\ v3 # {}
      <3>1. PICK t \in v3 : u = Slower(t)
        BY <2>1
      <3>2. v3 = {t} /\ t \in Search!Timer
        BY <1>1, <3>1
      <3>3. v3' = {u}
        BY <2>1, <3>1, <3>2
      <3>4. Pause <= t.left + v4 /\ v2 \in {v1, t.text}
        BY DEF SearchInv
      <3>5. /\ u \in Search!Timer /\ u.text = t.text
            /\ u.left = IF t.left > 0 THEN t.left - 1 ELSE 0
        BY <1>4, <3>1, <3>2
      <3>6. t.left \in 0..Pause
        BY <1>2, <3>2
      <3>7. Pause <= u.left + v4'
        BY <1>1, <2>1, <3>4, <3>5, <3>6
      <3> QED
        BY <2>1, <3>1, <3>3, <3>4, <3>5, <3>7
    <2>4. v4' \in 0..Pause
      BY <1>1, <2>1
    <2>5. Search!TypeOK'
      BY <1>1, <2>1, <2>8, <2>3, <2>4 DEF Search!TypeOK
    <2>6. v5' => v3' = {} /\ v1' = Given.search.blank
      BY <1>10, <2>2, <2>8
    <2>7. v3' = {} => v2' = v1'
      BY <2>2, <2>8 DEF SearchInv, Search!SettledShowsValue
    <2> QED
      BY <2>3, <2>5, <2>6, <2>7
      DEF SearchInv, Search!TypeOK, Search!SettledShowsValue, Search!ClearedStaysClear
  <1> QED
    BY <1>5, <1>6, <1>7, <1>8, <1>9 DEF Search!Next

(* HandedOverAfterPause in a state of the invariant. *)
LEMMA SearchPauses ==
    ASSUME Search!SearchAssumption, SearchInv
    PROVE  Search!HandedOverAfterPause
  <1>1. ASSUME NEW t \in v3, t.left = 0
        PROVE  v4 = Given.search.pause
    BY <1>1 DEF SearchInv, Search!TypeOK, Search!SearchAssumption
  <1> QED
    BY <1>1 DEF Search!HandedOverAfterPause, Search!Fire

LEMMA SearchStays == ASSUME SearchInv, UNCHANGED vars PROVE SearchInv'
  BY DEF vars,
    SearchInv, Search!TypeOK, Search!SettledShowsValue,
    Search!ClearedStaysClear

-----------------------------------------------------------------------------
(* usePolling *)

PollingAssumption == Polling!ValuesAssumption /\ Polling!PollingBoundAssumption

(* usePolling: after a failure, what is left of the timer and what has     *)
(* passed make up the delay.                                               *)
PollingInv ==
    /\ Polling!TypeOK
    /\ Polling!BusyIsLoad
    /\ v6 # 0 => Polling!Delay(v6) <= v12 + v5

LEMMA DelayType ==
    ASSUME PollingAssumption, NEW f \in 0..4
    PROVE  Polling!Delay(f) \in 1..Given.polling.backoff
  <1>1. Given.polling.backoff \in Nat \ {0}
    BY DEF PollingAssumption, Polling!PollingBoundAssumption
  <1>2. 2^Polling!AtMost(f, 4) \in Nat \ {0}
    <2>1. Polling!AtMost(f, 4) = f
      BY DEF Polling!AtMost
    <2>2. /\ 2^0 \in Nat \ {0} /\ 2^1 \in Nat \ {0} /\ 2^2 \in Nat \ {0}
          /\ 2^3 \in Nat \ {0} /\ 2^4 \in Nat \ {0}
      OBVIOUS
    <2>3. f = 0 \/ f = 1 \/ f = 2 \/ f = 3 \/ f = 4
      OBVIOUS
    <2>4. CASE f = 0
      BY <2>1, <2>2, <2>4
    <2>5. CASE f = 1
      BY <2>1, <2>2, <2>5
    <2>6. CASE f = 2
      BY <2>1, <2>2, <2>6
    <2>7. CASE f = 3
      BY <2>1, <2>2, <2>7
    <2>8. CASE f = 4
      BY <2>1, <2>2, <2>8
    <2> QED
      BY <2>3, <2>4, <2>5, <2>6, <2>7, <2>8
  <1> QED
    BY <1>1, <1>2 DEF Polling!Delay, Polling!AtMost

LEMMA PollingInit ==
    ASSUME PollingAssumption, Polling!Init
    PROVE  PollingInv
  <1>1. /\ v1 \in BOOLEAN /\ v2 \in BOOLEAN /\ v8 = FALSE /\ v9 = TRUE /\ v10 = FALSE
        /\ v7 = Given.polling.null
    BY DEF Polling!Init
  <1>2. /\ v3 = 0 /\ v6 = 0 /\ v11 = 0 /\ v12 = 0 /\ 0 \in Polling!Loads
        /\ v12 \in 0..Given.polling.backoff
    BY DEF Polling!Init, Polling!Loads, PollingAssumption, Polling!PollingBoundAssumption
  <1>3. v4 \in [Polling!Loads -> {"none", "sent"}] /\ (v1 => v4[0] = "sent")
    <2>1. v4 = [i \in Polling!Loads |-> IF v1 /\ i = 0 THEN "sent" ELSE "none"]
      BY DEF Polling!Init
    <2> QED
      BY <1>2, <2>1
  <1>4. v5 \in 0..Polling!Off
    BY DelayType DEF Polling!Init, Polling!Off, PollingAssumption, Polling!PollingBoundAssumption
  <1>5. Polling!TypeOK
    <2>1. v8 \in BOOLEAN /\ v9 \in BOOLEAN /\ v10 \in BOOLEAN
      BY <1>1
    <2>2. v3 \in Polling!Loads /\ v11 \in Polling!Loads /\ v6 \in 0..4
      BY <1>2
    <2> QED
      BY <1>1, <1>2, <1>3, <1>4, <2>1, <2>2 DEF Polling!TypeOK
  <1>6. Polling!BusyIsLoad
    BY <1>1, <1>2, <1>3 DEF Polling!BusyIsLoad
  <1> QED
    BY <1>2, <1>5, <1>6 DEF PollingInv

(* Both effects of a tick, or of a switch. *)
LEMMA LoadStarts ==
    ASSUME PollingAssumption, PollingInv, NEW i \in Polling!Loads, Polling!StartLoad(i)
    PROVE  /\ v4' \in [Polling!Loads -> {"none", "sent"}] /\ v4'[i] = "sent"
           /\ v9' \in BOOLEAN /\ v10' \in BOOLEAN /\ (v9' \/ v10')
  <1>1. v4 \in [Polling!Loads -> {"none", "sent"}] /\ v9 \in BOOLEAN /\ v10 \in BOOLEAN
    BY DEF PollingInv, Polling!TypeOK
  <1>2. v4' = [v4 EXCEPT ![i] = "sent"]
    BY DEF Polling!StartLoad
  <1>3. (v9' = TRUE /\ v10' = v10) \/ (v10' = TRUE /\ v9' = v9)
    BY DEF Polling!StartLoad
  <1> QED
    BY <1>1, <1>2, <1>3

LEMMA TickType ==
    ASSUME PollingAssumption, PollingInv
    PROVE  Polling!NextTick \in Polling!Loads
  BY DEF PollingAssumption, Polling!PollingBoundAssumption, PollingInv, Polling!TypeOK,
         Polling!NextTick, Polling!Loads

(* A step that starts a load, or could not because the hook is off, and    *)
(* sets the timer anew.                                                    *)
LEMMA Ticked ==
    ASSUME PollingAssumption, PollingInv, NEW i \in Polling!Loads,
           v1' \in BOOLEAN, v2' \in BOOLEAN,
           v3' = i,
           v5' \in {Polling!Delay(v6), Polling!Off},
           v1' => Polling!StartLoad(i),
           ~v1' => /\ v4' \in [Polling!Loads -> {"none", "sent"}]
                   /\ v9' = v9 /\ v10' = v10,
           v6' = v6, v7' = v7, v8' = v8, v11' = v11, v12' = v12
    PROVE  PollingInv'
  <1>1. /\ v6 \in 0..4 /\ v7 \in Given.polling.values \cup {Given.polling.null}
        /\ v11 \in Polling!Loads /\ v12 \in 0..Given.polling.backoff
        /\ Given.polling.backoff \in Nat
    BY DEF PollingInv, Polling!TypeOK, PollingAssumption, Polling!PollingBoundAssumption
  <1>2. v8 \in BOOLEAN /\ v9 \in BOOLEAN /\ v10 \in BOOLEAN
    BY DEF PollingInv, Polling!TypeOK
  <1>3. /\ v4' \in [Polling!Loads -> {"none", "sent"}]
        /\ v9' \in BOOLEAN /\ v10' \in BOOLEAN
        /\ v1' => v4'[v3'] = "sent" /\ (v9' \/ v10')
    BY <1>2, LoadStarts
  <1>4. Polling!Delay(v6) \in 1..Given.polling.backoff
    BY <1>1, DelayType
  <1>5. v5' \in 0..Polling!Off /\ Polling!Delay(v6) <= v12 + v5'
    BY <1>1, <1>4 DEF Polling!Off
  <1>6. Polling!TypeOK'
    <2>1. v4' \in [Polling!Loads -> {"none", "sent"}] /\ v9' \in BOOLEAN /\ v10' \in BOOLEAN
      BY <1>3
    <2>2. v5' \in 0..Polling!Off
      BY <1>5
    <2> QED
      BY <1>1, <1>2, <2>1, <2>2 DEF Polling!TypeOK
  <1>7. Polling!BusyIsLoad'
    BY <1>3 DEF Polling!BusyIsLoad
  <1> QED
    BY <1>5, <1>6, <1>7 DEF PollingInv, Polling!Delay

LEMMA PollingStep ==
    ASSUME PollingAssumption, PollingInv, Polling!Next
    PROVE  PollingInv'
  <1>1. /\ v3 \in Polling!Loads /\ v5 \in 0..Polling!Off
        /\ v6 \in 0..4 /\ v11 \in Polling!Loads /\ v12 \in 0..Given.polling.backoff
        /\ Given.polling.backoff \in Nat \ {0}
    BY DEF PollingInv, Polling!TypeOK, PollingAssumption, Polling!PollingBoundAssumption
  <1>2. /\ v1 \in BOOLEAN /\ v2 \in BOOLEAN /\ v8 \in BOOLEAN /\ v9 \in BOOLEAN
        /\ v10 \in BOOLEAN /\ v4 \in [Polling!Loads -> {"none", "sent"}]
        /\ v7 \in Given.polling.values \cup {Given.polling.null}
        /\ v1 => (v9 \/ v10 <=> v4[v3] = "sent")
    BY DEF PollingInv, Polling!TypeOK, Polling!BusyIsLoad
  <1>3. Polling!NextTick \in Polling!Loads
    BY TickType
  <1>4. ASSUME Polling!Tick
        PROVE  PollingInv'
    <2>1. /\ v1' = v1 /\ v2' = v2 /\ v3' = Polling!NextTick
          /\ v6' = v6 /\ v7' = v7 /\ v8' = v8 /\ v11' = v11 /\ v12' = v12
          /\ v5' \in {Polling!Delay(v6), Polling!Off}
      BY <1>4 DEF Polling!Tick, Polling!caller, Polling!shown, Polling!Arm
    <2>2. /\ v1 => Polling!StartLoad(Polling!NextTick)
          /\ ~v1 => v4' = v4 /\ v9' = v9 /\ v10' = v10
      BY <1>4 DEF Polling!Tick
    <2> QED
      BY <1>2, <1>3, <2>1, <2>2, Ticked
  <1>5. ASSUME Polling!Show
        PROVE  PollingInv'
    <2>1. /\ v1' = v1 /\ v2' = FALSE
          /\ v6' = v6 /\ v7' = v7 /\ v8' = v8 /\ v11' = v11 /\ v12' = v12
      BY <1>5 DEF Polling!Show, Polling!shown
    <2>2. CASE v1
      <3>1. v3' = Polling!NextTick /\ v5' = Polling!Delay(v6)
            /\ Polling!StartLoad(Polling!NextTick)
        BY <1>5, <2>2 DEF Polling!Show
      <3> QED
        BY <1>2, <1>3, <2>1, <2>2, <3>1, Ticked
    <2>3. CASE ~v1
      <3>1. /\ v3' = v3 /\ v4' = v4 /\ v5' = v5 /\ v9' = v9 /\ v10' = v10
        BY <1>5, <2>3 DEF Polling!Show
      <3>2. Polling!TypeOK'
        BY <1>1, <1>2, <2>1, <3>1 DEF Polling!TypeOK
      <3>3. Polling!BusyIsLoad'
        BY <2>1, <2>3 DEF Polling!BusyIsLoad
      <3> QED
        BY <2>1, <3>1, <3>2, <3>3 DEF PollingInv, Polling!Delay
    <2> QED
      BY <2>2, <2>3
  <1>6. ASSUME Polling!Switch
        PROVE  PollingInv'
    <2>1. /\ v1' = ~v1 /\ v2' = v2 /\ v3' = v3
          /\ v6' = v6 /\ v7' = v7 /\ v8' = v8 /\ v11' = v11 /\ v12' = v12
          /\ v5' \in {Polling!Delay(v6), Polling!Off}
      BY <1>6 DEF Polling!Switch, Polling!shown, Polling!Arm
    <2>2. /\ ~v1 => Polling!StartLoad(v3)
          /\ v1 => v4' = [v4 EXCEPT ![v3] = "none"] /\ v9' = v9 /\ v10' = v10
      BY <1>6 DEF Polling!Switch
    <2>3. [v4 EXCEPT ![v3] = "none"] \in [Polling!Loads -> {"none", "sent"}]
      BY <1>2
    <2> QED
      BY <1>1, <1>2, <2>1, <2>2, <2>3, Ticked
  <1>7. ASSUME Polling!ChangeFetcher
         PROVE  PollingInv'
    <2>1. /\ v1' = v1 /\ v2' = v2 /\ v3' = v3 /\ v5' = v5 /\ v6' = v6
          /\ v7' = v7 /\ v8' = v8 /\ v11' = v11 /\ v12' = v12 /\ Polling!StartLoad(v3)
      BY <1>7 DEF Polling!ChangeFetcher, Polling!caller, Polling!shown
    <2>2. /\ v4' \in [Polling!Loads -> {"none", "sent"}] /\ v4'[v3] = "sent"
          /\ v9' \in BOOLEAN /\ v10' \in BOOLEAN /\ (v9' \/ v10')
      BY <1>1, <2>1, LoadStarts
    <2>3. Polling!TypeOK'
      BY <1>1, <1>2, <2>1, <2>2 DEF Polling!TypeOK
    <2>4. Polling!BusyIsLoad'
      BY <2>1, <2>2 DEF Polling!BusyIsLoad
    <2> QED
      BY <2>1, <2>3, <2>4 DEF PollingInv, Polling!Delay
  <1>8. ASSUME Polling!Hide
        PROVE  PollingInv'
    <2>1. /\ v1' = v1 /\ v2' = TRUE /\ v3' = v3 /\ v4' = v4 /\ v5' = v5 /\ v6' = v6
          /\ v7' = v7 /\ v8' = v8 /\ v9' = v9 /\ v10' = v10 /\ v11' = v11 /\ v12' = v12
      BY <1>8 DEF Polling!Hide, Polling!shown
    <2>2. Polling!TypeOK'
      BY <1>1, <1>2, <2>1 DEF Polling!TypeOK
    <2>3. Polling!BusyIsLoad'
      BY <1>2, <2>1 DEF Polling!BusyIsLoad
    <2> QED
      BY <2>1, <2>2, <2>3 DEF PollingInv, Polling!Delay
  <1>9. ASSUME Polling!Pass
        PROVE  PollingInv'
    <2>1. /\ v1' = v1 /\ v2' = v2 /\ v3' = v3 /\ v4' = v4 /\ v6' = v6
          /\ v7' = v7 /\ v8' = v8 /\ v9' = v9 /\ v10' = v10 /\ v11' = v11
      BY <1>9 DEF Polling!Pass, Polling!caller, Polling!shown
    <2>2. /\ v5' = IF v5 \in 1..Given.polling.backoff THEN v5 - 1 ELSE v5
          /\ v12' = IF v12 + 1 < Given.polling.backoff THEN v12 + 1 ELSE Given.polling.backoff
      BY <1>9 DEF Polling!Pass, Polling!AtMost
    <2>3. v5' \in 0..Polling!Off /\ v12' \in 0..Given.polling.backoff
      BY <1>1, <2>2 DEF Polling!Off
    <2>4. v6 # 0 => Polling!Delay(v6) <= v12' + v5'
      <3>1. Polling!Delay(v6) \in 1..Given.polling.backoff
        BY <1>1, DelayType
      <3>2. v6 # 0 => Polling!Delay(v6) <= v12 + v5
        BY DEF PollingInv
      <3> QED
        BY <1>1, <2>2, <3>1, <3>2
    <2>5. Polling!TypeOK'
      BY <1>1, <1>2, <2>1, <2>3 DEF Polling!TypeOK
    <2>6. Polling!BusyIsLoad'
      BY <1>2, <2>1 DEF Polling!BusyIsLoad
    <2> QED
      BY <2>1, <2>4, <2>5, <2>6 DEF PollingInv, Polling!Delay
  <1>10. ASSUME NEW i \in Polling!Loads, Polling!Answer(i)
        PROVE  PollingInv'
    <2>1. /\ v4[i] = "sent" /\ v4' = [v4 EXCEPT ![i] = "none"]
          /\ v1' = v1 /\ v2' = v2 /\ v3' = v3
      BY <1>10 DEF Polling!Answer, Polling!Succeed, Polling!Fail, Polling!caller
    <2>2. v4' \in [Polling!Loads -> {"none", "sent"}] /\ v4'[i] = "none"
          /\ \A j \in Polling!Loads \ {i} : v4'[j] = v4[j]
      BY <1>2, <2>1
    <2>3. CASE ~Polling!Counts(i)
      <3>1. /\ v5' = v5 /\ v6' = v6 /\ v7' = v7 /\ v8' = v8 /\ v9' = v9 /\ v10' = v10
            /\ v11' = v11 /\ v12' = v12
        BY <1>10, <2>3 DEF Polling!Answer, Polling!Succeed, Polling!Fail, Polling!shown
      <3>2. Polling!TypeOK'
        BY <1>1, <1>2, <2>1, <2>2, <3>1 DEF Polling!TypeOK
      <3>3. Polling!BusyIsLoad'
        BY <1>1, <1>2, <2>1, <2>2, <2>3, <3>1 DEF Polling!BusyIsLoad, Polling!Counts
      <3> QED
        BY <3>1, <3>2, <3>3 DEF PollingInv, Polling!Delay
    <2>4. CASE Polling!Counts(i)
      <3>1. i = v3 /\ v9' = FALSE /\ v10' = FALSE /\ v11' = i /\ v12' = 0
        BY <1>10, <2>4
        DEF Polling!Answer, Polling!Succeed, Polling!Fail, Polling!Counts, Polling!Loaded
      <3>2. /\ v7' \in Given.polling.values \cup {Given.polling.null}
            /\ v8' \in BOOLEAN
        BY <1>2, <1>10, <2>4 DEF Polling!Answer, Polling!Succeed, Polling!Fail
      <3>3. \/ v6' = 0 /\ v5' \in {v5, Polling!Delay(0), Polling!Off}
            \/ /\ v6' = Polling!AtMost(v6 + 1, 4)
               /\ v5' \in {Polling!Delay(v6'), Polling!Off}
        <4>1. Polling!AtMost(v6 + 1, 4) > 0
          BY <1>1 DEF Polling!AtMost
        <4> QED
          BY <1>10, <2>4, <4>1
          DEF Polling!Answer, Polling!Succeed, Polling!Fail, Polling!ArmOnAnswer, Polling!Arm
      <3>4. /\ v6' \in 0..4 /\ v5' \in 0..Polling!Off
            /\ v6' # 0 => Polling!Delay(v6') <= v5' /\ v5' \in Nat
        <4>1. Polling!AtMost(v6 + 1, 4) \in 0..4
          BY <1>1 DEF Polling!AtMost
        <4>2. /\ Polling!Delay(0) \in 1..Given.polling.backoff
              /\ v6' \in 0..4 => Polling!Delay(v6') \in 1..Given.polling.backoff
          BY DelayType
        <4> QED
          BY <1>1, <3>3, <4>1, <4>2 DEF Polling!Off
      <3>5. Polling!TypeOK'
        <4>1. v12' \in 0..Given.polling.backoff
          BY <1>1, <3>1
        <4>2. v6' \in 0..4 /\ v5' \in 0..Polling!Off
          BY <3>4
        <4> QED
          BY <1>1, <1>2, <2>1, <2>2, <3>1, <3>2, <4>1, <4>2 DEF Polling!TypeOK
      <3>6. Polling!BusyIsLoad'
        BY <2>1, <2>2, <3>1 DEF Polling!BusyIsLoad
      <3>7. v6' # 0 => Polling!Delay(v6') <= v12' + v5'
        BY <3>1, <3>4
      <3> QED
        BY <3>5, <3>6, <3>7 DEF PollingInv, Polling!Delay
    <2> QED
      BY <2>3, <2>4
  <1> QED
    BY <1>4, <1>5, <1>6, <1>8, <1>9, <1>10, <1>7
    DEF Polling!Next, Polling!Fire, Polling!Refresh

(* NewestIsShown and BackoffIsKept in a state of the invariant. *)
LEMMA PollingMeant ==
    ASSUME PollingAssumption, PollingInv, Polling!Next
    PROVE  Polling!NewestIsShown /\ Polling!BackoffIsKept
  <1>1. ASSUME v11' # v11
        PROVE  v11' = v3
    BY <1>1 DEF Polling!Next, Polling!Fire, Polling!Refresh, Polling!Tick, Polling!Pass,
         Polling!Answer, Polling!Succeed, Polling!Fail, Polling!Counts, Polling!Hide,
         Polling!Show, Polling!Switch, Polling!ChangeFetcher, Polling!shown
  <1>2. ASSUME v5 = 0, v6 # 0
        PROVE  v12 >= Polling!Delay(v6)
    <2>1. /\ v6 \in 0..4 /\ v12 \in Nat /\ v12 + v5 = v12
          /\ Polling!Delay(v6) <= v12 + v5
      BY <1>2 DEF PollingInv, Polling!TypeOK
    <2>2. Polling!Delay(v6) \in Nat
      BY <2>1, DelayType DEF PollingAssumption, Polling!PollingBoundAssumption
    <2> QED
      BY <2>1, <2>2
  <1> QED
    BY <1>1, <1>2 DEF Polling!NewestIsShown, Polling!BackoffIsKept, Polling!Fire

LEMMA PollingStays == ASSUME PollingInv, UNCHANGED vars PROVE PollingInv'
  BY DEF vars,
    PollingInv, Polling!TypeOK, Polling!BusyIsLoad

-----------------------------------------------------------------------------
(* Routes, rail and sidebar *)

(* useBodyScrollLock: an open sidebar is in the shell, and what its lock   *)
(* will restore is a page that scrolls.                                    *)
LockInv ==
    IF v4 THEN Shell!Shell(v3, v1, v2) /\ v5 = "hidden" /\ v6 = "auto"
    ELSE v5 = "auto"

ShellInv == Shell!TypeOK /\ LockInv

LEMMA ShellInit ==
    ASSUME Shell!BoundAssumption, Shell!Init
    PROVE  ShellInv
  <1>1. v1 \in Shell!Roles \cup {NoUser} /\ v2 \in BOOLEAN /\ v4 = FALSE /\ v3 \in Shell!Paths
    BY DEF Shell!Init
  <1>2. v5 = "auto" /\ v6 = "auto" /\ v7 \in 0..Given.shell.visits
    BY DEF Shell!Init, Shell!BoundAssumption
  <1> QED
    BY <1>1, <1>2 DEF ShellInv, LockInv, Shell!TypeOK

LEMMA LockStep ==
    ASSUME ShellInv, NEW is \in BOOLEAN, v4' = is, Shell!Lock(v4, is),
           is => Shell!Shell(v3', v1', v2')
    PROVE  LockInv' /\ v4' \in BOOLEAN /\ {v5', v6'} \subseteq {"auto", "hidden"}
  <1>1. v4 \in BOOLEAN /\ {v5, v6} \subseteq {"auto", "hidden"} /\ LockInv
    BY DEF ShellInv, Shell!TypeOK
  <1>2. CASE ~v4 /\ is
    BY <1>1, <1>2 DEF LockInv, Shell!Lock
  <1>3. CASE v4 /\ ~is
    BY <1>1, <1>3 DEF LockInv, Shell!Lock
  <1>4. CASE v4 /\ is
    BY <1>1, <1>4 DEF LockInv, Shell!Lock, Shell!scroll
  <1>5. CASE ~v4 /\ ~is
    BY <1>1, <1>5 DEF LockInv, Shell!Lock, Shell!scroll
  <1> QED
    BY <1>1, <1>2, <1>3, <1>4, <1>5

LEMMA ShellStep ==
    ASSUME Shell!BoundAssumption, ShellInv, Shell!Next
    PROVE  ShellInv'
  <1>1. /\ v1 \in Shell!Roles \cup {NoUser} /\ v2 \in BOOLEAN /\ v3 \in Shell!Paths
        /\ v4 \in BOOLEAN
    BY DEF ShellInv, Shell!TypeOK
  <1>2. /\ v7 \in 0..Given.shell.visits /\ Given.shell.visits \in Nat
    BY DEF ShellInv, Shell!TypeOK, Shell!BoundAssumption
  <1>3. ASSUME Shell!Render
        PROVE  LockInv' /\ v4' \in BOOLEAN /\ {v5', v6'} \subseteq {"auto", "hidden"}
    <2>1. /\ v4' \in BOOLEAN /\ (v4' => Shell!Shell(v3', v1', v2'))
          /\ Shell!Lock(v4, v4')
      BY <1>3 DEF Shell!Render
    <2> QED
      BY <2>1, LockStep
  <1>4. \A p \in Shell!Paths, u \in Shell!Roles \cup {NoUser} :
          Shell!Redirect(p, u) \in Shell!Paths
    BY DEF Shell!Redirect, Shell!HomeRoute, Shell!Paths, Shell!Public, Shell!Guarded
  <1>5. CASE Shell!Render
    <2>1. /\ v1' \in Shell!Roles \cup {NoUser} /\ v2' \in BOOLEAN /\ v3' \in Shell!Paths
      BY <1>1, <1>4, <1>5
      DEF Shell!Next, Shell!Boot, Shell!SignIn, Shell!LogOut, Shell!Go, Shell!FollowRedirect,
          Shell!OpenSidebar, Shell!CloseSidebar, Shell!session, Shell!Paths, Shell!Public,
          Shell!Guarded
    <2>2. v7' \in 0..Given.shell.visits
      <3>1. v7' = v7 \/ (v7 < Given.shell.visits /\ v7' = v7 + 1)
        BY DEF Shell!Next, Shell!Boot, Shell!SignIn, Shell!LogOut, Shell!Go,
               Shell!FollowRedirect, Shell!OpenSidebar, Shell!CloseSidebar
      <3> QED
        BY <1>2, <3>1
    <2> QED
      BY <1>3, <1>5, <2>1, <2>2 DEF ShellInv, Shell!TypeOK
  <1>6. CASE Shell!OpenSidebar
    <2>1. /\ v4' = TRUE /\ Shell!Lock(v4, TRUE) /\ Shell!Shell(v3', v1', v2')
          /\ v1' = v1 /\ v2' = v2 /\ v3' = v3 /\ v7' = v7
      <3>1. ~v4 /\ Shell!Lock(FALSE, TRUE)
        BY <1>6 DEF Shell!OpenSidebar
      <3> QED
        BY <1>1, <1>6, <3>1 DEF Shell!OpenSidebar, Shell!session, Shell!Lock
    <2>2. LockInv' /\ v4' \in BOOLEAN /\ {v5', v6'} \subseteq {"auto", "hidden"}
      BY <2>1, LockStep
    <2> QED
      BY <1>1, <1>2, <2>1, <2>2 DEF ShellInv, Shell!TypeOK
  <1>7. CASE Shell!CloseSidebar
    <2>1. /\ v4' = FALSE /\ Shell!Lock(v4, FALSE)
          /\ v1' = v1 /\ v2' = v2 /\ v3' = v3 /\ v7' = v7
      <3>1. v4 /\ Shell!Lock(TRUE, FALSE)
        BY <1>7 DEF Shell!CloseSidebar
      <3> QED
        BY <1>1, <1>7, <3>1 DEF Shell!CloseSidebar, Shell!session, Shell!Lock
    <2>2. LockInv' /\ v4' \in BOOLEAN /\ {v5', v6'} \subseteq {"auto", "hidden"}
      BY <2>1, LockStep
    <2> QED
      BY <1>1, <1>2, <2>1, <2>2 DEF ShellInv, Shell!TypeOK
  <1> QED
    BY <1>5, <1>6, <1>7
    DEF Shell!Next, Shell!Boot, Shell!SignIn, Shell!LogOut, Shell!Go, Shell!FollowRedirect

(* What is shown, and offered, in a state of the invariant. *)
LEMMA ShellShown ==
    ASSUME ShellInv
    PROVE  Shell!PagesAreServed /\ Shell!LinksLead /\ Shell!ScrollLockedUnderSidebar
  <1>1. v1 \in Shell!Roles \cup {NoUser} /\ v3 \in Shell!Paths /\ v4 \in BOOLEAN
    BY DEF ShellInv, Shell!TypeOK
  <1>2. ASSUME Shell!PageShown, v3 \in Shell!Guarded
        PROVE  Shell!Redirect(v3, v1) = v3 /\ v3 \notin Shell!Public \cup {"*"}
               /\ v1 # NoUser
    <2>1. Shell!Redirect(v3, v1) = v3
      BY <1>2 DEF Shell!PageShown, Shell!Redirecting
    <2>2. v3 \notin Shell!Public \cup {"*"}
      BY <1>2 DEF Shell!Guarded, Shell!Public
    <2>3. v1 = NoUser => Shell!Redirect(v3, v1) = "/login"
      BY <1>2 DEF Shell!Redirect
    <2> QED
      BY <2>1, <2>2, <2>3 DEF Shell!Public
  <1>3. Shell!PagesAreServed
    <2>1. ASSUME Shell!PageShown, v3 \in Shell!Guarded
          PROVE  Shell!Serves(v3, v1)
      BY <1>1, <1>2, <2>1
      DEF Shell!Serves, Shell!Redirect, Shell!RoleOnly, Shell!Guarded, Shell!Public,
          Shell!Reviewers, Shell!Roles, Shell!HomeRoute
    <2> QED
      BY <1>2, <2>1 DEF Shell!PagesAreServed
  <1>4. Shell!LinksLead
    <2>1. ASSUME Shell!PageShown, v3 \in Shell!Guarded,
                 NEW p \in Shell!Rail(v1) \cup Shell!PageLinks(v3)
          PROVE  \/ p = "/" \/ Shell!Redirect(p, v1) = p
                 \/ p = "/applications/:id/edit" /\ v1 # "applicant"
      <3>1. v1 \in Shell!Roles /\ v1 # NoUser /\ v1 \in Shell!RoleOnly(v3)
        BY <1>1, <1>2, <2>1 DEF Shell!Redirect, Shell!HomeRoute, Shell!RoleOnly, Shell!Public
      <3>2. p \notin Shell!Public \cup {"*"}
        BY <2>1 DEF Shell!Rail, Shell!PageLinks, Shell!Public
      <3>3. CASE p \in Shell!Rail(v1)
        <4>1. p = "/" \/ v1 \in Shell!RoleOnly(p)
          BY <3>1, <3>3 DEF Shell!Rail, Shell!RoleOnly, Shell!Reviewers, Shell!Roles
        <4> QED
          BY <3>1, <3>2, <4>1 DEF Shell!Redirect
      <3>4. CASE p \in Shell!PageLinks(v3)
        <4>1. \/ p = "/" \/ v1 \in Shell!RoleOnly(p)
              \/ p = "/applications/:id/edit" /\ v1 # "applicant"
          BY <1>2, <2>1, <3>1, <3>4
          DEF Shell!PageLinks, Shell!RoleOnly, Shell!Reviewers, Shell!Roles, Shell!HomeRoute,
              Shell!Redirect
        <4> QED
          BY <3>1, <3>2, <4>1 DEF Shell!Redirect
      <3> QED
        BY <2>1, <3>3, <3>4
    <2> QED
      BY <2>1 DEF Shell!LinksLead
  <1>5. Shell!ScrollLockedUnderSidebar
    BY <1>1 DEF ShellInv, LockInv, Shell!ScrollLockedUnderSidebar
  <1> QED
    BY <1>3, <1>4, <1>5

LEMMA ShellStays == ASSUME ShellInv, UNCHANGED vars PROVE ShellInv'
  BY DEF vars,
    ShellInv, Shell!TypeOK, LockInv

-----------------------------------------------------------------------------
(* useAnnouncer *)

(* useAnnouncer: the last timer is that of the last message, and messages  *)
(* are in the order of their pages.                                        *)
AnnouncerInv ==
    /\ v1 \in BOOLEAN
    /\ v2 \in Nat
    /\ v5 \in Seq([text : Given.announcer.texts, page : Nat])
    /\ v4 \in Seq(Nat)
    /\ \A n \in 1..Len(v5) : v5[n].page <= v2
    /\ \A m, n \in 1..Len(v5) : m <= n => v5[m].page <= v5[n].page
    /\ \A k \in 1..Len(v4) : v4[k] \in 1..Len(v5)
    /\ v4 # <<>> => v4[Len(v4)] = Len(v5)
    /\ Announcer!LastStands

LEMMA AnnouncerInit ==
    ASSUME Announcer!Init
    PROVE  AnnouncerInv
  <1>1. v1 = TRUE /\ v2 = 1 /\ v4 = <<>> /\ v5 = <<>> /\ Len(v5) = 0 /\ Len(v4) = 0
    BY DEF Announcer!Init
  <1>2. Announcer!LastStands
    BY <1>1 DEF Announcer!LastStands, Announcer!OfPage
  <1> QED
    BY <1>1, <1>2 DEF AnnouncerInv

LEMMA AnnouncerStep ==
    ASSUME AnnouncerInv, Announcer!Next
    PROVE  AnnouncerInv'
  <1> DEFINE Message == [text : Given.announcer.texts, page : Nat]
  <1>1. /\ v1 \in BOOLEAN /\ v2 \in Nat /\ v5 \in Seq(Message) /\ v4 \in Seq(Nat)
        /\ Len(v5) \in Nat /\ Len(v4) \in Nat
    BY DEF AnnouncerInv
  <1>8. \A n \in 1..Len(v5) : v5[n] \in Message
    <2> HIDE DEF Message
    <2> QED
      BY <1>1, ElementOfSeq
  <1>9. \A n \in 1..Len(v5) : v5[n].page \in Nat
    BY <1>8
  <1>2. /\ \A n \in 1..Len(v5) : v5[n].page <= v2
        /\ \A m, n \in 1..Len(v5) : m <= n => v5[m].page <= v5[n].page
        /\ \A k \in 1..Len(v4) : v4[k] \in 1..Len(v5)
        /\ v4 # <<>> => v4[Len(v4)] = Len(v5)
    BY DEF AnnouncerInv
  <1>3. v1 /\ (\E n \in 1..Len(v5) : v5[n].page = v2) /\ v4 = <<>> => v3 = v5[Len(v5)].text
    BY DEF AnnouncerInv, Announcer!LastStands, Announcer!OfPage
  <1>4. ASSUME Announcer!Announce
        PROVE  AnnouncerInv'
    <2>1. PICK text \in Given.announcer.texts : v5' = Append(v5, [text |-> text, page |-> v2])
      BY <1>4 DEF Announcer!Announce
    <2>2. /\ v4' = Append(v4, Len(v5')) /\ v2' = v2 /\ v1' = v1
      BY <1>4 DEF Announcer!Announce, Announcer!Start
    <2> DEFINE new == [text |-> text, page |-> v2]
    <2>3. new \in Message /\ new.page = v2
      BY <1>1
    <2> HIDE DEF new, Message
    <2>4. /\ v5' \in Seq(Message) /\ Len(v5') = Len(v5) + 1
          /\ \A n \in 1..Len(v5) : v5'[n] = v5[n]
          /\ v5'[Len(v5) + 1] = new
      BY <1>1, <2>1, <2>3 DEF new
    <2>5. /\ v4' \in Seq(Nat) /\ Len(v4') = Len(v4) + 1
          /\ \A k \in 1..Len(v4) : v4'[k] = v4[k]
          /\ v4'[Len(v4) + 1] = Len(v5') /\ v4' # <<>>
      BY <1>1, <2>2, <2>4
    <2>6. \A n \in 1..Len(v5') : v5'[n].page \in Nat /\ v5'[n].page <= v2'
      BY <1>1, <1>2, <1>9, <2>2, <2>3, <2>4
    <2>7. \A m, n \in 1..Len(v5') : m <= n => v5'[m].page <= v5'[n].page
      <3> SUFFICES ASSUME NEW m \in 1..Len(v5'), NEW n \in 1..Len(v5'), m <= n
                   PROVE  v5'[m].page <= v5'[n].page
        OBVIOUS
      <3>1. CASE n = Len(v5) + 1
        BY <1>1, <2>2, <2>3, <2>4, <2>6, <3>1
      <3>2. CASE n # Len(v5) + 1
        <4>1. m \in 1..Len(v5) /\ n \in 1..Len(v5)
          BY <1>1, <2>4, <3>2
        <4> QED
          BY <1>2, <2>4, <4>1
      <3> QED
        BY <3>1, <3>2
    <2>8. ASSUME NEW k \in 1..Len(v4')
          PROVE  v4'[k] \in 1..Len(v5')
      <3>1. CASE k = Len(v4) + 1
        BY <1>1, <2>4, <2>5, <3>1
      <3>2. CASE k # Len(v4) + 1
        <4>1. k \in 1..Len(v4)
          BY <1>1, <2>5, <3>2
        <4>2. v4'[k] = v4[k] /\ v4[k] \in 1..Len(v5)
          BY <1>2, <2>5, <4>1
        <4> QED
          BY <1>1, <2>4, <4>2
      <3> QED
        BY <3>1, <3>2
    <2>9. v4'[Len(v4')] = Len(v5')
      BY <2>5
    <2>10. Announcer!LastStands'
      BY <2>5 DEF Announcer!LastStands
    <2> QED
      BY <1>1, <2>2, <2>4, <2>5, <2>6, <2>7, <2>8, <2>9, <2>10 DEF AnnouncerInv, Message
  <1>5. ASSUME Announcer!Fire
        PROVE  AnnouncerInv'
    <2>1. /\ v4 # <<>> /\ v4' = Tail(v4) /\ v1' = v1 /\ v2' = v2 /\ v5' = v5
          /\ v3' = IF v1 /\ v5[Head(v4)].page = v2 THEN v5[Head(v4)].text ELSE v3
      BY <1>5 DEF Announcer!Fire, Announcer!ToShown
    <2>2. /\ v4' \in Seq(Nat) /\ Len(v4') = Len(v4) - 1 /\ Head(v4) = v4[1] /\ Len(v4) > 0
          /\ \A k \in 1..Len(v4') : v4'[k] = v4[k + 1]
      BY <1>1, <2>1
    <2>3. \A k \in 1..Len(v4') : v4'[k] \in 1..Len(v5')
      BY <1>1, <1>2, <2>1, <2>2
    <2>4. v4' # <<>> => v4'[Len(v4')] = Len(v5')
      <3>1. v4' # <<>> => Len(v4') > 0
        BY <2>2
      <3> QED
        BY <1>1, <1>2, <2>1, <2>2, <3>1
    <2>5. Announcer!LastStands'
      <3> SUFFICES ASSUME v1, NEW n \in 1..Len(v5), v5[n].page = v2, v4' = <<>>
                   PROVE  v3' = v5[Len(v5)].text
        BY <2>1 DEF Announcer!LastStands, Announcer!OfPage
      <3>3. Len(v4') = 0
        OBVIOUS
      <3>4. Len(v4) = 1
        BY <1>1, <2>2, <3>3
      <3>1. Head(v4) = Len(v5) /\ Len(v5) \in 1..Len(v5)
        BY <1>1, <1>2, <2>1, <2>2, <3>4
      <3>2. v5[Len(v5)].page = v2
        <4>1. n <= Len(v5)
          BY <1>1
        <4>2. v5[n].page <= v5[Len(v5)].page /\ v5[Len(v5)].page <= v2
          BY <1>2, <3>1, <4>1
        <4>3. v5[Len(v5)].page \in Nat
          BY <1>9, <3>1
        <4> QED
          BY <1>1, <4>2, <4>3
      <3> QED
        BY <2>1, <3>1, <3>2
    <2> QED
      BY <1>1, <1>2, <2>1, <2>2, <2>3, <2>4, <2>5 DEF AnnouncerInv
  <1>6. ASSUME Announcer!Unmount
        PROVE  AnnouncerInv'
    <2>1. v1' = FALSE /\ v2' = v2 /\ v4' = v4 /\ v5' = v5
      BY <1>6 DEF Announcer!Unmount
    <2>2. Announcer!LastStands' /\ v1' \in BOOLEAN
      BY <2>1 DEF Announcer!LastStands
    <2> QED
      BY <1>1, <1>2, <2>1, <2>2 DEF AnnouncerInv
  <1>7. ASSUME Announcer!Mount
        PROVE  AnnouncerInv'
    <2>1. v1' = TRUE /\ v2' = v2 + 1 /\ v4' = v4 /\ v5' = v5
      BY <1>7 DEF Announcer!Mount
    <2>2. \A n \in 1..Len(v5') : v5'[n].page < v2' /\ v5'[n].page <= v2'
      BY <1>1, <1>9, <1>2, <2>1
    <2>3. Announcer!LastStands'
      <3>1. \A n \in 1..Len(v5') : v5'[n].page # v2'
        BY <1>1, <1>9, <2>1, <2>2
      <3> QED
        BY <3>1 DEF Announcer!LastStands, Announcer!OfPage
    <2>4. v1' \in BOOLEAN /\ v2' \in Nat
      BY <1>1, <2>1
    <2> QED
      BY <1>1, <1>2, <2>1, <2>2, <2>3, <2>4 DEF AnnouncerInv
  <1> QED
    BY <1>4, <1>5, <1>6, <1>7 DEF Announcer!Next

LEMMA AnnouncerStays == ASSUME AnnouncerInv, UNCHANGED vars PROVE AnnouncerInv'
  BY DEF vars,
    AnnouncerInv, Announcer!LastStands, Announcer!OfPage

(* The types of the announcements: their pages are those mounted so far.   *)
AnnouncerTyped ==
    /\ AnnouncerInv
    /\ v2 \in 1..Given.announcer.mounts
    /\ \A n \in 1..Len(v5) : v5[n].page >= 1
    /\ v3 # Given.announcer.blank =>
         v1 /\ \E n \in 1..Len(v5) : v5[n].page = v2 /\ v5[n].text = v3

LEMMA AnnouncerType == ASSUME AnnouncerTyped PROVE Announcer!TypeOK
  <1> DEFINE Message == [text : Given.announcer.texts, page : Nat]
             Numbers == 1..Len(v5)
             Paged == [text : Given.announcer.texts, page : 1..v2]
  <1>1. /\ v5 \in Seq(Message) /\ Len(v5) \in Nat /\ v4 \in Seq(Nat) /\ Len(v4) \in Nat
        /\ v2 \in Nat
        /\ \A k \in 1..Len(v4) : v4[k] \in Numbers
    BY DEF AnnouncerTyped, AnnouncerInv
  <1>2. ASSUME NEW n \in 1..Len(v5) PROVE v5[n] \in Paged
    <2>1. v5[n] \in Message
      <3> HIDE DEF Message
      <3> QED
        BY <1>1, ElementOfSeq
    <2>2. v5[n].page >= 1 /\ v5[n].page <= v2
      BY DEF AnnouncerTyped, AnnouncerInv
    <2> QED
      BY <1>1, <2>1, <2>2
  <1> HIDE DEF Message, Numbers, Paged
  <1>3. v5 \in Seq(Paged)
    BY <1>1, <1>2
  <1>4. v4 \in Seq(Numbers)
    BY <1>1
  <1> QED
    BY <1>3, <1>4 DEF Numbers, Paged, AnnouncerTyped, AnnouncerInv, Announcer!TypeOK,
       Announcer!OfPage

LEMMA AnnouncerTypedInit ==
    ASSUME Announcer!AnnouncerAssumption, Announcer!Init PROVE AnnouncerTyped
  <1>1. v1 = TRUE /\ v2 = 1 /\ v5 = <<>> /\ Len(v5) = 0 /\ v3 = Given.announcer.blank
    BY DEF Announcer!Init
  <1>2. Given.announcer.mounts \in Nat \ {0}
    BY DEF Announcer!AnnouncerAssumption
  <1> QED
    BY <1>1, <1>2, AnnouncerInit DEF AnnouncerTyped

LEMMA AnnouncerTypedStep ==
    ASSUME Announcer!AnnouncerAssumption, AnnouncerTyped, Announcer!Next PROVE AnnouncerTyped'
  <1> DEFINE Message == [text : Given.announcer.texts, page : Nat]
  <1>1. AnnouncerInv'
    BY AnnouncerStep DEF AnnouncerTyped
  <1>2. /\ v5 \in Seq(Message) /\ Len(v5) \in Nat /\ v4 \in Seq(Nat)
        /\ \A n \in 1..Len(v5) : v5[n].page >= 1
        /\ \A k \in 1..Len(v4) : v4[k] \in 1..Len(v5)
        /\ Given.announcer.mounts \in Nat /\ v2 \in 1..Given.announcer.mounts
        /\ v3 # Given.announcer.blank =>
             v1 /\ \E n \in 1..Len(v5) : v5[n].page = v2 /\ v5[n].text = v3
    BY DEF AnnouncerTyped, AnnouncerInv, Announcer!AnnouncerAssumption
  <1>3. CASE Announcer!Announce
    <2>1. PICK text \in Given.announcer.texts : v5' = Append(v5, [text |-> text, page |-> v2])
      BY <1>3 DEF Announcer!Announce
    <2>2. v2' = v2 /\ v3' = Given.announcer.blank
      BY <1>3 DEF Announcer!Announce
    <2> DEFINE new == [text |-> text, page |-> v2]
    <2>3. new \in Message /\ new.page = v2
      BY <1>2
    <2> HIDE DEF new, Message
    <2>4. /\ Len(v5') = Len(v5) + 1 /\ v5'[Len(v5) + 1] = new
          /\ \A n \in 1..Len(v5) : v5'[n] = v5[n]
      BY <1>2, <2>1, <2>3 DEF new
    <2>5. \A n \in 1..Len(v5') : v5'[n].page >= 1
      BY <1>2, <2>3, <2>4
    <2> QED
      BY <1>1, <1>2, <2>2, <2>5 DEF AnnouncerTyped
  <1>4. CASE Announcer!Fire
    <2>1. /\ v4 # <<>> /\ v1' = v1 /\ v2' = v2 /\ v5' = v5
          /\ v3' = IF v1 /\ v5[Head(v4)].page = v2 THEN v5[Head(v4)].text ELSE v3
      BY <1>4 DEF Announcer!Fire, Announcer!ToShown
    <2>2. Head(v4) \in 1..Len(v5)
      BY <1>2, <2>1
    <2> QED
      BY <1>1, <1>2, <2>1, <2>2 DEF AnnouncerTyped
  <1>5. CASE Announcer!Unmount
    BY <1>1, <1>2, <1>5 DEF AnnouncerTyped, Announcer!Unmount
  <1>6. CASE Announcer!Mount
    <2>1. /\ ~v1 /\ v2 < Given.announcer.mounts /\ v2' = v2 + 1 /\ v3' = v3 /\ v5' = v5
      BY <1>6 DEF Announcer!Mount
    <2>2. v3' = Given.announcer.blank /\ v2' \in 1..Given.announcer.mounts
      BY <1>2, <2>1
    <2> QED
      BY <1>1, <1>2, <2>1, <2>2 DEF AnnouncerTyped
  <1> QED
    BY <1>3, <1>4, <1>5, <1>6 DEF Announcer!Next

LEMMA AnnouncerTypedStays == ASSUME AnnouncerTyped, UNCHANGED vars PROVE AnnouncerTyped'
  BY AnnouncerStays DEF vars, AnnouncerTyped

-----------------------------------------------------------------------------
(* useToast *)

(* useToast: the notices are shown in the order of their ids. *)
ToastsInv ==
    /\ v1 \in Seq(Nat)
    /\ Len(v1) <= 4
    /\ \A m, n \in 1..Len(v1) : m < n => v1[m] < v1[n]
    /\ \A m \in 1..Len(v1) : v1[m] < v2
    /\ v2 \in Nat
    /\ v3 \in [Toasts!Ids -> 0..Toasts!Done]
    /\ Toasts!NoticeIsKept

LEMMA ToastsShown ==
    ASSUME v1 \in Seq(Nat), NEW id
    PROVE  id \in Toasts!ToSet(v1) <=> \E m \in 1..Len(v1) : v1[m] = id
  BY DEF Toasts!ToSet

(* Removing one item shifts those above it. *)
LEMMA Removed ==
    ASSUME NEW s \in Seq(Nat), NEW k \in 1..Len(s)
    PROVE  /\ Toasts!RemoveAt(s, k) \in Seq(Nat)
           /\ Len(Toasts!RemoveAt(s, k)) = Len(s) - 1
           /\ \A m \in 1..(Len(s) - 1) :
                Toasts!RemoveAt(s, k)[m] = IF m < k THEN s[m] ELSE s[m + 1]
  <1> DEFINE low == SubSeq(s, 1, k - 1)
             high == SubSeq(s, k + 1, Len(s))
  <1>1. Len(s) \in Nat /\ k \in Nat
    OBVIOUS
  <1>2. low \in Seq(Nat) /\ Len(low) = k - 1 /\ \A m \in 1..(k - 1) : low[m] = s[m]
    BY <1>1, SubSeqProperties
  <1>3. high \in Seq(Nat) /\ Len(high) = Len(s) - k
        /\ \A m \in 1..(Len(s) - k) : high[m] = s[k + m]
    <2>1. k + 1 \in Int /\ Len(s) \in Int /\ \A i \in (k + 1)..Len(s) : s[i] \in Nat
      BY <1>1
    <2>2. /\ high \in Seq(Nat)
          /\ Len(high) = IF k + 1 <= Len(s) THEN Len(s) - (k + 1) + 1 ELSE 0
          /\ \A m \in 1..(Len(s) - (k + 1) + 1) : high[m] = s[(k + 1) + m - 1]
      BY <2>1, SubSeqProperties
    <2> HIDE DEF high
    <2>3. /\ Len(s) - (k + 1) + 1 = Len(s) - k
          /\ \A m \in 1..(Len(s) - k) : (k + 1) + m - 1 = k + m
          /\ ~(k + 1 <= Len(s)) => Len(s) - k = 0
      BY <1>1
    <2>4. Len(high) = Len(s) - k
      BY <2>2, <2>3
    <2>5. \A m \in 1..(Len(s) - k) : high[m] = s[k + m]
      <3> TAKE m \in 1..(Len(s) - k)
      <3>1. high[m] = s[(k + 1) + m - 1]
        BY <2>2, <2>3
      <3> QED
        BY <2>3, <3>1
    <2> QED
      BY <2>2, <2>4, <2>5
  <1>4. Toasts!RemoveAt(s, k) = low \o high
    BY DEF Toasts!RemoveAt
  <1> HIDE DEF low, high
  <1>5. /\ low \o high \in Seq(Nat)
        /\ Len(low \o high) = Len(low) + Len(high)
        /\ \A m \in 1..(Len(low) + Len(high)) :
             (low \o high)[m] = IF m <= Len(low) THEN low[m] ELSE high[m - Len(low)]
    BY <1>2, <1>3, ConcatProperties
  <1>6. Len(low) + Len(high) = Len(s) - 1
    BY <1>1, <1>2, <1>3
  <1>7. ASSUME NEW m \in 1..(Len(s) - 1)
        PROVE  (low \o high)[m] = IF m < k THEN s[m] ELSE s[m + 1]
    <2>1. (low \o high)[m] = IF m <= Len(low) THEN low[m] ELSE high[m - Len(low)]
      BY <1>5, <1>6
    <2>2. CASE m < k
      BY <1>1, <1>2, <2>1, <2>2
    <2>3. CASE ~(m < k)
      <3>1. m - Len(low) \in 1..(Len(s) - k) /\ k + (m - Len(low)) = m + 1 /\ ~(m <= Len(low))
        BY <1>1, <1>2, <2>3
      <3>2. high[m - Len(low)] = s[k + (m - Len(low))]
        BY <1>3, <3>1
      <3> QED
        BY <2>1, <2>3, <3>1, <3>2
    <2> QED
      BY <2>2, <2>3
  <1> QED
    BY <1>4, <1>5, <1>6, <1>7

LEMMA ToastsInit ==
    ASSUME Toasts!ToastsAssumption, Toasts!Init
    PROVE  ToastsInv
  <1>1. v1 = <<>> /\ v2 = 1 /\ Len(v1) = 0
    BY DEF Toasts!Init
  <1>2. v3 \in [Toasts!Ids -> 0..Toasts!Done] /\ \A id \in Toasts!Ids : id >= 1
    BY DEF Toasts!Init, Toasts!ToastsAssumption, Toasts!Done, Toasts!Ids
  <1>3. Toasts!NoticeIsKept
    BY <1>1 DEF Toasts!NoticeIsKept, Toasts!Ids
  <1> QED
    BY <1>1, <1>2, <1>3 DEF ToastsInv

(* A notice and its timer are gone, the others are as they were. *)
LEMMA ItemGone ==
    ASSUME ToastsInv, NEW id, v1' = Toasts!Without(id), v2' = v2
    PROVE  /\ v1' \in Seq(Nat) /\ Len(v1') <= 4
           /\ \A m, n \in 1..Len(v1') : m < n => v1'[m] < v1'[n]
           /\ \A m \in 1..Len(v1') : v1'[m] < v2'
           /\ \A i : i # id /\ i \in Toasts!ToSet(v1) => i \in Toasts!ToSet(v1')
  <1>1. /\ v1 \in Seq(Nat) /\ Len(v1) \in Nat /\ Len(v1) <= 4
        /\ \A m, n \in 1..Len(v1) : m < n => v1[m] < v1[n]
        /\ \A m \in 1..Len(v1) : v1[m] < v2
    BY DEF ToastsInv
  <1>2. CASE id \notin Toasts!ToSet(v1)
    BY <1>1, <1>2 DEF Toasts!Without
  <1>3. CASE id \in Toasts!ToSet(v1)
    <2> DEFINE k == CHOOSE m \in 1..Len(v1) : v1[m] = id
    <2>1. k \in 1..Len(v1) /\ v1[k] = id
      BY <1>1, <1>3, ToastsShown
    <2>2. v1' = Toasts!RemoveAt(v1, k)
      BY <1>3 DEF Toasts!Without
    <2> HIDE DEF k
    <2>3. /\ v1' \in Seq(Nat) /\ Len(v1') = Len(v1) - 1
          /\ \A m \in 1..(Len(v1) - 1) : v1'[m] = IF m < k THEN v1[m] ELSE v1[m + 1]
      <3>1. v1 \in Seq(Nat)
        BY <1>1
      <3> QED
        BY <2>1, <2>2, <3>1, Removed
    <2>4. ASSUME NEW m \in 1..Len(v1')
          PROVE  v1'[m] < v2'
      BY <1>1, <2>3
    <2>5. ASSUME NEW m \in 1..Len(v1'), NEW n \in 1..Len(v1'), m < n
          PROVE  v1'[m] < v1'[n]
      <3>1. /\ m \in 1..Len(v1) /\ n \in 1..Len(v1)
            /\ m + 1 \in 1..Len(v1) /\ n + 1 \in 1..Len(v1)
        BY <1>1, <2>3
      <3>2. /\ v1'[m] = IF m < k THEN v1[m] ELSE v1[m + 1]
            /\ v1'[n] = IF n < k THEN v1[n] ELSE v1[n + 1]
        BY <2>3
      <3> QED
        BY <1>1, <2>1, <2>5, <3>1, <3>2
    <2>6. ASSUME NEW i, i # id, i \in Toasts!ToSet(v1)
          PROVE  i \in Toasts!ToSet(v1')
      <3>1. PICK m \in 1..Len(v1) : v1[m] = i
        BY <1>1, <2>6, ToastsShown
      <3>2. m # k
        BY <2>1, <2>6, <3>1
      <3>3. CASE m < k
        <4>1. m \in 1..Len(v1') /\ v1'[m] = i
          BY <1>1, <2>1, <2>3, <3>1, <3>3
        <4> QED
          BY <2>3, <4>1, ToastsShown DEF Toasts!ToSet
      <3>4. CASE m > k
        <4>1. m - 1 \in 1..Len(v1') /\ v1'[m - 1] = i
          BY <1>1, <2>1, <2>3, <3>1, <3>4
        <4> QED
          BY <2>3, <4>1 DEF Toasts!ToSet
      <3> QED
        BY <1>1, <2>1, <3>1, <3>2, <3>3, <3>4
    <2> QED
      BY <1>1, <2>3, <2>4, <2>5, <2>6
  <1> QED
    BY <1>2, <1>3

LEMMA ToastsStep ==
    ASSUME Toasts!ToastsAssumption, ToastsInv, Toasts!Next
    PROVE  ToastsInv'
  <1>1. /\ v1 \in Seq(Nat) /\ Len(v1) \in Nat /\ Len(v1) <= 4 /\ v2 \in Nat
        /\ \A m, n \in 1..Len(v1) : m < n => v1[m] < v1[n]
        /\ \A m \in 1..Len(v1) : v1[m] < v2
        /\ \A m \in 1..Len(v1) : v1[m] \in Nat
    BY ElementOfSeq DEF ToastsInv
  <1>8. Len(v1) \in 0..4 /\ (Len(v1) <= 3 \/ Len(v1) = 4)
    <2>1. Len(v1) \in Nat /\ Len(v1) <= 4
      BY <1>1
    <2>2. \A n \in Nat : n <= 4 => n \in 0..4 /\ (n <= 3 \/ n = 4)
      OBVIOUS
    <2> QED
      BY <2>1, <2>2
  <1>2. /\ v3 \in [Toasts!Ids -> 0..Toasts!Done]
        /\ Toasts!Done = Given.toasts.life + 1 /\ Given.toasts.life \in Nat \ {0}
        /\ Toasts!Ids \subseteq Nat
    BY DEF ToastsInv, Toasts!Done, Toasts!Ids, Toasts!ToastsAssumption
  <1>3. Toasts!NoticeIsKept
    BY DEF ToastsInv
  <1>4. ASSUME Toasts!Notify
        PROVE  ToastsInv'
    <2> DEFINE kept == Toasts!LastThree
    <2>1. /\ v2 \in Toasts!Ids /\ v2' = v2 + 1 /\ v1' = Append(kept, v2) /\ v4' = v4
          /\ v3' = [v3 EXCEPT ![v2] = Given.toasts.life]
      BY <1>4 DEF Toasts!Notify, Toasts!StartTimer
    <2>2. /\ kept \in Seq(Nat) /\ Len(kept) <= 3 /\ Len(kept) \in Nat
          /\ \A m \in 1..Len(kept) : kept[m] = v1[m + (Len(v1) - Len(kept))]
          /\ Len(kept) = IF Len(v1) <= 3 THEN Len(v1) ELSE 3
      <3>1. CASE Len(v1) <= 3
        BY <1>1, <3>1 DEF Toasts!LastThree
      <3>2. CASE Len(v1) = 4
        <4>1. kept = SubSeq(v1, 2, 4)
          BY <3>2 DEF Toasts!LastThree
        <4>2. /\ kept \in Seq(Nat) /\ Len(kept) = 3
              /\ \A m \in 1..3 : kept[m] = v1[m + 1]
          <5> HIDE DEF kept
          <5>1. \A i \in 2..4 : i \in 1..Len(v1)
            BY <3>2
          <5> QED
            BY <1>1, <3>2, <4>1, <5>1, SubSeqProperties
        <4> QED
          BY <3>2, <4>2
      <3> QED
        BY <1>8, <3>1, <3>2
    <2> HIDE DEF kept
    <2>3. /\ v1' \in Seq(Nat) /\ Len(v1') = Len(kept) + 1 /\ Len(v1') <= 4
          /\ \A m \in 1..Len(kept) : v1'[m] = kept[m]
          /\ v1'[Len(kept) + 1] = v2
      <3>1. v2 \in Nat
        BY <1>1
      <3>2. kept \in Seq(Nat) /\ Len(kept) \in Nat
        BY <2>2
      <3>3. /\ v1' \in Seq(Nat) /\ Len(v1') = Len(kept) + 1
            /\ \A m \in 1..Len(kept) : v1'[m] = kept[m]
            /\ v1'[Len(kept) + 1] = v2
        BY <2>1, <3>1, <3>2
      <3>4. Len(v1') <= 4
        BY <2>2, <3>3
      <3> QED
        BY <3>3, <3>4
    <2>10. \A m \in 1..Len(kept) : m + (Len(v1) - Len(kept)) \in 1..Len(v1)
      BY <1>8, <2>2
    <2>4. \A m \in 1..Len(kept) : v1'[m] < v2 /\ v1'[m] \in Nat
      BY <1>1, <2>2, <2>3, <2>10
    <2>5. ASSUME NEW m \in 1..Len(v1')
          PROVE  v1'[m] < v2'
      BY <1>1, <2>1, <2>2, <2>3, <2>4
    <2>6. ASSUME NEW m \in 1..Len(v1'), NEW n \in 1..Len(v1'), m < n
          PROVE  v1'[m] < v1'[n]
      <3> DEFINE shift == Len(v1) - Len(kept)
      <3>1. shift \in Nat
        BY <1>1, <2>2
      <3>2. CASE n = Len(kept) + 1
        BY <2>2, <2>3, <2>4, <2>6, <3>2
      <3>3. CASE n # Len(kept) + 1
        <4>1. m \in 1..Len(kept) /\ n \in 1..Len(kept)
          BY <2>2, <2>3, <2>6, <3>3
        <4>2. m + shift \in 1..Len(v1) /\ n + shift \in 1..Len(v1) /\ m + shift < n + shift
          BY <2>6, <2>10, <3>1, <4>1
        <4>3. v1'[m] = v1[m + shift] /\ v1'[n] = v1[n + shift]
          <5>1. v1'[m] = kept[m] /\ v1'[n] = kept[n]
            BY <2>3, <4>1
          <5>2. kept[m] = v1[m + shift] /\ kept[n] = v1[n + shift]
            BY <2>2, <4>1
          <5> QED
            BY <5>1, <5>2
        <4> HIDE DEF shift
        <4> QED
          BY <1>1, <4>2, <4>3
      <3> QED
        BY <3>2, <3>3
    <2>7. Toasts!NoticeIsKept'
      <3> SUFFICES ASSUME NEW id \in Toasts!Ids, id < v2', v3'[id] # Toasts!Done,
                          id \notin v4', id + 4 >= v2'
                   PROVE  id \in Toasts!ToSet(v1')
        BY DEF Toasts!NoticeIsKept, Toasts!Ids, Toasts!Done
      <3>1. CASE id = v2
        BY <2>2, <2>3, <3>1 DEF Toasts!ToSet
      <3>2. CASE id # v2
        <4>1. id < v2 /\ id + 4 >= v2 /\ v3[id] # Toasts!Done /\ id \notin v4
          BY <1>1, <1>2, <2>1, <3>2
        <4>2. PICK m \in 1..Len(v1) : v1[m] = id
          BY <1>1, <1>3, <4>1, ToastsShown DEF Toasts!NoticeIsKept
        <4> DEFINE shift == Len(v1) - Len(kept)
        <4>3. m > shift
          <5>1. CASE Len(v1) <= 3
            BY <1>1, <2>2, <5>1
          <5>2. CASE Len(v1) = 4
            <6>1. v1[1] < v1[2] /\ v1[2] < v1[3] /\ v1[3] < v1[4] /\ v1[4] < v2
              BY <1>1, <5>2
            <6>2. v1[1] \in Nat /\ v1[2] \in Nat /\ v1[3] \in Nat /\ v1[4] \in Nat
              BY <1>1, <5>2
            <6>3. m # 1
              BY <1>1, <1>2, <2>1, <4>2, <6>1, <6>2
            <6> QED
              BY <2>2, <5>2, <6>3
          <5> QED
            BY <1>8, <5>1, <5>2
        <4>4. m - shift \in 1..Len(kept) /\ (m - shift) + shift = m
          BY <1>8, <2>2, <4>3
        <4>5. v1'[m - shift] = id /\ m - shift \in 1..Len(v1')
          <5>1. v1'[m - shift] = kept[m - shift] /\ m - shift \in 1..Len(v1')
            BY <2>2, <2>3, <4>4
          <5>2. kept[m - shift] = v1[m]
            BY <2>2, <4>4
          <5> QED
            BY <4>2, <5>1, <5>2
        <4> QED
          BY <2>3, <4>5 DEF Toasts!ToSet
      <3> QED
        BY <3>1, <3>2
    <2>8. v3' \in [Toasts!Ids -> 0..Toasts!Done]
      BY <1>2, <2>1
    <2>9. v2' \in Nat
      BY <1>1, <2>1
    <2> QED
      BY <2>3, <2>5, <2>6, <2>7, <2>8, <2>9 DEF ToastsInv, Toasts!Ids, Toasts!Done
  <1>5. ASSUME NEW id \in Toasts!Ids, Toasts!Dismiss(id)
        PROVE  ToastsInv'
    <2>1. /\ v1' = Toasts!Without(id) /\ v4' = v4 \cup {id} /\ v2' = v2 /\ v3' = v3
      BY <1>5 DEF Toasts!Dismiss
    <2>2. /\ v1' \in Seq(Nat) /\ Len(v1') <= 4
          /\ \A m, n \in 1..Len(v1') : m < n => v1'[m] < v1'[n]
          /\ \A m \in 1..Len(v1') : v1'[m] < v2'
          /\ \A i : i # id /\ i \in Toasts!ToSet(v1) => i \in Toasts!ToSet(v1')
      BY <2>1, ItemGone
    <2>3. Toasts!NoticeIsKept'
      BY <1>3, <2>1, <2>2 DEF Toasts!NoticeIsKept, Toasts!Ids, Toasts!Done
    <2> QED
      BY <1>1, <1>2, <2>1, <2>2, <2>3 DEF ToastsInv, Toasts!Ids, Toasts!Done
  <1>6. ASSUME NEW id \in Toasts!Ids, Toasts!Expire(id)
        PROVE  ToastsInv'
    <2>1. /\ v1' = Toasts!Without(id) /\ v2' = v2 /\ v4' = v4
          /\ v3' = [v3 EXCEPT ![id] = Toasts!Done]
      BY <1>6 DEF Toasts!Expire
    <2>2. /\ v1' \in Seq(Nat) /\ Len(v1') <= 4
          /\ \A m, n \in 1..Len(v1') : m < n => v1'[m] < v1'[n]
          /\ \A m \in 1..Len(v1') : v1'[m] < v2'
          /\ \A i : i # id /\ i \in Toasts!ToSet(v1) => i \in Toasts!ToSet(v1')
      BY <2>1, ItemGone
    <2>3. /\ v3' \in [Toasts!Ids -> 0..Toasts!Done] /\ v3'[id] = Toasts!Done
          /\ \A i \in Toasts!Ids \ {id} : v3'[i] = v3[i]
      BY <1>2, <2>1
    <2>4. Toasts!NoticeIsKept'
      BY <1>3, <2>1, <2>2, <2>3 DEF Toasts!NoticeIsKept, Toasts!Ids, Toasts!Done
    <2> QED
      BY <1>1, <2>1, <2>2, <2>3, <2>4 DEF ToastsInv, Toasts!Ids, Toasts!Done
  <1>7. ASSUME Toasts!Pass
        PROVE  ToastsInv'
    <2>1. /\ v1' = v1 /\ v2' = v2 /\ v4' = v4 /\ \A id \in Toasts!Ids : v3[id] # 0
          /\ v3' = [id \in Toasts!Ids |-> IF v3[id] = Toasts!Done THEN Toasts!Done ELSE v3[id] - 1]
      BY <1>7 DEF Toasts!Pass
    <2>2. \A id \in Toasts!Ids :
            /\ v3[id] \in 1..Toasts!Done
            /\ v3'[id] = IF v3[id] = Toasts!Done THEN Toasts!Done ELSE v3[id] - 1
      BY <1>2, <2>1
    <2>3. v3' \in [Toasts!Ids -> 0..Toasts!Done]
      <3>1. DOMAIN v3' = Toasts!Ids /\ \A id \in Toasts!Ids : v3'[id] \in 0..Toasts!Done
        BY <1>2, <2>1, <2>2
      <3> QED
        BY <2>1, <3>1
    <2>4. Toasts!NoticeIsKept'
      BY <1>3, <2>1, <2>2 DEF Toasts!NoticeIsKept, Toasts!Ids, Toasts!Done
    <2> QED
      BY <1>1, <2>1, <2>3, <2>4 DEF ToastsInv, Toasts!Ids, Toasts!Done
  <1> QED
    BY <1>4, <1>5, <1>6, <1>7 DEF Toasts!Next

LEMMA ToastsStays == ASSUME ToastsInv, UNCHANGED vars PROVE ToastsInv'
  BY DEF vars,
    ToastsInv, Toasts!NoticeIsKept

(* The types of the notices and of their timers.                           *)
ToastsTyped ==
    /\ ToastsInv
    /\ \A m \in 1..Len(v1) : v1[m] \in Toasts!Ids
    /\ v2 \in 1..(Given.toasts.notices + 1)
    /\ v4 \subseteq Toasts!Ids

LEMMA ToastsType == ASSUME ToastsTyped PROVE Toasts!TypeOK
  <1>1. v1 \in Seq(Nat) /\ \A m \in 1..Len(v1) : v1[m] \in Toasts!Ids
    BY DEF ToastsTyped, ToastsInv
  <1>2. v1 \in Seq(Toasts!Ids)
    <2> DEFINE I == Toasts!Ids
    <2> HIDE DEF I
    <2>1. Len(v1) \in Nat /\ v1 = [m \in 1..Len(v1) |-> v1[m]] /\ \A m \in 1..Len(v1) : v1[m] \in I
      BY <1>1 DEF I
    <2>2. v1 \in Seq(I)
      BY <2>1
    <2> QED
      BY <2>2 DEF I
  <1> QED
    BY <1>2 DEF ToastsTyped, ToastsInv, Toasts!TypeOK

LEMMA ToastsTypedInit ==
    ASSUME Toasts!ToastsAssumption, Toasts!Init PROVE ToastsTyped
  <1>1. v1 = <<>> /\ v2 = 1 /\ Len(v1) = 0 /\ v4 = {} /\ Given.toasts.notices \in Nat
    BY DEF Toasts!Init, Toasts!ToastsAssumption
  <1> QED
    BY <1>1, ToastsInit DEF ToastsTyped

LEMMA ToastsTypedStep ==
    ASSUME Toasts!ToastsAssumption, ToastsTyped, Toasts!Next PROVE ToastsTyped'
  <1>1. /\ v1 \in Seq(Nat) /\ Len(v1) \in Nat /\ Given.toasts.notices \in Nat
        /\ v2 \in 1..(Given.toasts.notices + 1) /\ v4 \subseteq Toasts!Ids
        /\ Toasts!Ids = 1..Given.toasts.notices
        /\ \A m \in 1..Len(v1) : v1[m] \in Toasts!Ids
    BY DEF ToastsTyped, ToastsInv, Toasts!ToastsAssumption, Toasts!Ids
  <1>2. ToastsInv'
    BY ToastsStep DEF ToastsTyped
  <1>3. ASSUME NEW id, v1' = Toasts!Without(id)
        PROVE  \A m \in 1..Len(v1') : v1'[m] \in Toasts!Ids
    <2>1. CASE id \notin Toasts!ToSet(v1)
      BY <1>1, <1>3, <2>1 DEF Toasts!Without
    <2>2. CASE id \in Toasts!ToSet(v1)
      <3> DEFINE k == CHOOSE m \in 1..Len(v1) : v1[m] = id
      <3>1. k \in 1..Len(v1) /\ v1' = Toasts!RemoveAt(v1, k)
        BY <1>1, <1>3, <2>2, ToastsShown DEF Toasts!Without
      <3> HIDE DEF k
      <3>2. /\ Len(v1') = Len(v1) - 1
            /\ \A m \in 1..(Len(v1) - 1) : v1'[m] = IF m < k THEN v1[m] ELSE v1[m + 1]
        BY <1>1, <3>1, Removed
      <3> SUFFICES ASSUME NEW m \in 1..Len(v1') PROVE v1'[m] \in Toasts!Ids
        OBVIOUS
      <3>3. /\ m \in 1..(Len(v1) - 1) /\ m \in 1..Len(v1) /\ m + 1 \in 1..Len(v1)
        BY <1>1, <3>1, <3>2
      <3>4. v1'[m] \in {v1[m], v1[m + 1]}
        BY <3>2, <3>3
      <3> QED
        BY <1>1, <3>3, <3>4, Zenon
    <2> QED
      BY <2>1, <2>2
  <1>4. CASE Toasts!Notify
    <2>1. v2 \in Toasts!Ids /\ v2' = v2 + 1 /\ v4' = v4 /\ v1' = Append(Toasts!LastThree, v2)
      BY <1>4 DEF Toasts!Notify
    <2>2. /\ Toasts!LastThree \in Seq(Nat) /\ Len(Toasts!LastThree) \in Nat
          /\ \A m \in 1..Len(Toasts!LastThree) : Toasts!LastThree[m] \in Toasts!Ids
      <3>1. CASE Len(v1) <= 3
        BY <1>1, <3>1 DEF Toasts!LastThree
      <3>2. CASE ~(Len(v1) <= 3)
        <4>1. Len(v1) = 4
          <5>1. Len(v1) <= 4
            BY DEF ToastsTyped, ToastsInv
          <5>2. \A n \in Nat : n <= 4 /\ ~(n <= 3) => n = 4
            OBVIOUS
          <5> QED
            BY <1>1, <3>2, <5>1, <5>2, Zenon
        <4>2. Toasts!LastThree = SubSeq(v1, 2, 4)
          BY <3>2, <4>1 DEF Toasts!LastThree
        <4>3. /\ SubSeq(v1, 2, 4) \in Seq(Nat) /\ Len(SubSeq(v1, 2, 4)) = 3
              /\ \A m \in 1..3 : SubSeq(v1, 2, 4)[m] = v1[m + 1]
          BY <1>1, <4>1
        <4> QED
          BY <1>1, <4>1, <4>2, <4>3
      <3> QED
        BY <3>1, <3>2
    <2> DEFINE kept == Toasts!LastThree
    <2>6. kept \in Seq(Nat) /\ Len(kept) \in Nat /\ v1' = Append(kept, v2) /\ v2 \in Nat
          /\ \A m \in 1..Len(kept) : kept[m] \in Toasts!Ids
      BY <1>1, <2>1, <2>2
    <2> HIDE DEF kept
    <2>3. /\ Len(v1') = Len(kept) + 1 /\ v1'[Len(kept) + 1] = v2
          /\ \A m \in 1..Len(kept) : v1'[m] = kept[m]
      BY <2>6
    <2>4. \A m \in 1..Len(v1') : v1'[m] \in Toasts!Ids
      <3> SUFFICES ASSUME NEW m \in 1..Len(v1') PROVE v1'[m] \in Toasts!Ids
        OBVIOUS
      <3>1. m \in 1..Len(kept) \/ m = Len(kept) + 1
        BY <2>3, <2>6
      <3> QED
        BY <2>1, <2>3, <2>6, <3>1, Zenon
    <2>5. v2' \in 1..(Given.toasts.notices + 1)
      BY <1>1, <2>1
    <2> QED
      BY <1>1, <1>2, <2>1, <2>4, <2>5 DEF ToastsTyped
  <1>5. CASE Toasts!Pass
    BY <1>1, <1>2, <1>5 DEF Toasts!Pass, ToastsTyped
  <1>6. ASSUME NEW id \in Toasts!Ids, Toasts!Dismiss(id) \/ Toasts!Expire(id)
        PROVE  ToastsTyped'
    <2>1. v1' = Toasts!Without(id) /\ v2' = v2 /\ v4' \in {v4, v4 \cup {id}}
      BY <1>6 DEF Toasts!Dismiss, Toasts!Expire
    <2>2. \A m \in 1..Len(v1') : v1'[m] \in Toasts!Ids
      BY <1>3, <2>1
    <2> HIDE DEF Toasts!Ids
    <2> QED
      BY <1>1, <1>2, <2>1, <2>2 DEF ToastsTyped
  <1> QED
    BY <1>4, <1>5, <1>6 DEF Toasts!Next

LEMMA ToastsTypedStays == ASSUME ToastsTyped, UNCHANGED vars PROVE ToastsTyped'
  BY ToastsStays DEF vars, ToastsTyped

-----------------------------------------------------------------------------
(* useConfirmDialog, and useInfiniteScroll *)

DialogAssumption == Dialog!CallsAssumption /\ Dialog!TextsAssumption

(* useConfirmDialog: the input belongs to the question that is shown.      *)
DialogInv ==
    /\ v1 \in 0..Given.dialog.calls
    /\ v2 \in [Dialog!CallIds -> Given.dialog.texts]
    /\ v3 \in [Dialog!CallIds -> {"unasked", "waiting", "yes", "no"}]
    /\ v4 \in 0..v1
    /\ v4 # 0 => v3[v4] = "waiting"
    /\ v5 \in Given.dialog.texts
    /\ v6 = FALSE
    /\ v7 \in [Dialog!CallIds -> Given.dialog.texts]
    /\ v4 # 0 => v7[v4] = v5
    /\ \A c \in Dialog!CallIds :
         /\ c > v1 => v3[c] = "unasked" /\ v7[c] = Given.dialog.blank
         /\ v2[c] = Given.dialog.blank => v7[c] = Given.dialog.blank
    /\ Dialog!YesIsTyped

LEMMA DialogInit == ASSUME DialogAssumption, Dialog!Init PROVE DialogInv
  BY DEF DialogAssumption, Dialog!CallsAssumption, Dialog!TextsAssumption, Dialog!Init,
         DialogInv, Dialog!CallIds, Dialog!YesIsTyped

(* The call of the question that is shown. *)
LEMMA DialogAsked ==
    ASSUME DialogAssumption, DialogInv
    PROVE  /\ v1 \in Nat /\ v4 \in Nat /\ Given.dialog.calls \in Nat
           /\ v4 # 0 => v4 \in Dialog!CallIds
           /\ v1 < Given.dialog.calls => v1 + 1 \in Dialog!CallIds /\ v1 + 1 # 0
  BY DEF DialogAssumption, Dialog!CallsAssumption, DialogInv, Dialog!CallIds

LEMMA DialogStep == ASSUME DialogAssumption, DialogInv, Dialog!Next PROVE DialogInv'
  <1> DEFINE calls == Given.dialog.calls
  <1>0. /\ v1 \in Nat /\ v4 \in Nat /\ calls \in Nat
        /\ v4 # 0 => v4 \in Dialog!CallIds
        /\ v1 < calls => v1 + 1 \in Dialog!CallIds /\ v1 + 1 # 0
    BY DialogAsked
  <1>1. /\ v2 \in [Dialog!CallIds -> Given.dialog.texts]
        /\ v3 \in [Dialog!CallIds -> {"unasked", "waiting", "yes", "no"}]
        /\ v7 \in [Dialog!CallIds -> Given.dialog.texts]
        /\ v5 \in Given.dialog.texts /\ v6 = FALSE
        /\ v1 \in 0..calls /\ v4 \in 0..v1
        /\ Given.dialog.blank \in Given.dialog.texts
    BY DEF DialogInv, DialogAssumption, Dialog!TextsAssumption
  <1>2. CASE Dialog!Confirm
    <2>1. /\ v1 < calls /\ v1' = v1 + 1 /\ v4' = v1 + 1
          /\ v3' = [v3 EXCEPT ![v1 + 1] = "waiting"]
          /\ v5' = Given.dialog.blank /\ v6' = FALSE /\ v2' = v2 /\ v7' = v7
      BY <1>2 DEF Dialog!Confirm, Dialog!Reset
    <2>2. /\ v3[v1 + 1] = "unasked" /\ v7[v1 + 1] = Given.dialog.blank
      BY <1>0, <2>1 DEF DialogInv
    <2>3. v1' \in 0..calls /\ v4' \in 0..v1'
      BY <1>0, <2>1
    <2>4. \A c \in Dialog!CallIds : c > v1' => c > v1 /\ c # v1 + 1
      BY <1>0, <2>1 DEF Dialog!CallIds
    <2> HIDE DEF calls
    <2> QED
      BY <1>0, <1>1, <2>1, <2>2, <2>3, <2>4 DEF DialogInv, Dialog!YesIsTyped, calls
  <1>3. ASSUME NEW text \in Given.dialog.texts, Dialog!Type(text)
        PROVE  DialogInv'
    BY <1>0, <1>1, <1>3 DEF DialogInv, Dialog!Type, Dialog!NeedsTyped, Dialog!YesIsTyped
  <1>4. CASE Dialog!Submit
    <2>1. /\ v4 # 0 /\ v3' = [v3 EXCEPT ![v4] = "yes"] /\ v4' = 0
          /\ v5' = Given.dialog.blank /\ v6' = FALSE /\ v1' = v1 /\ v2' = v2 /\ v7' = v7
          /\ v2[v4] # Given.dialog.blank => v5 = v2[v4]
      BY <1>4 DEF Dialog!Submit, Dialog!Close, Dialog!Reset, Dialog!TypedOk, Dialog!NeedsTyped
    <2>2. v7[v4] = v2[v4] /\ v4 \in Dialog!CallIds /\ v3[v4] = "waiting"
      BY <1>0, <2>1 DEF DialogInv
    <2>3. v4' \in 0..v1'
      BY <1>0, <2>1
    <2>4. \A c \in Dialog!CallIds : c > v1 => c # v4
      BY <2>2 DEF DialogInv
    <2> QED
      BY <1>0, <1>1, <2>1, <2>2, <2>3, <2>4 DEF DialogInv, Dialog!YesIsTyped
  <1>5. CASE Dialog!Dismiss
    <2>1. /\ v4 # 0 /\ v3' = [v3 EXCEPT ![v4] = "no"] /\ v4' = 0
          /\ v5' = Given.dialog.blank /\ v6' = FALSE /\ v1' = v1 /\ v2' = v2 /\ v7' = v7
      BY <1>5 DEF Dialog!Dismiss, Dialog!Close, Dialog!Reset
    <2>3. v4' \in 0..v1'
      BY <1>0, <2>1
    <2>4. v3[v4] = "waiting" /\ \A c \in Dialog!CallIds : c > v1 => c # v4
      BY <2>1 DEF DialogInv
    <2> QED
      BY <1>0, <1>1, <2>1, <2>3, <2>4 DEF DialogInv, Dialog!YesIsTyped
  <1> QED
    BY <1>2, <1>3, <1>4, <1>5 DEF Dialog!Next

LEMMA DialogMeant ==
    ASSUME DialogAssumption, DialogInv, Dialog!Next
    PROVE  Dialog!AnswerIsForShown
  <1>0. /\ v1 < Given.dialog.calls => v1 + 1 \in Dialog!CallIds
        /\ \A c \in Dialog!CallIds : c > v1 => v3[c] = "unasked"
        /\ v3 \in [Dialog!CallIds -> {"unasked", "waiting", "yes", "no"}]
        /\ v1 \in Nat
    BY DialogAsked DEF DialogInv
  <1>1. v1 < Given.dialog.calls => v3[v1 + 1] = "unasked"
    BY <1>0
  <1> QED
    BY <1>0, <1>1
    DEF Dialog!Next, Dialog!Confirm, Dialog!Type, Dialog!Submit, Dialog!Dismiss,
        Dialog!Close, Dialog!AnswerIsForShown

LEMMA ScrollMeant == ASSUME Scroll!Next PROVE Scroll!CallIsNewest
  BY DEF Scroll!Next, Scroll!Render, Scroll!RenderSentinel, Scroll!Switch, Scroll!Scroll,
         Scroll!Observe, Scroll!Deliver, Scroll!Current, Scroll!CallIsNewest

LEMMA DialogStays == ASSUME DialogInv, UNCHANGED vars PROVE DialogInv'
  BY DEF vars,
    DialogInv, Dialog!YesIsTyped

(* The types of the list that loads on scrolling.                          *)
ScrollFlags ==
    /\ v1 \in BOOLEAN /\ v2 \in BOOLEAN /\ v3 \in BOOLEAN /\ v9 \in BOOLEAN
    /\ v4 \in {"none", "unseen", "in", "out"}
    /\ v4 # "none" => v1 /\ v2
ScrollCounts ==
    /\ v6 \in 1..Given.scroll.renders /\ v7 \in 0..v6
    /\ v8 \in 0..Given.scroll.scrolls

LEMMA ScrollParts == Scroll!TypeOK <=> ScrollFlags /\ ScrollCounts /\ v5 \in Seq(BOOLEAN)
  BY DEF Scroll!TypeOK, ScrollFlags, ScrollCounts, Scroll!None, Scroll!Unseen

LEMMA ScrollTypedInit ==
    ASSUME Scroll!InfiniteScrollAssumption, Scroll!Init PROVE Scroll!TypeOK
  <1>1. ScrollFlags
    BY Zenon DEF Scroll!InfiniteScrollAssumption, Scroll!Init, ScrollFlags, Scroll!Effect,
       Scroll!None, Scroll!Unseen
  <1>2. ScrollCounts /\ v5 \in Seq(BOOLEAN)
    BY DEF Scroll!InfiniteScrollAssumption, Scroll!Init, ScrollCounts
  <1> QED
    BY <1>1, <1>2, ScrollParts

LEMMA ScrollTypedStep ==
    ASSUME Scroll!InfiniteScrollAssumption, Scroll!TypeOK, Scroll!Next PROVE Scroll!TypeOK'
  <1>1. ScrollFlags /\ ScrollCounts /\ v5 \in Seq(BOOLEAN)
    BY ScrollParts
  <1>2. ScrollFlags'
    BY <1>1, Zenon DEF ScrollFlags, Scroll!Next, Scroll!Render, Scroll!RenderSentinel,
       Scroll!Switch, Scroll!Rerun, Scroll!Effect, Scroll!Scroll, Scroll!Observe,
       Scroll!Deliver, Scroll!None, Scroll!Unseen
  <1>3. ScrollCounts'
    <2>1. Given.scroll.renders \in Nat /\ Given.scroll.scrolls \in Nat
      BY DEF Scroll!InfiniteScrollAssumption
    <2>2. CASE Scroll!Render
      BY <1>1, <2>1, <2>2 DEF ScrollCounts, Scroll!Render
    <2>3. CASE Scroll!RenderSentinel
      BY <1>1, <2>1, <2>3 DEF ScrollCounts, Scroll!RenderSentinel
    <2>4. CASE Scroll!Switch
      BY <1>1, <2>1, <2>4 DEF ScrollCounts, Scroll!Switch
    <2>5. CASE Scroll!Scroll
      BY <1>1, <2>1, <2>5 DEF ScrollCounts, Scroll!Scroll
    <2>6. CASE Scroll!Observe
      BY <1>1, <2>6 DEF ScrollCounts, Scroll!Observe
    <2>7. CASE Scroll!Deliver
      <3>1. v6' = v6 /\ v8' = v8 /\ v7' \in {v6, v7}
        BY <2>7 DEF Scroll!Deliver, Scroll!Current
      <3> QED
        BY <1>1, <3>1 DEF ScrollCounts
    <2> QED
      BY <2>2, <2>3, <2>4, <2>5, <2>6, <2>7 DEF Scroll!Next
  <1>4. v5' \in Seq(BOOLEAN)
    <2>1. v3 \in BOOLEAN
      BY <1>1 DEF ScrollFlags
    <2>2. v5' = v5 \/ v5' = <<>> \/ v5' = Append(v5, v3)
      BY DEF Scroll!Next, Scroll!Render, Scroll!RenderSentinel,
         Scroll!Switch, Scroll!Scroll, Scroll!Observe, Scroll!Deliver
    <2> DEFINE Flags == BOOLEAN
    <2>3. v5 \in Seq(Flags) /\ v3 \in Flags
      BY <1>1, <2>1
    <2> HIDE DEF Flags
    <2>4. <<>> \in Seq(Flags) /\ Append(v5, v3) \in Seq(Flags)
      BY <2>3
    <2>5. v5' \in Seq(Flags)
      BY <2>2, <2>3, <2>4
    <2> QED
      BY <2>5 DEF Flags
  <1> QED
    BY <1>2, <1>3, <1>4, ScrollParts DEF Scroll!TypeOK, ScrollFlags, ScrollCounts,
       Scroll!None, Scroll!Unseen

LEMMA ScrollTypedStays == ASSUME Scroll!TypeOK, UNCHANGED vars PROVE Scroll!TypeOK'
  BY DEF vars, Scroll!TypeOK

-----------------------------------------------------------------------------
(* UserDetailDrawer *)

(* DrawerForm: one onSubmit() at a time, while busy, and an error at a     *)
(* field is true of it, also while the drawer is shut.                     *)
DrawerInv ==
    /\ Drawer!TypeOK
    /\ v6 <=> \E i \in Drawer!SubmissionIds : v8[i] = "sent"
    /\ \A i, j \in Drawer!SubmissionIds : v8[i] = "sent" /\ v8[j] = "sent" => i = j
    /\ \A f \in v5 : v4[f] \notin Given.drawer.valid

LEMMA DrawerInit == ASSUME Drawer!DrawerAssumption, Drawer!Init PROVE DrawerInv
  <1>1. v3 \in 0..Given.drawer.openings
    BY DEF Drawer!DrawerAssumption, Drawer!Init
  <1>2. v6 = FALSE /\ v5 = {} /\ v8 \in [Drawer!SubmissionIds -> {"none", "sent", "done"}]
        /\ \A i \in Drawer!SubmissionIds : v8[i] # "sent"
    BY DEF Drawer!Init
  <1>3. Drawer!TypeOK
    BY <1>1, <1>2 DEF Drawer!Init, Drawer!TypeOK
  <1> QED
    BY <1>2, <1>3 DEF DrawerInv

LEMMA DrawerAnswered ==
    ASSUME DrawerInv, NEW i \in Drawer!SubmissionIds, v8[i] = "sent",
           v8' = [v8 EXCEPT ![i] = "done"], v6' = FALSE,
           v2' \in BOOLEAN, v7' \in BOOLEAN,
           UNCHANGED <<v1, v3, v4, v5>>
    PROVE  DrawerInv'
  <1>1. v8' \in [Drawer!SubmissionIds -> {"none", "sent", "done"}]
    BY DEF DrawerInv, Drawer!TypeOK
  <1>2. \A j \in Drawer!SubmissionIds : v8'[j] # "sent"
    BY DEF DrawerInv, Drawer!TypeOK
  <1>3. Drawer!TypeOK'
    BY <1>1 DEF DrawerInv, Drawer!TypeOK
  <1> QED
    BY <1>2, <1>3 DEF DrawerInv

LEMMA DrawerStep == ASSUME Drawer!DrawerAssumption, DrawerInv, Drawer!Next PROVE DrawerInv'
  <1>1. CASE Drawer!OpenDrawer
    <2>1. v3' \in 0..Given.drawer.openings
      BY <1>1 DEF Drawer!DrawerAssumption, Drawer!OpenDrawer, DrawerInv, Drawer!TypeOK
    <2>2. v5' = {} /\ v4' = v1 /\ v2' = TRUE /\ v7' = FALSE /\ UNCHANGED <<v1, v6, v8>>
      BY <1>1 DEF Drawer!OpenDrawer
    <2>3. Drawer!TypeOK'
      BY <2>1, <2>2 DEF DrawerInv, Drawer!TypeOK
    <2> QED
      BY <2>2, <2>3 DEF DrawerInv
  <1>2. CASE Drawer!Dismiss
    BY <1>2 DEF Drawer!Dismiss, Drawer!form, DrawerInv, Drawer!TypeOK
  <1>3. ASSUME NEW f \in Given.drawer.fields, NEW value \in Given.drawer.values,
               Drawer!Set(f, value)
        PROVE  DrawerInv'
    BY <1>3 DEF Drawer!Set, DrawerInv, Drawer!TypeOK
  <1>4. CASE Drawer!Submit
    <2>1. v5' = Drawer!Problems /\ UNCHANGED <<v1, v2, v3, v4>>
      BY <1>4 DEF Drawer!Submit
    <2>2. \A f \in v5' : f \in Given.drawer.fields /\ v4'[f] \notin Given.drawer.valid
      BY <2>1 DEF Drawer!Problems
    <2>3. CASE Drawer!Problems # {}
      <3>1. UNCHANGED <<v6, v7, v8>>
        BY <1>4, <2>3 DEF Drawer!Submit
      <3> QED
        BY <2>1, <2>2, <3>1 DEF DrawerInv, Drawer!TypeOK
    <2>4. CASE Drawer!Problems = {}
      <3>1. v6 = FALSE /\ v6' = TRUE /\ v7' = FALSE
        BY <1>4, <2>4 DEF Drawer!Submit, Drawer!Idle, DrawerInv, Drawer!TypeOK
      <3>2. PICK i \in Drawer!SubmissionIds : v8' = [v8 EXCEPT ![i] = "sent"]
        BY <1>4, <2>4 DEF Drawer!Submit, Drawer!Unused
      <3>3. /\ v8' \in [Drawer!SubmissionIds -> {"none", "sent", "done"}]
            /\ \A j \in Drawer!SubmissionIds : v8'[j] = "sent" <=> j = i
        BY <3>1, <3>2 DEF DrawerInv, Drawer!TypeOK
      <3>4. Drawer!TypeOK'
        BY <2>1, <2>2, <3>1, <3>3 DEF DrawerInv, Drawer!TypeOK
      <3> QED
        BY <2>2, <3>1, <3>3, <3>4 DEF DrawerInv
    <2> QED
      BY <2>3, <2>4
  <1>5. ASSUME NEW i \in Drawer!SubmissionIds, Drawer!Answer(i) PROVE DrawerInv'
    BY <1>5, DrawerAnswered DEF Drawer!Answer, Drawer!Succeed, Drawer!Fail, Drawer!form,
       DrawerInv, Drawer!TypeOK
  <1> QED
    BY <1>1, <1>2, <1>3, <1>4, <1>5 DEF Drawer!Next

LEMMA DrawerKept == ASSUME DrawerInv PROVE Drawer!OneAtATime /\ Drawer!ErrorsAreTrue
  <1>1. Drawer!ErrorsAreTrue
    BY DEF DrawerInv, Drawer!ErrorsAreTrue
  <1>2. v6 <=> Drawer!UnderWay # {}
    BY DEF DrawerInv, Drawer!UnderWay
  <1>3. Cardinality(Drawer!UnderWay) <= 1
    <2>1. CASE Drawer!UnderWay = {}
      BY <2>1, FS_EmptySet
    <2>2. ASSUME NEW i \in Drawer!UnderWay PROVE Cardinality(Drawer!UnderWay) <= 1
      <3>1. Drawer!UnderWay = {i}
        BY DEF DrawerInv, Drawer!UnderWay
      <3> QED
        BY <3>1, FS_Singleton
    <2> QED
      BY <2>1, <2>2
  <1>4. \A S : Drawer!Cardinality(S) = Cardinality(S)
    BY DEF Drawer!Cardinality, Cardinality
  <1> QED
    BY <1>1, <1>2, <1>3, <1>4 DEF Drawer!OneAtATime

LEMMA DrawerStays == ASSUME DrawerInv, UNCHANGED vars PROVE DrawerInv'
  BY DEF vars,
    DrawerInv, Drawer!TypeOK

-----------------------------------------------------------------------------
(* Analytics *)

LEMMA FiguresCardinality == \A S : Figures!Cardinality(S) = Cardinality(S)
  BY DEF Figures!Cardinality, Cardinality

(* Analytics: what has been counted by status is of no fewer applications  *)
(* than what was counted before, as none is ever deleted.                  *)
FiguresInv ==
    /\ Figures!TypeOK
    /\ v2 = "pipeline" => v3 <= Figures!Created
    /\ v2 \in {"recent", "answer"} => Figures!Sum(v4) >= v3
    /\ Figures!PipelineCoversTotal
    /\ Figures!RateIsShare

In(s) == {a \in Counted : v1[a] = s}

LEMMA InFinite ==
    ASSUME Figures!AnalyticsAssumption
    PROVE  /\ IsFiniteSet(Counted)
           /\ \A s : /\ IsFiniteSet(In(s)) /\ Cardinality(In(s)) \in Nat
                     /\ Figures!With(s) = Cardinality(In(s))
           /\ Figures!Created \in Nat /\ Figures!EverSubmitted \in Nat
  <1>1. IsFiniteSet(Counted)
    BY DEF Figures!AnalyticsAssumption, Figures!IsFiniteSet, IsFiniteSet
  <1>2. \A S : S \subseteq Counted => IsFiniteSet(S) /\ Cardinality(S) \in Nat
    BY <1>1, FS_Subset, FS_CardinalityType
  <1> QED
    BY <1>1, <1>2, FiguresCardinality
       DEF In, Figures!With, Figures!Created, Figures!EverSubmitted

LEMMA DisjointSum ==
    ASSUME NEW S, NEW T, IsFiniteSet(S), IsFiniteSet(T), S \cap T = {}
    PROVE  /\ IsFiniteSet(S \cup T)
           /\ Cardinality(S \cup T) = Cardinality(S) + Cardinality(T)
  BY FS_Union, FS_EmptySet, FS_CardinalityType

(* Every application that has been created is counted once. *)
LEMMA PipelineIsAll ==
    ASSUME Figures!AnalyticsAssumption, v1 \in [Counted -> Figures!Statuses \cup {"none"}]
    PROVE  /\ Figures!ByStatus \in [Figures!Statuses -> Nat]
           /\ Figures!Sum(Figures!ByStatus) = Figures!Created
  <1> DEFINE D == In("draft")
             S == In("submitted")
             A == In("approved")
             R == In("rejected")
             Q == In("resubmission_requested")
  <1>1. /\ IsFiniteSet(D) /\ IsFiniteSet(S) /\ IsFiniteSet(A) /\ IsFiniteSet(R) /\ IsFiniteSet(Q)
        /\ Cardinality(D) \in Nat /\ Cardinality(S) \in Nat /\ Cardinality(A) \in Nat
        /\ Cardinality(R) \in Nat /\ Cardinality(Q) \in Nat
    BY InFinite
  <1>2. /\ D \cap S = {} /\ (D \cup S) \cap A = {} /\ (D \cup S \cup A) \cap R = {}
        /\ (D \cup S \cup A \cup R) \cap Q = {}
    BY DEF In
  <1>3. {a \in Counted : v1[a] # "none"} = D \cup S \cup A \cup R \cup Q
    BY DEF In, Figures!Statuses
  <1>4. Figures!ByStatus = [s \in Figures!Statuses |-> Cardinality(In(s))]
    BY InFinite DEF Figures!ByStatus
  <1>5. Figures!Sum(Figures!ByStatus)
          = Cardinality(D) + Cardinality(S) + Cardinality(A) + Cardinality(R) + Cardinality(Q)
    BY <1>4 DEF Figures!Sum, Figures!Statuses
  <1> HIDE DEF D, S, A, R, Q
  <1>6. /\ IsFiniteSet(D \cup S)
        /\ Cardinality(D \cup S) = Cardinality(D) + Cardinality(S)
    BY <1>1, <1>2, DisjointSum
  <1>7. /\ IsFiniteSet(D \cup S \cup A)
        /\ Cardinality(D \cup S \cup A) = Cardinality(D \cup S) + Cardinality(A)
    BY <1>1, <1>2, <1>6, DisjointSum
  <1>8. /\ IsFiniteSet(D \cup S \cup A \cup R)
        /\ Cardinality(D \cup S \cup A \cup R) = Cardinality(D \cup S \cup A) + Cardinality(R)
    BY <1>1, <1>2, <1>7, DisjointSum
  <1>9. Cardinality(D \cup S \cup A \cup R \cup Q)
          = Cardinality(D \cup S \cup A \cup R) + Cardinality(Q)
    BY <1>1, <1>2, <1>8, DisjointSum
  <1>10. Figures!Created = Cardinality(D \cup S \cup A \cup R \cup Q)
    BY <1>3, FiguresCardinality DEF Figures!Created
  <1>11. Figures!ByStatus \in [Figures!Statuses -> Nat]
    BY <1>4, InFinite
  <1> QED
    BY <1>1, <1>5, <1>6, <1>7, <1>8, <1>9, <1>10, <1>11

LEMMA FiguresInit == ASSUME Figures!AnalyticsAssumption, Figures!Init PROVE FiguresInv
  BY DEF Figures!Init, FiguresInv, Figures!TypeOK, Figures!Nothing, Figures!NoData,
     Figures!PipelineCoversTotal, Figures!RateIsShare, Figures!Statuses

LEMMA FiguresStep ==
    ASSUME Figures!AnalyticsAssumption, FiguresInv, Figures!Next
    PROVE  FiguresInv'
  <1>0. /\ v1 \in [Counted -> Figures!Statuses \cup {"none"}]
        /\ v3 \in Nat /\ v5 \in Nat /\ v4 \in [Figures!Statuses -> Nat]
        /\ v7.pipeline \in [Figures!Statuses -> Nat]
    BY DEF FiguresInv, Figures!TypeOK
  <1>1. CASE Figures!Open
    <2>1. /\ v6' = "loading" /\ v2' = "total" /\ v7' = Figures!NoData
          /\ UNCHANGED <<v1, v3, v4, v5>>
      BY <1>1 DEF Figures!Open, Figures!counts
    <2>2. v7'.pipeline \in [Figures!Statuses -> Nat]
      BY <2>1 DEF Figures!NoData, Figures!Nothing
    <2> QED
      BY <1>0, <2>1, <2>2 DEF FiguresInv, Figures!TypeOK, Figures!PipelineCoversTotal,
         Figures!RateIsShare
  <1>2. CASE Figures!Leave
    <2>1. v6' = "left" /\ v2' = "none" /\ UNCHANGED <<v1, v3, v4, v5, v7>>
      BY <1>2 DEF Figures!Leave, Figures!counts
    <2> QED
      BY <1>0, <2>1 DEF FiguresInv, Figures!TypeOK, Figures!PipelineCoversTotal,
         Figures!RateIsShare
  <1>3. CASE Figures!CountTotal
    <2>1. /\ v2 = "total" /\ v2' = "pipeline" /\ v3' = Figures!Created
          /\ UNCHANGED <<v1, v4, v5, v6, v7>>
      BY <1>3 DEF Figures!CountTotal
    <2>2. Figures!Created' = Figures!Created /\ Figures!Created \in Nat
      BY <2>1, InFinite DEF Figures!Created
    <2>3. v6 = "loading"
      BY <2>1 DEF FiguresInv, Figures!TypeOK
    <2> QED
      BY <1>0, <2>1, <2>2, <2>3 DEF FiguresInv, Figures!TypeOK, Figures!PipelineCoversTotal,
         Figures!RateIsShare
  <1>4. CASE Figures!CountPipeline
    <2>1. /\ v2 = "pipeline" /\ v2' = "recent" /\ v4' = Figures!ByStatus
          /\ UNCHANGED <<v1, v3, v5, v6, v7>>
      BY <1>4 DEF Figures!CountPipeline
    <2>2. v4' \in [Figures!Statuses -> Nat] /\ Figures!Sum(v4') >= v3'
      BY <1>0, <2>1, PipelineIsAll, InFinite DEF FiguresInv
    <2>3. Figures!Sum(v4)' = Figures!Sum(v4')
      BY DEF Figures!Sum
    <2>4. v6 = "loading"
      BY <2>1 DEF FiguresInv, Figures!TypeOK
    <2> QED
      BY <1>0, <2>1, <2>2, <2>3, <2>4 DEF FiguresInv, Figures!TypeOK,
         Figures!PipelineCoversTotal, Figures!RateIsShare
  <1>5. CASE Figures!CountRecent
    <2>1. /\ v2 = "recent" /\ v2' = "answer" /\ v5' = Figures!EverSubmitted
          /\ UNCHANGED <<v1, v3, v4, v6, v7>>
      BY <1>5 DEF Figures!CountRecent
    <2>2. v5' \in Nat /\ Figures!Sum(v4)' >= v3' /\ v6 = "loading"
      BY <2>1, InFinite DEF FiguresInv, Figures!TypeOK, Figures!Sum
    <2> QED
      BY <1>0, <2>1, <2>2 DEF FiguresInv, Figures!TypeOK, Figures!PipelineCoversTotal,
         Figures!RateIsShare
  <1>6. CASE Figures!Show
    <2>1. /\ v2 = "answer" /\ v2' = "none" /\ v6' = "shown" /\ v7' = Figures!Figures
          /\ UNCHANGED <<v1, v3, v4, v5>>
      BY <1>6 DEF Figures!Show, Figures!counts
    <2>2. /\ v7'.pipeline = v4 /\ v7'.total = v3 /\ v7'.approved = v4["approved"]
          /\ v7'.decided = v4["approved"] + v4["rejected"]
      BY <2>1 DEF Figures!Figures
    <2>3. v4["approved"] \in Nat /\ v4["rejected"] \in Nat
      BY <1>0 DEF Figures!Statuses
    <2>4. Figures!PipelineCoversTotal'
      BY <2>1, <2>2 DEF FiguresInv, Figures!PipelineCoversTotal, Figures!Sum
    <2>5. Figures!RateIsShare'
      BY <2>2, <2>3 DEF Figures!RateIsShare
    <2> QED
      BY <1>0, <2>1, <2>2, <2>4, <2>5 DEF FiguresInv, Figures!TypeOK
  <1>7. CASE Figures!Fail
    <2>1. v2' = "none" /\ v6' = "failed" /\ UNCHANGED <<v1, v3, v4, v5, v7>>
      BY <1>7 DEF Figures!Fail, Figures!counts
    <2> QED
      BY <1>0, <2>1 DEF FiguresInv, Figures!TypeOK, Figures!PipelineCoversTotal,
         Figures!RateIsShare
  <1>8. ASSUME NEW a \in Counted, Figures!Move(a) PROVE FiguresInv'
    <2>1. PICK m \in Figures!Moves : v1[a] = m[1] /\ v1' = [v1 EXCEPT ![a] = m[2]]
      BY <1>8 DEF Figures!Move
    <2>2. UNCHANGED <<v2, v3, v4, v5, v6, v7>>
      BY <1>8 DEF Figures!Move, Figures!counts
    <2>3. m[2] \in Figures!Statuses /\ m[2] # "none"
      BY DEF Figures!Moves, Figures!Statuses
    <2>4. v1' \in [Counted -> Figures!Statuses \cup {"none"}]
      BY <1>0, <2>1, <2>3
    <2>5. {b \in Counted : v1[b] # "none"} \subseteq {b \in Counted : v1'[b] # "none"}
      BY <1>0, <2>1, <2>3
    <2>6. Figures!Created <= Figures!Created'
      <3>1. IsFiniteSet({b \in Counted : v1'[b] # "none"})
        BY InFinite, FS_Subset
      <3> QED
        BY <2>5, <3>1, FS_Subset, FiguresCardinality DEF Figures!Created
    <2>7. Figures!Created \in Nat /\ Figures!Created' \in Nat
      <3>1. IsFiniteSet({b \in Counted : v1'[b] # "none"})
        BY InFinite, FS_Subset
      <3> QED
        BY <3>1, InFinite, FS_CardinalityType, FiguresCardinality DEF Figures!Created
    <2>8. v2 = "pipeline" => v3 <= Figures!Created'
      BY <1>0, <2>6, <2>7 DEF FiguresInv
    <2>9. Figures!TypeOK'
      BY <2>2, <2>4 DEF FiguresInv, Figures!TypeOK
    <2> QED
      BY <2>2, <2>8, <2>9 DEF FiguresInv, Figures!PipelineCoversTotal, Figures!RateIsShare,
         Figures!Sum
  <1> QED
    BY <1>1, <1>2, <1>3, <1>4, <1>5, <1>6, <1>7, <1>8 DEF Figures!Next, Figures!Query

LEMMA FiguresStays == ASSUME FiguresInv, UNCHANGED vars PROVE FiguresInv'
  BY DEF vars,
    FiguresInv, Figures!TypeOK, Figures!Created, Figures!PipelineCoversTotal,
    Figures!RateIsShare

-----------------------------------------------------------------------------
(* A field by itself *)

(* A field on its way: what has been sent is what the browser accepts, and *)
(* a first name that has been left has its capital.                        *)
InputInv ==
    /\ v1 \in Input!Fields
    /\ v3 \in {-1, 0}
    /\ Input!IsEveryday(v1, v2)
    /\ v5 \in {"typed", "sent", "stored"}
    /\ v5 # "typed" => ~Input!Problem(v1, v2)
    /\ v1 = "first_name" /\ v4 => v2.first # "lower"

(* The contract of the two validators, for each kind of field.             *)
LEMMA BrowserIsStricter ==
    ASSUME NEW f \in Input!Fields, NEW v, Input!IsEveryday(f, v), v3 \in {-1, 0},
           ~Input!Problem(f, v)
    PROVE  ~Input!Objection(f, v)
  <1>1. Input!LIMITS["full_name"] = 255 /\ Input!LIMITS["postal_code"] = 20
        /\ Input!LIMITS["state"] = 100 /\ Input!LIMITS["country"] = 100
        /\ Input!LIMITS.name = 150
    BY DEF Input!LIMITS
  <1>2. CASE f \in Input!Required
    <2>1. f \in {"full_name", "postal_code"} /\ Input!Trimmed(v)
      BY <1>2 DEF Input!Required, Input!IsEveryday, Input!Dates
    <2> DEFINE limit == Input!LIMITS[f]
    <2>2. limit \in Nat
      BY <1>1, <2>1
    <2>3. /\ Input!Problem(f, v) <=> Input!validateRequired(v, limit)
          /\ Input!Objection(f, v) <=> (v.points = 0 \/ v.points > limit)
      BY <1>2 DEF Input!Problem, Input!Objection, Input!Required, Input!Optional, Input!Names
    <2> HIDE DEF limit
    <2> QED
      BY <2>1, <2>2, <2>3 DEF Input!validateRequired, Input!isBlank, Input!Length, Input!Trimmed
  <1>3. CASE f \in Input!Optional
    <2>1. f \in {"state", "country"} /\ Input!Trimmed(v)
      BY <1>3 DEF Input!Optional, Input!IsEveryday, Input!Dates
    <2> DEFINE limit == Input!LIMITS[f]
    <2>2. limit \in Nat
      BY <1>1, <2>1
    <2>3. /\ Input!Problem(f, v) <=> Input!validateOptional(v, limit)
          /\ Input!Objection(f, v) <=> v.points > limit
      BY <1>3 DEF Input!Problem, Input!Objection, Input!Required, Input!Optional, Input!Names
    <2> HIDE DEF limit
    <2> QED
      BY <2>1, <2>2, <2>3 DEF Input!validateOptional, Input!Length, Input!Trimmed
  <1>4. CASE f \in Input!Names
    <2>1. f \in {"first_name", "middle_name"} /\ Input!Trimmed(v) /\ v.chars \in {"letters", "others"}
      BY <1>4 DEF Input!Names, Input!IsEveryday, Input!Dates
    <2>2. \/ v.units = 0 /\ f # "first_name"
          \/ v.units # 0 /\ v.units <= 150 /\ v.chars # "others"
      BY <1>1, <2>1 DEF Input!Problem, Input!Required, Input!Optional, Input!Names,
                        Input!validateName, Input!isBlank, Input!Trimmed
    <2> QED
      BY <2>1, <2>2 DEF Input!Objection, Input!Required, Input!Optional, Input!Names,
                        Input!validate_person_name, Input!Trimmed
  <1>5. CASE f = "email"
    <2>1. Input!Trimmed(v) /\ v.shape \in {"django", "none"}
      BY <1>5 DEF Input!IsEveryday, Input!Dates
    <2> QED
      BY <1>5, <2>1
      DEF Input!Problem, Input!Objection, Input!Required, Input!Optional, Input!Names,
          Input!validateRegistrationEmail, Input!validateEmail, Input!isDisposableEmail,
          Input!isBlank, Input!validate_email, Input!Trimmed
  <1>6. CASE f = "phone"
    <2>1. Input!Trimmed(v)
      BY <1>6 DEF Input!IsEveryday, Input!Dates
    <2> QED
      BY <1>6, <2>1
      DEF Input!Problem, Input!Objection, Input!Required, Input!Optional, Input!Names,
          Input!validateE164Phone, Input!isBlank, Input!Trimmed
  <1>7. CASE f \in {"password", "new_password"}
    <2>1. Input!Trimmed(v) /\ Input!EverydayPassword(v)
      BY <1>7 DEF Input!IsEveryday, Input!Dates
    <2>2. ~Input!validatePassword(v)
      BY <1>7 DEF Input!Problem, Input!Required, Input!Optional, Input!Names
    <2>3. v.points >= 8 /\ v.kind = "plain"
      BY <2>1, <2>2 DEF Input!validatePassword, Input!PASSWORD_MIN_LENGTH, Input!Length,
                        Input!COMMON_PASSWORDS, Input!EverydayPassword, Input!Trimmed
    <2>4. ~Input!validate_password(v) /\ ~Input!validate_new_password(v)
      BY <2>1, <2>3 DEF Input!validate_password, Input!validate_new_password,
                        Input!EverydayPassword, Input!Trimmed
    <2> QED
      BY <1>7, <2>4 DEF Input!Objection, Input!Required, Input!Optional, Input!Names
  <1>8. CASE f = "login_password"
    <2>1. Input!Trimmed(v) /\ v.blanks = 0
      BY <1>8 DEF Input!IsEveryday, Input!Dates
    <2> QED
      BY <1>8, <2>1
      DEF Input!Problem, Input!Objection, Input!Required, Input!Optional, Input!Names,
          Input!validateLoginPassword, Input!Length, Input!Trimmed
  <1>9. CASE f = "code"
    <2>1. Input!Trimmed(v)
      BY <1>9 DEF Input!IsEveryday, Input!Dates
    <2> QED
      BY <1>9, <2>1
      DEF Input!Problem, Input!Objection, Input!Required, Input!Optional, Input!Names,
          Input!validateOtp, Input!isBlank, Input!Trimmed
  <1>10. CASE f = "gender"
    BY <1>10 DEF Input!Problem, Input!Objection, Input!Required, Input!Optional, Input!Names,
                 Input!validateGender
  <1>11. CASE f = "date_of_birth"
    <2>1. v.day \in Int
      BY <1>11 DEF Input!IsEveryday, Input!Dates
    <2>2. ~(v.given /\ (v.day > v3 \/ v.day < -2))
      BY <1>11 DEF Input!Problem, Input!Required, Input!Optional, Input!Names,
                   Input!validateOptionalDateOfBirth, Input!todayISO, Input!DOB_MIN
    <2>3. v.given => ~(v.day > 0) /\ ~(v.day < -2)
      BY <2>1, <2>2
    <2> QED
      BY <1>11, <2>3 DEF Input!Objection, Input!Required, Input!Optional, Input!Names,
                         Input!validate_dob, Input!DOB_MIN
  <1>12. CASE f = "application_date_of_birth"
    <2>1. v.day \in Int
      BY <1>12 DEF Input!IsEveryday, Input!Dates
    <2>2. v.given /\ ~(v.day > v3) /\ ~(v.day < -2)
      BY <1>12 DEF Input!Problem, Input!Required, Input!Optional, Input!Names,
                   Input!validateDateOfBirth, Input!validateOptionalDateOfBirth, Input!todayISO,
                   Input!DOB_MIN
    <2>3. ~(v.day > 0)
      BY <2>1, <2>2
    <2> QED
      BY <1>12, <2>2, <2>3 DEF Input!Objection, Input!Required, Input!Optional, Input!Names,
                         Input!validate_dob, Input!DOB_MIN
  <1>13. CASE f = "id_expiry"
    <2>1. v.day \in Int /\ (v.given => v.day >= 0)
      BY <1>13 DEF Input!IsEveryday, Input!Dates
    <2>2. ~Input!validate_id_expiry(v)
      BY <2>1 DEF Input!validate_id_expiry
    <2> QED
      BY <1>13, <2>2 DEF Input!Objection, Input!Required, Input!Optional, Input!Names
  <1>14. CASE f = "file"
    <2>1. v.content = "matches"
      BY <1>14 DEF Input!IsEveryday
    <2>2. ~Input!validateUploadFile(v)
      BY <1>14 DEF Input!Problem, Input!Required, Input!Optional, Input!Names
    <2>3. ~Input!clean(v)
      BY <2>1, <2>2 DEF Input!validateUploadFile, Input!clean, Input!MAX_FILE_SIZE
    <2> QED
      BY <1>14, <2>3 DEF Input!Objection, Input!Required, Input!Optional, Input!Names
  <1>15. CASE f = "notes"
    <2>1. Input!Trimmed(v)
      BY <1>15 DEF Input!IsEveryday, Input!Dates
    <2> QED
      BY <1>15, <2>1
      DEF Input!Problem, Input!Objection, Input!Required, Input!Optional, Input!Names,
          Input!validateReviewNotes, Input!isBlank, Input!Trimmed
  <1> QED
    BY <1>2, <1>3, <1>4, <1>5, <1>6, <1>7, <1>8, <1>9, <1>10, <1>11, <1>12, <1>13, <1>14, <1>15
    DEF Input!Fields, Input!Dates

LEMMA LeavingKeeps ==
    ASSUME Input!IsEveryday("first_name", v2)
    PROVE  /\ Input!IsEveryday("first_name", Input!capitalizeFirst(v2))
           /\ Input!capitalizeFirst(v2).first # "lower"
  <1>1. v2 \in [units : Nat, points : Nat, blanks : Nat,
               chars : {"letters", "others"}, first : {"lower", "upper", "other"}]
        /\ Input!Trimmed(v2)
    BY DEF Input!IsEveryday, Input!Names, Input!Dates
  <1> DEFINE w == Input!capitalizeFirst(v2)
  <1>2. /\ w \in [units : Nat, points : Nat, blanks : Nat,
                  chars : {"letters", "others"}, first : {"lower", "upper", "other"}]
        /\ w.units = v2.units /\ w.points = v2.points /\ w.blanks = v2.blanks
        /\ w.first # "lower"
    BY <1>1 DEF Input!capitalizeFirst
  <1>3. Input!Trimmed(w)
    BY <1>1, <1>2 DEF Input!Trimmed
  <1> HIDE DEF w
  <1>4. Input!IsEveryday("first_name", w)
    BY <1>2, <1>3 DEF Input!IsEveryday, Input!Names, Input!Dates
  <1> QED
    BY <1>2, <1>4 DEF w

LEMMA InputInit == ASSUME Input!EverydayInputs, Input!Init PROVE InputInv
  BY DEF Input!EverydayInputs, Input!Init, InputInv

LEMMA InputStep == ASSUME Input!EverydayInputs, InputInv, Input!Next PROVE InputInv'
  <1>1. CASE Input!Retype
    BY <1>1 DEF Input!EverydayInputs, Input!Retype, InputInv
  <1>2. CASE Input!Blur
    <2>1. UNCHANGED <<v1, v3, v5>> /\ v5 = "typed"
          /\ v2' = IF v1 = "first_name" THEN Input!capitalizeFirst(v2) ELSE v2
      BY <1>2 DEF Input!Blur
    <2>2. CASE v1 = "first_name"
      BY <2>1, <2>2, LeavingKeeps DEF InputInv
    <2>3. CASE v1 # "first_name"
      BY <2>1, <2>3 DEF InputInv
    <2> QED
      BY <2>2, <2>3
  <1>3. CASE Input!Submit
    <2>1. UNCHANGED <<v1, v2, v3, v4>> /\ v5' = "sent" /\ ~Input!Problem(v1, v2)
      BY <1>3 DEF Input!Submit
    <2>2. ~Input!Problem(v1, v2)'
      BY <2>1 DEF Input!Problem, Input!validateOptionalDateOfBirth, Input!validateDateOfBirth,
                  Input!todayISO
    <2> QED
      BY <2>1, <2>2 DEF InputInv
  <1>4. CASE Input!Serve
    <2>1. UNCHANGED <<v1, v2, v3, v4>> /\ v5 = "sent"
          /\ v5' = IF Input!Objection(v1, v2) THEN "refused" ELSE "stored"
      BY <1>4 DEF Input!Serve
    <2>2. ~Input!Problem(v1, v2) /\ v1 \in Input!Fields /\ Input!IsEveryday(v1, v2) /\ v3 \in {-1, 0}
      BY <2>1 DEF InputInv
    <2>3. ~Input!Objection(v1, v2)
      BY <2>2, BrowserIsStricter
    <2>4. ~Input!Problem(v1, v2)'
      BY <2>1, <2>2 DEF Input!Problem, Input!validateOptionalDateOfBirth, Input!validateDateOfBirth,
                  Input!todayISO
    <2> QED
      BY <2>1, <2>3, <2>4 DEF InputInv
  <1> QED
    BY <1>1, <1>2, <1>3, <1>4 DEF Input!Next

LEMMA InputHolds ==
    ASSUME InputInv
    PROVE  /\ Input!BackendNeverObjects /\ Input!RegisteredMaySignIn
           /\ Input!BlurSettlesNames /\ Input!StrongIsAccepted
  <1>1. Input!BackendNeverObjects
    BY DEF InputInv, Input!BackendNeverObjects
  <1>2. Input!RegisteredMaySignIn
    <2>1. SUFFICES ASSUME v5 = "stored", v1 \in {"email", "phone"}, ~Input!isBlank(v2)
                   PROVE  ~Input!validateIdentifier(v1, v2)
      BY DEF Input!RegisteredMaySignIn
    <2>2. ~Input!Problem(v1, v2) /\ Input!IsEveryday(v1, v2)
      BY <2>1 DEF InputInv
    <2>3. CASE v1 = "email"
      BY <2>1, <2>2, <2>3
      DEF Input!Problem, Input!Required, Input!Optional, Input!Names, Input!validateRegistrationEmail,
          Input!validateIdentifier
    <2>4. CASE v1 = "phone"
      <3>1. v2.known /\ v2.digits \in 7..15 /\ v2.units = v2.digits + 1
        BY <2>1, <2>2, <2>4
        DEF Input!Problem, Input!Required, Input!Optional, Input!Names, Input!validateE164Phone,
            Input!IsEveryday
      <3>2. ~Input!validatePhone(v2)
        BY <2>1, <3>1 DEF Input!validatePhone
      <3> QED
        BY <2>4, <3>2 DEF Input!validateIdentifier
    <2> QED
      BY <2>1, <2>3, <2>4
  <1>3. Input!BlurSettlesNames
    <2>1. SUFFICES ASSUME v1 = "first_name", v4, Input!Problem(v1, v2), v2.units = v2.points
                   PROVE  Input!Objection(v1, v2)
      BY DEF Input!BlurSettlesNames
    <2>2. v2.first # "lower" /\ Input!Trimmed(v2) /\ v2.chars \in {"letters", "others"}
      BY <2>1 DEF InputInv, Input!IsEveryday, Input!Names, Input!Dates
    <2>3. v2.units = 0 \/ v2.units > 150 \/ v2.chars = "others"
      BY <2>1, <2>2 DEF Input!Problem, Input!Required, Input!Optional, Input!Names,
                        Input!validateName, Input!isBlank, Input!LIMITS
    <2> QED
      BY <2>1, <2>2, <2>3 DEF Input!Objection, Input!Required, Input!Optional, Input!Names,
                              Input!validate_person_name, Input!Trimmed
  <1>4. Input!StrongIsAccepted
    <2>1. SUFFICES ASSUME v1 \in {"password", "new_password"}, Input!PasswordStrength(v2) >= 3
                   PROVE  ~Input!Problem(v1, v2)
      BY DEF Input!StrongIsAccepted
    <2>2. Input!EverydayPassword(v2) /\ Input!Trimmed(v2)
      BY <2>1 DEF InputInv, Input!IsEveryday, Input!Dates
    <2>3. Input!Length(v2) = v2.units /\ v2.units \in Nat
      BY <2>2 DEF Input!Length, Input!EverydayPassword, Input!Trimmed
    <2>4. \A b \in BOOLEAN : Input!One(b) = (IF b THEN 1 ELSE 0)
      BY DEF Input!One
    <2>5. Input!One(v2.mixed) \in 0..1 /\ Input!One(v2.special) \in 0..1
      BY DEF Input!One
    <2>6. v2.units >= 8
      BY <2>1, <2>3, <2>5 DEF Input!PasswordStrength, Input!One
    <2>7. v2.kind # "numeric"
      BY <2>1, <2>2, <2>3 DEF Input!PasswordStrength, Input!One, Input!EverydayPassword
    <2>8. v2.kind # "listed"
      BY <2>1, <2>2, <2>3, <2>5 DEF Input!PasswordStrength, Input!One, Input!EverydayPassword
    <2>9. ~Input!validatePassword(v2)
      BY <2>3, <2>6, <2>7, <2>8 DEF Input!validatePassword, Input!PASSWORD_MIN_LENGTH,
                                    Input!COMMON_PASSWORDS
    <2> QED
      BY <2>1, <2>9 DEF Input!Problem, Input!Required, Input!Optional, Input!Names
  <1> QED
    BY <1>1, <1>2, <1>3, <1>4

LEMMA InputStays == ASSUME InputInv, UNCHANGED vars PROVE InputInv'
  BY DEF vars,
    InputInv, Input!Problem, Input!validateOptionalDateOfBirth,
    Input!validateDateOfBirth, Input!todayISO

-----------------------------------------------------------------------------
(* The date of birth *)

(* The days a month has by the rule of leap years are the days between its *)
(* first and the next month's.                                             *)
LEMMA MonthLength ==
    ASSUME NEW y \in 1900..2200, NEW m \in 1..12
    PROVE  /\ Birth!daysInMonth(y, m) \in 28..31
           /\ Birth!DayNumber(y, m, Birth!daysInMonth(y, m)) = Birth!MonthEnd(y, m)
<1>1. /\ y \in Int
      /\ y % 400 = 0 => y % 100 = 0
      /\ y % 100 = 0 => y % 4 = 0
      /\ (y - 1) \div 4 = IF y % 4 = 0 THEN y \div 4 - 1 ELSE y \div 4
      /\ (y - 1) \div 100 = IF y % 100 = 0 THEN y \div 100 - 1 ELSE y \div 100
      /\ (y - 1) \div 400 = IF y % 400 = 0 THEN y \div 400 - 1 ELSE y \div 400
  BY SMT
<1>2. CASE m = 1 BY <1>1, <1>2, SMT DEF Birth!daysInMonth, Birth!DayNumber, Birth!MonthEnd
<1>3. CASE m = 2 BY <1>1, <1>3, SMT DEF Birth!daysInMonth, Birth!DayNumber, Birth!MonthEnd
<1>4. CASE m \in 3..11 BY <1>1, <1>4, SMT DEF Birth!daysInMonth, Birth!DayNumber, Birth!MonthEnd
<1>5. CASE m = 12 BY <1>1, <1>5, SMT DEF Birth!daysInMonth, Birth!DayNumber, Birth!MonthEnd
<1> QED BY <1>2, <1>3, <1>4, <1>5

(* The inductive invariant: the reference is used on what is cut to the    *)
(* month's length, so the length is what has to be kept.                   *)
BirthInv ==
    /\ Birth!TypeOK
    /\ v2 # NoDate => Birth!Real(v2)
    /\ Birth!ShownIsValue

LEMMA Lengths ==
    ASSUME Birth!YearsAssumption, NEW y \in Given.birth.years, NEW m \in 1..12
    PROVE  Birth!daysInMonth(y, m) \in 28..31
<1>1. y \in 1900..2200
  BY DEF Birth!YearsAssumption
<1> QED BY <1>1, MonthLength

LEMMA DayWithin ==
    ASSUME Birth!YearsAssumption,
           NEW y \in Given.birth.years, NEW m \in 1..12, NEW d \in 1..31, d <= Birth!daysInMonth(y, m)
    PROVE  Birth!DayNumber(y, m, d) <= Birth!MonthEnd(y, m)
<1>1. y \in 1900..2200
  BY DEF Birth!YearsAssumption
<1>2. PICK n \in 28..31 : n = Birth!daysInMonth(y, m) /\ Birth!DayNumber(y, m, n) = Birth!MonthEnd(y, m)
  BY <1>1, MonthLength
<1>3. Birth!DayNumber(y, m, d) <= Birth!DayNumber(y, m, n)
  BY <1>1, <1>2 DEF Birth!DayNumber
<1> QED BY <1>2, <1>3

LEMMA ClampIsReal ==
    ASSUME Birth!YearsAssumption, NEW p \in Birth!Parts
    PROVE  /\ Birth!Clamp(p) \in Birth!Parts
           /\ Birth!Complete(Birth!Clamp(p)) <=> Birth!Complete(p)
           /\ Birth!Complete(p) => Birth!Clamp(p) \in Birth!Date /\ Birth!Real(Birth!Clamp(p))
           /\ Birth!Clamp(p).year = p.year /\ Birth!Clamp(p).month = p.month
           /\ ~Birth!Complete(p) => Birth!Clamp(p) = p
<1>1. CASE ~Birth!Complete(p)
  BY <1>1 DEF Birth!Clamp
<1>2. CASE Birth!Complete(p)
  <2>1. p.year \in Given.birth.years /\ p.month \in 1..12 /\ p.day \in 1..31
    BY <1>2 DEF Birth!Complete, Birth!Parts
  <2>2. Birth!daysInMonth(p.year, p.month) \in 28..31
    BY <2>1, Lengths
  <2>3. CASE p.day > Birth!daysInMonth(p.year, p.month)
    <3>1. Birth!Clamp(p) = [year |-> p.year, month |-> p.month, day |-> Birth!daysInMonth(p.year, p.month)]
      BY <1>2, <2>3 DEF Birth!Clamp, Birth!Parts
    <3> QED BY <1>2, <2>1, <2>2, <3>1 DEF Birth!Complete, Birth!Parts, Birth!Date, Birth!Real
  <2>4. CASE ~(p.day > Birth!daysInMonth(p.year, p.month))
    <3>1. Birth!Clamp(p) = p
      BY <2>4 DEF Birth!Clamp
    <3>2. p = [year |-> p.year, month |-> p.month, day |-> p.day]
      BY DEF Birth!Parts
    <3>3. p \in Birth!Date
      BY <2>1, <3>2 DEF Birth!Date
    <3> QED BY <1>2, <2>1, <2>2, <2>4, <3>1, <3>3 DEF Birth!Real
  <2> QED BY <2>3, <2>4
<1> QED BY <1>1, <1>2

(* Whatever part is picked, update() leaves the form and the selects with  *)
(* the same date, which the day's options include.                         *)
LEMMA UpdateKeeps ==
    ASSUME Birth!YearsAssumption, NEW p \in Birth!Parts, Birth!Update(p)
    PROVE  BirthInv'
<1>1. v1' = Birth!Clamp(p) /\ v2' = IF Birth!Complete(p) THEN Birth!Clamp(p) ELSE NoDate
  BY DEF Birth!Update
<1>2. Birth!TypeOK' /\ (v2 # NoDate => Birth!Real(v2))'
  BY <1>1, ClampIsReal DEF Birth!TypeOK
<1>3. (v2 = IF Birth!Complete(v1) THEN v1 ELSE NoDate)'
  BY <1>1, ClampIsReal
<1>4. v1'.day <= Birth!maxDay'
  <2>1. CASE Birth!Complete(p)
    BY <1>1, <2>1, ClampIsReal DEF Birth!maxDay, Birth!Real, Birth!Complete
  <2>2. CASE ~Birth!Complete(p)
    <3>1. v1' = p
      BY <1>1, <2>2, ClampIsReal
    <3>2. CASE p.year # 0 /\ p.month # 0
      <4>1. p.day = 0
        BY <2>2, <3>2 DEF Birth!Complete
      <4>2. p.year \in Given.birth.years /\ p.month \in 1..12
        BY <3>2 DEF Birth!Parts
      <4> QED BY <3>1, <3>2, <4>1, <4>2, Lengths DEF Birth!maxDay
    <3>3. CASE ~(p.year # 0 /\ p.month # 0)
      BY <3>1, <3>3 DEF Birth!maxDay, Birth!Parts
    <3> QED BY <3>2, <3>3
  <2> QED BY <2>1, <2>2
<1> QED BY <1>2, <1>3, <1>4 DEF BirthInv, Birth!ShownIsValue

LEMMA BirthInit == ASSUME Birth!YearsAssumption, Birth!Init PROVE BirthInv
<1>1. CASE v2 = NoDate
  <2>1. v1 = [year |-> 0, month |-> 0, day |-> 0]
    BY <1>1 DEF Birth!Init, Birth!parseISO
  <2> QED BY <1>1, <2>1 DEF BirthInv, Birth!TypeOK, Birth!ShownIsValue, Birth!Complete, Birth!Parts, Birth!maxDay
<1>2. CASE v2 # NoDate
  <2>1. v2 \in Birth!Date /\ Birth!Real(v2) /\ v1 = v2
    BY <1>2 DEF Birth!Init, Birth!parseISO
  <2>2. v1 \in Birth!Parts /\ Birth!Complete(v1)
    BY <2>1 DEF Birth!YearsAssumption, Birth!Date, Birth!Parts, Birth!Complete
  <2> QED BY <2>1, <2>2 DEF BirthInv, Birth!TypeOK, Birth!ShownIsValue, Birth!Complete, Birth!maxDay, Birth!Real
<1> QED BY <1>1, <1>2

LEMMA BirthStep == ASSUME Birth!YearsAssumption, BirthInv, Birth!Next PROVE BirthInv'
<1> USE DEF BirthInv
<1>0. v1 \in Birth!Parts
  BY DEF Birth!TypeOK
<1>1. ASSUME NEW d \in 0..31, Birth!PickDay(d) PROVE BirthInv'
  <2>1. [v1 EXCEPT !.day = d] \in Birth!Parts
    BY <1>0 DEF Birth!Parts
  <2> QED BY <1>0, <1>1, <2>1, UpdateKeeps DEF Birth!PickDay, Birth!Parts
<1>2. ASSUME NEW m \in 0..12, Birth!PickMonth(m) PROVE BirthInv'
  <2>1. [v1 EXCEPT !.month = m] \in Birth!Parts
    BY <1>0 DEF Birth!Parts
  <2> QED BY <1>0, <1>2, <2>1, UpdateKeeps DEF Birth!PickMonth, Birth!Parts
<1>3. ASSUME NEW y \in Given.birth.years \cup {0}, Birth!PickYear(y) PROVE BirthInv'
  <2>1. [v1 EXCEPT !.year = y] \in Birth!Parts
    BY <1>0 DEF Birth!Parts
  <2> QED BY <1>0, <1>3, <2>1, UpdateKeeps DEF Birth!PickYear, Birth!Parts
<1>4. CASE Birth!Remount
  <2>1. CASE v2 = NoDate
    <3>1. v2' = NoDate /\ v1' = [year |-> 0, month |-> 0, day |-> 0]
      BY <1>4, <2>1 DEF Birth!Remount, Birth!parseISO
    <3> QED BY <3>1 DEF Birth!TypeOK, Birth!ShownIsValue, Birth!Complete, Birth!Parts, Birth!maxDay
  <2>2. CASE v2 # NoDate
    <3>1. v2' = v2 /\ v1' = v1
      BY <1>4, <2>2 DEF Birth!Remount, Birth!ShownIsValue, Birth!parseISO
    <3> QED BY <3>1 DEF Birth!TypeOK, Birth!ShownIsValue, Birth!maxDay
  <2> QED BY <2>1, <2>2
<1> QED BY <1>1, <1>2, <1>3, <1>4 DEF Birth!Next

LEMMA BirthIsADate ==
    ASSUME Birth!YearsAssumption, BirthInv
    PROVE  Birth!ValueIsADate
<1> SUFFICES ASSUME v2 # NoDate PROVE Birth!ValueIsADate
  BY DEF Birth!ValueIsADate
<1>1. v2 \in Birth!Date /\ Birth!Real(v2)
  BY DEF BirthInv, Birth!TypeOK
<1>2. v2.year \in Given.birth.years /\ v2.month \in 1..12 /\ v2.day \in 1..31
  BY <1>1 DEF Birth!Date
<1> QED BY <1>1, <1>2, DayWithin DEF Birth!Real, Birth!ValueIsADate

LEMMA BirthStays == ASSUME BirthInv, UNCHANGED vars PROVE BirthInv'
  BY DEF vars,
    BirthInv, Birth!TypeOK, Birth!ShownIsValue, Birth!maxDay

-----------------------------------------------------------------------------
(* A list by itself *)

Flying(i) == v9[i].state \in {"sent", "answered", "failed"}

(* The newest request asks for what the controls say; what is shown is its *)
(* answer once it is done; newer ones do not exist.                        *)
NewestInv ==
    /\ Flying(v8) =>
         v9[v8].of = v3 /\ v9[v8].page = v5
    /\ \A i \in List!RequestIds : i > v8 => v9[i].state = "none"

ListInv ==
    /\ List!TypeOK
    /\ NewestInv
    /\ List!LoadingIsNewestRequest
    /\ List!ShownMatchesControls

LEMMA RequestTypes ==
  ASSUME ListAssumption
  PROVE
    /\ List!NoRequest \in List!Request
    /\ List!Done \in List!Request
    /\ \A s \in Given.list.selections, p \in List!PageNumbers : List!Sent(s, p) \in List!Request
    /\ \A r \in List!Request : List!AnswerOf(r) \in List!Answer
  <1>1. List!Anything \in Given.list.selections
    BY DEF ListAssumption, List!Anything
  <1>2. 1 \in List!PageNumbers /\ 0 \in Nat
    BY DEF ListAssumption, List!PageNumbers
  <1>3. List!NoRequest \in List!Request
    BY <1>1, <1>2 DEF List!NoRequest, List!Request
  <1> QED
    BY <1>3 DEF List!Done, List!Sent, List!Request, List!Answer, List!AnswerOf

LEMMA ListInit == ASSUME ListAssumption, List!Init PROVE ListInv
  <1> USE DEF List!Init
  <1>1. 1 \in List!RequestIds /\ 1 \in List!PageNumbers
    BY DEF ListAssumption, List!RequestIds, List!PageNumbers
  <1>2. v9 \in [List!RequestIds -> List!Request]
    BY <1>1, RequestTypes
  <1>3. v4 \in List!Answer
    BY RequestTypes DEF List!Empty
  <1>4. List!TypeOK
    BY <1>1, <1>2, <1>3 DEF List!TypeOK
  <1>5. v9[1] = List!Sent(v3, 1)
    BY <1>1
  <1>6. \A i \in List!RequestIds : i > 1 => v9[i].state = "none"
    BY DEF List!RequestIds, List!NoRequest
  <1>7. List!Sent(v3, 1).state = "sent" /\ List!Sent(v3, 1).of = v3
        /\ List!Sent(v3, 1).page = 1
    BY DEF List!Sent, List!NoRequest
  <1>8. v8 = 1 /\ v5 = 1 /\ v6 = TRUE
    OBVIOUS
  <1> HIDE DEF List!Init
  <1>9. NewestInv
    BY <1>5, <1>6, <1>7, <1>8 DEF NewestInv, Flying
  <1> QED
    BY <1>4, <1>5, <1>7, <1>8, <1>9 DEF ListInv, List!LoadingIsNewestRequest, List!ShownMatchesControls

(* A call of load() for the current page of the current fetcher. *)
LEMMA LoadStep ==
    ASSUME ListAssumption, ListInv, NEW s \in Given.list.selections, NEW p \in List!PageNumbers,
           List!Load(s, p), v3' = s, v5' = p,
           UNCHANGED <<v1, v4, v10>>, v2' \in Nat
    PROVE  ListInv'
  <1> USE DEF List!Load
  <1>1. v8 + 1 \in List!RequestIds /\ v8 \in Nat
    BY DEF ListAssumption, ListInv, List!TypeOK, List!RequestIds
  <1>2. v9' \in [List!RequestIds -> List!Request]
    BY <1>1, RequestTypes DEF ListInv, List!TypeOK
  <1>3. List!TypeOK'
    BY <1>1, <1>2 DEF ListInv, List!TypeOK
  <1>4. v9'[v8'] = List!Sent(s, p)
    BY <1>1 DEF ListInv, List!TypeOK
  <1>5. \A i \in List!RequestIds : i > v8' => v9'[i] = v9[i] /\ i > v8
    BY <1>1 DEF ListInv, List!TypeOK, List!RequestIds
  <1>6. List!Sent(s, p).state = "sent" /\ List!Sent(s, p).of = s /\ List!Sent(s, p).page = p
    BY DEF List!Sent, List!NoRequest
  <1>7. NewestInv'
    BY <1>4, <1>5, <1>6 DEF ListInv, NewestInv, Flying
  <1>8. v6' = TRUE
    OBVIOUS
  <1> HIDE DEF List!Load
  <1> QED
    BY <1>3, <1>4, <1>6, <1>7, <1>8 DEF ListInv, List!LoadingIsNewestRequest, List!ShownMatchesControls

(* List!Request i moves without ending, or ends: what the rest of the state     *)
(* has to do with it.                                                      *)
LEMMA RequestMoves ==
    ASSUME ListAssumption, ListInv, NEW i \in List!RequestIds, Flying(i), NEW r \in List!Request,
           v9' = [v9 EXCEPT ![i] = r],
           UNCHANGED <<v1, v2, v3, v5, v8>>,
           v10' \in Nat, v4' \in List!Answer, v6' \in BOOLEAN, v7' \in BOOLEAN,
           \/ /\ r.state \in {"sent", "answered", "failed"}
              /\ r.of = v9[i].of /\ r.page = v9[i].page
              /\ UNCHANGED <<v4, v6, v7>>
           \/ /\ r.state = "done" /\ i # v8
              /\ UNCHANGED <<v4, v6, v7>>
           \/ /\ r.state = "done" /\ i = v8 /\ v6' = FALSE
              /\ v7' \/ (v4'.page = v9[i].page /\ v4'.of = v9[i].of)
    PROVE  ListInv'
  <1>1. /\ v9'[i] = r
        /\ \A j \in List!RequestIds : j # i => v9'[j] = v9[j]
        /\ v9' \in [List!RequestIds -> List!Request]
        /\ v8 \in List!RequestIds
    BY DEF ListInv, List!TypeOK
  <1>2. List!TypeOK'
    BY <1>1 DEF ListInv, List!TypeOK
  <1>3. NewestInv'
    BY <1>1 DEF ListInv, NewestInv, Flying
  <1>4. List!LoadingIsNewestRequest'
    BY <1>1 DEF ListInv, List!LoadingIsNewestRequest, Flying
  <1>5. List!ShownMatchesControls'
    BY <1>1 DEF ListInv, List!ShownMatchesControls, List!LoadingIsNewestRequest, NewestInv, Flying
  <1> QED
    BY <1>2, <1>3, <1>4, <1>5 DEF ListInv

LEMMA DeliverStep ==
    ASSUME ListAssumption, ListInv, NEW i \in List!RequestIds, List!Deliver(i) \/ List!Fail(i)
    PROVE  ListInv'
  <1> DEFINE r == v9[i]
  <1>1. r \in List!Request /\ v10 \in Nat /\ v4 \in List!Answer /\ v6 \in BOOLEAN
        /\ v7 \in BOOLEAN
    BY DEF ListInv, List!TypeOK
  <1>2. List!Done \in List!Request /\ List!Done.state = "done" /\ List!AnswerOf(r) \in List!Answer
    BY <1>1, RequestTypes DEF List!Done, List!NoRequest
  <1>3. v2 \in Nat
    BY DEF ListInv, List!TypeOK
  <1>4. ASSUME NEW q, v9' = [v9 EXCEPT ![i] = q],
               q = [r EXCEPT !.state = "failed"]
                 \/ q = [r EXCEPT !.state = "answered", !.version = v2,
                                  !.next = r.page < v1[r.of], !.prev = r.page > 1]
        PROVE  q \in List!Request /\ q.of = r.of /\ q.page = r.page
               /\ q.state \in {"answered", "failed"}
    <2>1. (r.page < v1[r.of]) \in BOOLEAN /\ (r.page > 1) \in BOOLEAN
      OBVIOUS
    <2>2. CASE q = [r EXCEPT !.state = "failed"]
      BY <1>1, <2>2 DEF List!Request
    <2>3. ASSUME NEW n \in BOOLEAN, NEW p \in BOOLEAN,
                 q = [r EXCEPT !.state = "answered", !.version = v2, !.next = n, !.prev = p]
          PROVE  q \in List!Request /\ q.of = r.of /\ q.page = r.page
                 /\ q.state \in {"answered", "failed"}
      BY <1>1, <1>3, <2>3 DEF List!Request
    <2> QED
      BY <1>4, <2>1, <2>2, <2>3
  <1>5. CASE List!Serve(i)
    <2>1. PICK q : /\ v9' = [v9 EXCEPT ![i] = q]
                   /\ q = [r EXCEPT !.state = "failed"]
                      \/ q = [r EXCEPT !.state = "answered", !.version = v2,
                                       !.next = r.page < v1[r.of], !.prev = r.page > 1]
      BY <1>5 DEF List!Serve
    <2>2. Flying(i)
      BY <1>5 DEF List!Serve, Flying
    <2>3. UNCHANGED <<v1, v2, v3, v4, v5, v6, v7,
                      v8, v10>>
      BY <1>5 DEF List!Serve, List!server
    <2> QED
      BY <1>1, <1>4, <2>1, <2>2, <2>3, RequestMoves
  <1>6. CASE List!Fail(i)
    <2>1. v9' = [v9 EXCEPT ![i] = [r EXCEPT !.state = "failed"]]
      BY <1>6 DEF List!Fail
    <2>2. Flying(i) /\ v10' \in Nat
      BY <1>1, <1>6 DEF List!Fail, Flying
    <2>3. UNCHANGED <<v1, v2, v3, v4, v5, v6, v7, v8>>
      BY <1>6 DEF List!Fail, List!server
    <2> QED
      BY <1>1, <1>4, <2>1, <2>2, <2>3, RequestMoves
  <1>7. CASE List!Receive(i)
    <2>1. v9' = [v9 EXCEPT ![i] = List!Done] /\ Flying(i)
      BY <1>7 DEF List!Receive, Flying
    <2>2. UNCHANGED <<v1, v2, v3, v5, v7, v8, v10>>
      BY <1>7 DEF List!Receive, List!server
    <2>3. \/ i = v8 /\ v4' = List!AnswerOf(r) /\ v6' = FALSE
          \/ i # v8 /\ UNCHANGED <<v4, v6>>
      BY <1>7 DEF List!Receive, List!Newest
    <2>4. List!AnswerOf(r).page = r.page /\ List!AnswerOf(r).of = r.of
      BY DEF List!AnswerOf
    <2> QED
      BY <1>1, <1>2, <2>1, <2>2, <2>3, <2>4, RequestMoves
  <1>8. CASE List!ReceiveError(i)
    <2>1. v9' = [v9 EXCEPT ![i] = List!Done] /\ Flying(i)
      BY <1>8 DEF List!ReceiveError, Flying
    <2>2. UNCHANGED <<v1, v2, v3, v4, v5, v8, v10>>
      BY <1>8 DEF List!ReceiveError, List!server
    <2>3. \/ i = v8 /\ v7' = TRUE /\ v6' = FALSE
          \/ i # v8 /\ UNCHANGED <<v7, v6>>
      BY <1>8 DEF List!ReceiveError, List!Newest
    <2> QED
      BY <1>1, <1>2, <2>1, <2>2, <2>3, RequestMoves
  <1> QED
    BY <1>5, <1>6, <1>7, <1>8 DEF List!Deliver

LEMMA ListStepKeeps ==
    ASSUME ListAssumption, ListInv, List!ListStep
    PROVE  ListInv'
  <1>1. ASSUME NEW i \in List!RequestIds, List!Deliver(i) \/ List!Fail(i) PROVE ListInv'
    BY <1>1, DeliverStep
  <1>2. CASE List!PrevPage
    <2>1. v5 - 1 \in List!PageNumbers /\ v3 \in Given.list.selections /\ v2 \in Nat
      BY <1>2 DEF ListAssumption, List!PrevPage, ListInv, List!TypeOK, List!PageNumbers
    <2> QED
      BY <1>2, <2>1, LoadStep DEF List!PrevPage, List!Turn, List!server
  <1>3. CASE List!NextPage
    <2>1. v5 + 1 \in List!PageNumbers /\ v3 \in Given.list.selections /\ v2 \in Nat
      BY <1>3 DEF ListAssumption, List!NextPage, ListInv, List!TypeOK, List!PageNumbers
    <2> QED
      BY <1>3, <2>1, LoadStep DEF List!NextPage, List!Turn, List!server
  <1>4. ASSUME NEW s \in Given.list.selections, List!Change(s) PROVE ListInv'
    BY <1>4 DEF List!Change, ListInv, List!TypeOK, NewestInv, Flying, List!LoadingIsNewestRequest,
       List!ShownMatchesControls
  <1> QED
    BY <1>1, <1>2, <1>3, <1>4 DEF List!ListStep

LEMMA ListStays == ASSUME ListInv, UNCHANGED vars PROVE ListInv'
  BY DEF vars,
    ListInv, List!TypeOK, NewestInv, List!LoadingIsNewestRequest,
    List!ShownMatchesControls, List!Answer, List!Request, Flying

-----------------------------------------------------------------------------
(* An application's page *)

ApplicantP == INSTANCE ApplicationPageProofs WITH
    Mine <- Own, MaxDocuments <- Given.applicant.documents,
    MaxLoads <- Given.applicant.loads, MaxVersions <- PageVersions,
    MaxMoves <- PageMoves, MaxFaults <- Faults,
    dossier <- v1, route <- v2, app <- v3, error <- v4, loads <- v5,
    loadRef <- v6, audit <- v7, auditPage <- v8, auditError <- v9,
    audits <- v10, auditRef <- v11, busy <- v12, action <- v13, notice <- v14,
    actionError <- v15, file <- v16, confirming <- v17, acked <- v18,
    moves <- v19, faults <- v20

(* The page, and the page the theorems of ApplicationPageProofs are about. *)
LEMMA SamePage ==
    /\ Applicant!Init <=> ApplicantP!Init
    /\ Applicant!Next <=> ApplicantP!Next
    /\ Applicant!AppsAssumption /\ Applicant!BoundAssumption <=> ApplicantP!Assumptions
    /\ Applicant!TypeOK <=> ApplicantP!TypeOK
    /\ Applicant!ShownIsOfAddress <=> ApplicantP!ShownIsOfAddress
    /\ Applicant!AcknowledgedIsShown <=> ApplicantP!AcknowledgedIsShown
    /\ Applicant!TrailIsNewestAsked <=> ApplicantP!TrailIsNewestAsked
    /\ UNCHANGED Applicant!vars <=> UNCHANGED ApplicantP!vars
  BY DEF
        Applicant!AppsAssumption, Applicant!BoundAssumption, Applicant!auditState,
        Applicant!form, Applicant!bounds, Applicant!vars, Applicant!Statuses,
        Applicant!EditableStatuses, Applicant!Versions, Applicant!Dossier,
        Applicant!Shown, Applicant!Nothing, Applicant!Snapshot, Applicant!Ids,
        Applicant!CallStates, Applicant!LoadCall, Applicant!AuditPages,
        Applicant!Trail, Applicant!NoTrail, Applicant!AuditCall, Applicant!Kinds,
        Applicant!Action, Applicant!Files, Applicant!AnyApp, Applicant!NoLoad,
        Applicant!NoAudit, Applicant!Idle, Applicant!Reserved, Applicant!Load,
        Applicant!LoadAudit, Applicant!Init, Applicant!Move, Applicant!ServeLoad,
        Applicant!FailLoad, Applicant!NewestLoad, Applicant!ReceiveLoad,
        Applicant!ServeAudit, Applicant!FailAudit, Applicant!NewestAudit,
        Applicant!ReceiveAudit, Applicant!Visible, Applicant!Editable,
        Applicant!IsOwner, Applicant!Previous, Applicant!TurnAudit,
        Applicant!ChooseFile, Applicant!Run, Applicant!Upload, Applicant!Remove,
        Applicant!OpenConfirm, Applicant!CloseConfirm, Applicant!Confirm,
        Applicant!Allowed, Applicant!After, Applicant!ServeAction,
        Applicant!FailAction, Applicant!ActionDone, Applicant!Finish,
        Applicant!ActionRefused, Applicant!Reloaded, Applicant!Review,
        Applicant!System, Applicant!Next, Applicant!TypeOK, Applicant!Strayed,
        Applicant!ShownIsOfAddress, Applicant!AcknowledgedIsShown,
        Applicant!TrailIsNewestAsked, ApplicantP!AppsAssumption,
        ApplicantP!BoundAssumption, ApplicantP!auditState, ApplicantP!form,
        ApplicantP!bounds, ApplicantP!vars, ApplicantP!Statuses,
        ApplicantP!EditableStatuses, ApplicantP!Versions, ApplicantP!Dossier,
        ApplicantP!Shown, ApplicantP!Nothing, ApplicantP!Snapshot, ApplicantP!Ids,
        ApplicantP!CallStates, ApplicantP!LoadCall, ApplicantP!AuditPages,
        ApplicantP!Trail, ApplicantP!NoTrail, ApplicantP!AuditCall,
        ApplicantP!Kinds, ApplicantP!Action, ApplicantP!Files, ApplicantP!AnyApp,
        ApplicantP!NoLoad, ApplicantP!NoAudit, ApplicantP!Idle,
        ApplicantP!Reserved, ApplicantP!Load, ApplicantP!LoadAudit,
        ApplicantP!Init, ApplicantP!Move, ApplicantP!ServeLoad,
        ApplicantP!FailLoad, ApplicantP!NewestLoad, ApplicantP!ReceiveLoad,
        ApplicantP!ServeAudit, ApplicantP!FailAudit, ApplicantP!NewestAudit,
        ApplicantP!ReceiveAudit, ApplicantP!Visible, ApplicantP!Editable,
        ApplicantP!IsOwner, ApplicantP!Previous, ApplicantP!TurnAudit,
        ApplicantP!ChooseFile, ApplicantP!Run, ApplicantP!Upload,
        ApplicantP!Remove, ApplicantP!OpenConfirm, ApplicantP!CloseConfirm,
        ApplicantP!Confirm, ApplicantP!Allowed, ApplicantP!After,
        ApplicantP!ServeAction, ApplicantP!FailAction, ApplicantP!ActionDone,
        ApplicantP!Finish, ApplicantP!ActionRefused, ApplicantP!Reloaded,
        ApplicantP!Review, ApplicantP!System, ApplicantP!Next, ApplicantP!TypeOK,
        ApplicantP!Strayed, ApplicantP!ShownIsOfAddress,
        ApplicantP!AcknowledgedIsShown, ApplicantP!TrailIsNewestAsked,
        ApplicantP!Assumptions

LEMMA PageInit ==
    ASSUME Applicant!AppsAssumption, Applicant!BoundAssumption, Applicant!Init
    PROVE  ApplicantP!IInv
  BY SamePage, ApplicantP!InitHolds

LEMMA PageStep ==
    ASSUME Applicant!AppsAssumption, Applicant!BoundAssumption, ApplicantP!IInv,
           Applicant!Next \/ UNCHANGED Applicant!vars
    PROVE  ApplicantP!IInv'
  <1>1. ApplicantP!Assumptions /\ [ApplicantP!Next]_ApplicantP!vars
    BY SamePage
  <1> QED
    BY <1>1, ApplicantP!NextHolds

LEMMA PageShown ==
    ASSUME ApplicantP!IInv
    PROVE  /\ Applicant!TypeOK /\ Applicant!ShownIsOfAddress
           /\ Applicant!AcknowledgedIsShown /\ Applicant!TrailIsNewestAsked
  BY SamePage DEF ApplicantP!IInv

-----------------------------------------------------------------------------
(* A rate, by lists of times *)

(* Places of a list that are given to different members of a set are no    *)
(* more than its members, and the other way round.                         *)
LEMMA PlacesCount ==
    ASSUME NEW n \in Nat, NEW S, IsFiniteSet(S), NEW f \in [1..n -> S],
           \A a, b \in 1..n : f[a] = f[b] => a = b
    PROVE  n <= Cardinality(S)
  <1>1. f \in Injection(1..n, S)
    BY DEF Injection, IsInjective
  <1>2. Cardinality(1..n) <= Cardinality(S)
    BY <1>1, FS_Injection
  <1>3. Cardinality(1..n) = n
    BY FS_Interval
  <1> QED
    BY <1>2, <1>3

LEMMA MembersCount ==
    ASSUME NEW n \in Nat, NEW S, NEW g \in [S -> 1..n],
           \A p, q \in S : g[p] = g[q] => p = q
    PROVE  IsFiniteSet(S) /\ Cardinality(S) <= n
  <1>1. g \in Injection(S, 1..n)
    BY DEF Injection, IsInjective
  <1>2. IsFiniteSet(1..n) /\ Cardinality(1..n) = n
    BY FS_Interval
  <1> QED
    BY <1>1, <1>2, FS_Injection

(* What is popped to the greatest of some places: the front of the list,   *)
(* with all of them.                                                       *)
Popped(h, S) == SubSeq(h, 1, IF S = {} THEN 0 ELSE CHOOSE x \in S : \A y \in S : x >= y)

LEMMA PoppedIsFront ==
    ASSUME NEW T, NEW h \in Seq(T), NEW S \in SUBSET (1..Len(h))
    PROVE  /\ Popped(h, S) \in Seq(T) /\ Len(Popped(h, S)) \in 0..Len(h)
           /\ \A n \in 1..Len(Popped(h, S)) : Popped(h, S)[n] = h[n]
           /\ \A n \in S : n <= Len(Popped(h, S))
           /\ Len(Popped(h, S)) > 0 => Len(Popped(h, S)) \in S
  <1> DEFINE g == CHOOSE x \in S : \A y \in S : x >= y
             m == IF S = {} THEN 0 ELSE g
  <1>1. Len(h) \in Nat /\ DOMAIN h = 1..Len(h) /\ S \in SUBSET (0..Len(h))
    OBVIOUS
  <1>2. S # {} => g \in S /\ \A x \in S : g >= x
    <2> SUFFICES ASSUME S # {} PROVE g \in S /\ \A x \in S : g >= x
      OBVIOUS
    <2>1. \E k \in S : \A x \in S : k >= x
      BY <1>1, GreatestExists
    <2> QED
      BY <2>1, Zenon
  <1>3. Popped(h, S) = SubSeq(h, 1, m)
    BY DEF Popped
  <1> HIDE DEF g, m
  <1>4. m \in 0..Len(h) /\ (\A n \in S : n <= m) /\ (m > 0 => m \in S)
    <2>1. CASE S = {}
      BY <1>1, <2>1 DEF m
    <2>2. CASE S # {}
      <3>1. m = g /\ g \in S /\ \A x \in S : g >= x
        BY <1>2, <2>2 DEF m
      <3>2. \A x \in S : x \in 1..Len(h)
        OBVIOUS
      <3> QED
        BY <1>1, <3>1, <3>2
    <2> QED
      BY <2>1, <2>2
  <1>5. \A n \in 1..m : h[n] \in T
    BY <1>1, <1>4
  <1>6. /\ SubSeq(h, 1, m) \in Seq(T) /\ Len(SubSeq(h, 1, m)) = m
        /\ \A n \in 1..m : SubSeq(h, 1, m)[n] = h[n]
    BY <1>4, <1>5, SubSeqProperties
  <1> QED
    BY <1>3, <1>4, <1>6

LEMMA RateRecent ==
    ASSUME NEW T, NEW h \in Seq(T)
    PROVE  Rate!Recent(h) = Popped(h, {n \in 1..Len(h) : h[n] + Given.rate.duration > v1})
  <1> DEFINE S == {n \in 1..Len(h) : h[n] + Given.rate.duration > v1}
  <1>1. Rate!Young(h) = S
    <2>1. DOMAIN h = 1..Len(h)
      OBVIOUS
    <2> QED
      BY <2>1 DEF Rate!Young
  <1> HIDE DEF S
  <1>2. Rate!Recent(h) = Rate!PoppedTo(h, S)
    BY <1>1, Zenon DEF Rate!Recent
  <1>3. Rate!PoppedTo(h, S) = Popped(h, S)
    BY Zenon DEF Rate!PoppedTo, Rate!Max, Popped
  <1> QED
    BY <1>2, <1>3 DEF S

(* Any number at a time, and statements that fail: each time in a list is  *)
(* that of a request of its own that has been let in.                      *)
LetIn(table) == {q \in Given.rate.requests : table[q].at = "admitted"}
Named(h, table) ==
    \E f \in [1..Len(h) -> LetIn(table)] :
        /\ \A a, b \in 1..Len(h) : f[a] = f[b] => a = b
        /\ \A n \in 1..Len(h) : table[f[n]].time = h[n]
Falling(h) == \A m, n \in 1..Len(h) : m <= n => h[m] >= h[n]

\* Those let in within one duration before a time.
Before(table, t) ==
    {q \in LetIn(table) : table[q].time <= t /\ table[q].time + Given.rate.duration > t}

RateRow ==
    [at : {"idle", "write", "admitted", "denied", "failed"},
     time : 0..Given.rate.time, history : Seq(0..Given.rate.time)]

RateTypes ==
    /\ v1 \in 0..Given.rate.time
    /\ v2 \in Seq(0..Given.rate.time) /\ Len(v2) <= Given.rate.limit
    /\ v3 \in Nat
    /\ v4 \in [Given.rate.requests -> RateRow]
    /\ v5 \in 0..Given.rate.faults

\* A list as it is stored, or handed from the read to the write.
Lawful(h, t, table) ==
    Named(h, table) /\ Falling(h) /\ \A n \in 1..Len(h) : h[n] <= t

PassedInv ==
    \A r \in Given.rate.requests : v4[r].at = "write" =>
        /\ v4[r].time <= v1
        /\ Len(v4[r].history) < Given.rate.limit
        /\ Lawful(v4[r].history, v4[r].time, v4)

RefusedInv ==
    \A r \in Given.rate.requests : v4[r].at = "denied" =>
        Cardinality(Before(v4, v4[r].time)) >= Given.rate.limit

RateInv ==
    /\ RateTypes /\ IsFiniteSet(LetIn(v4))
    /\ Lawful(v2, v1, v4) /\ PassedInv /\ RefusedInv

LEMMA LawfulEmpty == ASSUME NEW t, NEW table PROVE Lawful(<<>>, t, table)
  <1>1. Len(<<>>) = 0 /\ 1..0 = {}
    OBVIOUS
  <1>2. [n \in {} |-> n] \in [{} -> LetIn(table)]
    OBVIOUS
  <1>3. Named(<<>>, table)
    BY <1>1, <1>2, Zenon DEF Named
  <1> QED
    BY <1>1, <1>3 DEF Lawful, Falling

(* The front of a lawful list is one. *)
LEMMA LawfulFront ==
    ASSUME NEW T, NEW c \in Seq(T), NEW h \in Seq(T), Len(h) \in 0..Len(c),
           \A n \in 1..Len(h) : h[n] = c[n], NEW t, NEW table, Lawful(c, t, table)
    PROVE  Lawful(h, t, table)
  <1>1. Len(c) \in Nat /\ Len(h) \in Nat /\ 1..Len(h) \subseteq 1..Len(c)
    OBVIOUS
  <1>2. PICK f \in [1..Len(c) -> LetIn(table)] :
          /\ \A a, b \in 1..Len(c) : f[a] = f[b] => a = b
          /\ \A n \in 1..Len(c) : table[f[n]].time = c[n]
    BY DEF Lawful, Named
  <1> DEFINE g == [n \in 1..Len(h) |-> f[n]]
  <1>3. /\ g \in [1..Len(h) -> LetIn(table)]
        /\ \A a, b \in 1..Len(h) : g[a] = g[b] => a = b
        /\ \A n \in 1..Len(h) : table[g[n]].time = h[n]
    BY <1>1, <1>2
  <1>4. Named(h, table)
    BY <1>3, Zenon DEF Named
  <1>5. Falling(h) /\ \A n \in 1..Len(h) : h[n] <= t
    BY <1>1 DEF Lawful, Falling
  <1> QED
    BY <1>4, <1>5 DEF Lawful

(* What has been let in stays so, and is let in by every later table. *)
LEMMA LawfulLater ==
    ASSUME NEW T, NEW h \in Seq(T), NEW t, NEW old, NEW new, Lawful(h, t, old),
           LetIn(old) \subseteq LetIn(new), \A q \in LetIn(old) : new[q] = old[q]
    PROVE  Lawful(h, t, new)
  <1>1. PICK f \in [1..Len(h) -> LetIn(old)] :
          /\ \A a, b \in 1..Len(h) : f[a] = f[b] => a = b
          /\ \A n \in 1..Len(h) : old[f[n]].time = h[n]
    BY DEF Lawful, Named
  <1>2. f \in [1..Len(h) -> LetIn(new)] /\ \A n \in 1..Len(h) : new[f[n]].time = h[n]
    BY <1>1
  <1>3. Named(h, new)
    BY <1>1, <1>2 DEF Named
  <1> QED
    BY <1>3 DEF Lawful

LEMMA RateInit == ASSUME Rate!RateAssumption, Rate!Init PROVE RateInv
  <1>1. Given.rate.limit \in Nat /\ Given.rate.time \in Nat /\ Given.rate.faults \in Nat
    BY DEF Rate!RateAssumption
  <1>2. /\ v1 = 0 /\ v2 = <<>> /\ v3 = 0 /\ v5 = 0
        /\ v4 = [r \in Given.rate.requests |-> [at |-> "idle", time |-> 0, history |-> <<>>]]
    BY DEF Rate!Init, Rate!Idle
  <1>3. RateTypes
    BY <1>1, <1>2 DEF RateTypes, RateRow
  <1>4. LetIn(v4) = {} /\ IsFiniteSet(LetIn(v4))
    <2>1. LetIn(v4) = {}
      BY <1>2 DEF LetIn
    <2> QED
      BY <2>1, FS_EmptySet
  <1>5. Lawful(v2, v1, v4)
    BY <1>2, LawfulEmpty
  <1>6. PassedInv /\ RefusedInv
    BY <1>2 DEF PassedInv, RefusedInv
  <1> QED
    BY <1>3, <1>4, <1>5, <1>6 DEF RateInv

(* A request that has not been let in moves on. *)
LEMMA RateMoved ==
    ASSUME Rate!RateAssumption, RateInv,
           NEW r \in Given.rate.requests, v4[r].at # "admitted",
           NEW row \in RateRow, v4' = [v4 EXCEPT ![r] = row]
    PROVE  /\ v4' \in [Given.rate.requests -> RateRow]
           /\ v4'[r] = row /\ \A q \in Given.rate.requests : q # r => v4'[q] = v4[q]
           /\ LetIn(v4') = IF row.at = "admitted" THEN LetIn(v4) \cup {r} ELSE LetIn(v4)
           /\ LetIn(v4) \subseteq LetIn(v4') /\ \A q \in LetIn(v4) : v4'[q] = v4[q]
           /\ r \notin LetIn(v4) /\ IsFiniteSet(LetIn(v4'))
           /\ \A t \in Nat : Cardinality(Before(v4, t)) >= Given.rate.limit
                              => Cardinality(Before(v4', t)) >= Given.rate.limit
  <1>1. /\ v4' \in [Given.rate.requests -> RateRow]
        /\ v4'[r] = row /\ \A q \in Given.rate.requests : q # r => v4'[q] = v4[q]
    BY DEF RateInv, RateTypes
  <1>2. /\ LetIn(v4') = IF row.at = "admitted" THEN LetIn(v4) \cup {r} ELSE LetIn(v4)
        /\ r \notin LetIn(v4)
    BY <1>1 DEF LetIn
  <1>3. IsFiniteSet(LetIn(v4'))
    BY <1>2, FS_AddElement DEF RateInv
  <1>4. LetIn(v4) \subseteq LetIn(v4') /\ \A q \in LetIn(v4) : v4'[q] = v4[q]
    BY <1>1, <1>2 DEF LetIn
  <1>5. ASSUME NEW t \in Nat, Cardinality(Before(v4, t)) >= Given.rate.limit
        PROVE  Cardinality(Before(v4', t)) >= Given.rate.limit
    <2>1. Before(v4, t) \in SUBSET Before(v4', t)
      BY <1>4 DEF Before
    <2>2. IsFiniteSet(Before(v4', t)) /\ IsFiniteSet(Before(v4, t))
      BY <1>3, FS_Subset DEF RateInv, Before
    <2>3. /\ Cardinality(Before(v4, t)) <= Cardinality(Before(v4', t))
          /\ Given.rate.limit \in Nat
          /\ Cardinality(Before(v4, t)) \in Nat /\ Cardinality(Before(v4', t)) \in Nat
      BY <2>1, <2>2, FS_Subset, FS_CardinalityType DEF Rate!RateAssumption
    <2> QED
      BY <1>5, <2>3
  <1> QED
    BY <1>1, <1>2, <1>3, <1>4, <1>5

(* And keeps the invariant, if what it moves to does. *)
LEMMA RateAfter ==
    ASSUME Rate!RateAssumption, RateInv,
           NEW r \in Given.rate.requests, v4[r].at # "admitted",
           NEW row \in RateRow, v4' = [v4 EXCEPT ![r] = row], v1' = v1,
           v2' \in Seq(0..Given.rate.time), Len(v2') <= Given.rate.limit,
           v3' \in Nat, v5' \in 0..Given.rate.faults, Lawful(v2', v1, v4'),
           row.at = "write" => /\ row.time <= v1
                               /\ Len(row.history) < Given.rate.limit
                               /\ Lawful(row.history, row.time, v4),
           row.at = "denied" => Cardinality(Before(v4, row.time)) >= Given.rate.limit
    PROVE  RateInv'
  <1>1. /\ v4' \in [Given.rate.requests -> RateRow]
        /\ v4'[r] = row /\ \A q \in Given.rate.requests : q # r => v4'[q] = v4[q]
        /\ LetIn(v4) \subseteq LetIn(v4') /\ \A q \in LetIn(v4) : v4'[q] = v4[q]
        /\ IsFiniteSet(LetIn(v4'))
    BY RateMoved
  <1>2. \A t \in Nat : Cardinality(Before(v4, t)) >= Given.rate.limit
                       => Cardinality(Before(v4', t)) >= Given.rate.limit
    BY RateMoved
  <1>3. /\ Given.rate.time \in Nat /\ v1 \in 0..Given.rate.time
        /\ v4 \in [Given.rate.requests -> RateRow]
    BY DEF RateInv, RateTypes, Rate!RateAssumption
  <1>4. RateTypes'
    BY <1>1, <1>3 DEF RateTypes
  <1>5. \A q \in Given.rate.requests : v4'[q].at = "write" =>
          /\ v4'[q].time <= v1
          /\ Len(v4'[q].history) < Given.rate.limit
          /\ Lawful(v4'[q].history, v4'[q].time, v4')
    <2> SUFFICES ASSUME NEW q \in Given.rate.requests, v4'[q].at = "write"
                 PROVE  /\ v4'[q].time <= v1
                        /\ Len(v4'[q].history) < Given.rate.limit
                        /\ Lawful(v4'[q].history, v4'[q].time, v4')
      OBVIOUS
    <2>1. /\ v4'[q].time <= v1 /\ Len(v4'[q].history) < Given.rate.limit
          /\ Lawful(v4'[q].history, v4'[q].time, v4)
      BY <1>1 DEF RateInv, PassedInv
    <2>2. v4'[q].history \in Seq(0..Given.rate.time)
      BY <1>1 DEF RateRow
    <2>3. LetIn(v4) \subseteq LetIn(v4') /\ \A p \in LetIn(v4) : v4'[p] = v4[p]
      BY <1>1
    <2>4. Lawful(v4'[q].history, v4'[q].time, v4')
      BY <2>1, <2>2, <2>3, LawfulLater
    <2> QED
      BY <2>1, <2>4
  <1>6. \A q \in Given.rate.requests : v4'[q].at = "denied" =>
          Cardinality(Before(v4', v4'[q].time)) >= Given.rate.limit
    <2> SUFFICES ASSUME NEW q \in Given.rate.requests, v4'[q].at = "denied"
                 PROVE  Cardinality(Before(v4', v4'[q].time)) >= Given.rate.limit
      OBVIOUS
    <2>1. v4'[q].time \in Nat
      BY <1>1, <1>3 DEF RateRow
    <2>2. Cardinality(Before(v4, v4'[q].time)) >= Given.rate.limit
      BY <1>1 DEF RateInv, RefusedInv
    <2> QED
      BY <1>2, <2>1, <2>2
  <1>7. PassedInv' /\ RefusedInv'
    BY <1>5, <1>6 DEF PassedInv, RefusedInv
  <1> QED
    BY <1>1, <1>4, <1>7 DEF RateInv

(* A read: a list still full without what is old is all of requests let in *)
(* within one duration.                                                    *)
LEMMA RateRead ==
    ASSUME Rate!RateAssumption, RateInv, NEW r \in Given.rate.requests, Rate!Read(r)
    PROVE  RateInv'
  <1>1. /\ Given.rate.limit \in Nat \ {0} /\ Given.rate.time \in Nat
        /\ Given.rate.faults \in Nat /\ Given.rate.duration \in Nat \ {0}
        /\ RateTypes /\ 0..Given.rate.time \subseteq Nat
    BY DEF Rate!RateAssumption, RateInv
  <1>2. PICK cached : cached = Rate!Cached /\ cached = IF v3 < v1 THEN <<>> ELSE v2
    BY DEF Rate!Cached
  <1>3. cached \in Seq(0..Given.rate.time) /\ Lawful(cached, v1, v4)
    <2>1. CASE v3 < v1
      <3>1. cached = <<>>
        BY <1>2, <2>1
      <3> QED
        BY <3>1, LawfulEmpty
    <2>2. CASE ~(v3 < v1)
      <3>1. cached = v2
        BY <1>2, <2>2
      <3> QED
        BY <1>1, <3>1 DEF RateInv, RateTypes
    <2> QED
      BY <2>1, <2>2
  <1>4. PICK young : young = {n \in 1..Len(cached) : cached[n] + Given.rate.duration > v1}
    OBVIOUS
  <1>5. PICK h : h = Popped(cached, young) /\ h = Rate!Recent(cached)
    <2>1. Rate!Recent(cached) = Popped(cached, young)
      BY <1>3, <1>4, RateRecent
    <2> QED
      BY <2>1
  <1>6. /\ h \in Seq(0..Given.rate.time) /\ Len(h) \in 0..Len(cached)
        /\ \A n \in 1..Len(h) : h[n] = cached[n]
        /\ Len(h) > 0 => Len(h) \in young
    <2>1. young \in SUBSET (1..Len(cached))
      BY <1>4
    <2>2. /\ Popped(cached, young) \in Seq(0..Given.rate.time)
          /\ Len(Popped(cached, young)) \in 0..Len(cached)
          /\ \A n \in 1..Len(Popped(cached, young)) : Popped(cached, young)[n] = cached[n]
          /\ Len(Popped(cached, young)) > 0 => Len(Popped(cached, young)) \in young
      BY <1>3, <2>1, PoppedIsFront
    <2> QED
      BY <1>5, <2>2
  <1>7. Lawful(h, v1, v4)
    BY <1>3, <1>6, LawfulFront
  <1> DEFINE row == IF Len(h) >= Given.rate.limit
                    THEN [at |-> "denied", time |-> v1, history |-> <<>>]
                    ELSE [at |-> "write", time |-> v1, history |-> h]
  <1>8. /\ v4[r].at = "idle" /\ UNCHANGED <<v1, v2, v3, v5>>
        /\ v4' = [v4 EXCEPT ![r] = row]
    BY <1>2, <1>5 DEF Rate!Read, Rate!Full
  <1>9. row \in RateRow /\ Len(h) \in Nat
    BY <1>1, <1>6 DEF RateRow, RateTypes
  <1>10. row.at = "write" => row.time <= v1 /\ Len(row.history) < Given.rate.limit
                             /\ Lawful(row.history, row.time, v4)
    BY <1>1, <1>7, <1>9 DEF RateTypes
  <1>11. ASSUME row.at = "denied" PROVE Cardinality(Before(v4, v1)) >= Given.rate.limit
    <2>1. Len(h) >= Given.rate.limit
      BY <1>11
    <2>2. \A n \in 1..Len(h) : h[n] \in Nat /\ h[n] <= v1 /\ h[n] + Given.rate.duration > v1
      <3> SUFFICES ASSUME NEW n \in 1..Len(h)
                   PROVE  h[n] \in Nat /\ h[n] <= v1 /\ h[n] + Given.rate.duration > v1
        OBVIOUS
      <3>1. /\ Len(h) \in 1..Len(h) /\ n <= Len(h) /\ Len(h) > 0
        BY <1>9
      <3>2. h[n] \in Nat /\ h[Len(h)] \in Nat
        BY <1>1, <1>6, <3>1
      <3>3. h[n] >= h[Len(h)] /\ h[n] <= v1
        BY <1>7, <3>1 DEF Lawful, Falling
      <3>4. h[Len(h)] + Given.rate.duration > v1
        BY <1>4, <1>6, <3>1
      <3> QED
        BY <1>1, <3>2, <3>3, <3>4 DEF RateTypes
    <2>3. PICK f \in [1..Len(h) -> LetIn(v4)] :
            /\ \A a, b \in 1..Len(h) : f[a] = f[b] => a = b
            /\ \A n \in 1..Len(h) : v4[f[n]].time = h[n]
      BY <1>7 DEF Lawful, Named
    <2>4. f \in [1..Len(h) -> Before(v4, v1)]
      BY <2>2, <2>3 DEF Before
    <2>5. IsFiniteSet(Before(v4, v1))
      BY FS_Subset DEF RateInv, Before
    <2>6. Len(h) <= Cardinality(Before(v4, v1)) /\ Cardinality(Before(v4, v1)) \in Nat
      BY <1>9, <2>3, <2>4, <2>5, PlacesCount, FS_CardinalityType
    <2> QED
      BY <1>1, <1>9, <2>1, <2>6
  <1>12. row.at = "denied" => Cardinality(Before(v4, row.time)) >= Given.rate.limit
    BY <1>11
  <1>13. Lawful(v2', v1, v4')
    <2>1. LetIn(v4) \subseteq LetIn(v4') /\ \A q \in LetIn(v4) : v4'[q] = v4[q]
      BY <1>8, <1>9, RateMoved
    <2>2. Lawful(v2, v1, v4) /\ v2 \in Seq(0..Given.rate.time)
      BY DEF RateInv, RateTypes
    <2> QED
      BY <1>8, <2>1, <2>2, LawfulLater
  <1>14. /\ v2' \in Seq(0..Given.rate.time) /\ Len(v2') <= Given.rate.limit
         /\ v3' \in Nat /\ v5' \in 0..Given.rate.faults
    BY <1>1, <1>8 DEF RateTypes
  <1> HIDE DEF row
  <1> QED
    BY <1>8, <1>9, <1>10, <1>12, <1>13, <1>14, RateAfter

(* The row of a request that is let in. *)
LEMMA RateAdmits ==
    ASSUME v4 \in [Given.rate.requests -> RateRow], NEW r \in Given.rate.requests,
           v4' = [v4 EXCEPT ![r].at = "admitted", ![r].history = <<>>]
    PROVE  \E row \in RateRow : /\ row.at = "admitted" /\ row.time = v4[r].time
                                /\ v4' = [v4 EXCEPT ![r] = row]
  <1> DEFINE old == [v4[r] EXCEPT !.at = "admitted"]
             new == [old EXCEPT !.history = <<>>]
  <1>1. v4' = [v4 EXCEPT ![r] = new]
    OBVIOUS
  <1>2. old \in RateRow /\ old.at = "admitted" /\ old.time = v4[r].time
    BY DEF RateRow
  <1> HIDE DEF old
  <1>3. new \in RateRow /\ new.at = "admitted" /\ new.time = v4[r].time
    BY <1>2 DEF RateRow
  <1> HIDE DEF new
  <1> QED
    BY <1>1, <1>3

(* A write: its request is new in the list, and goes in front. *)
LEMMA RateWrite ==
    ASSUME Rate!RateAssumption, RateInv, NEW r \in Given.rate.requests, Rate!Write(r)
    PROVE  RateInv'
  <1>1. /\ Given.rate.limit \in Nat \ {0} /\ Given.rate.time \in Nat
        /\ Given.rate.faults \in Nat /\ Given.rate.duration \in Nat \ {0}
        /\ RateTypes /\ 0..Given.rate.time \subseteq Nat
    BY DEF Rate!RateAssumption, RateInv
  <1>2. PICK t, h : t = v4[r].time /\ h = v4[r].history
    OBVIOUS
  <1>3. /\ t \in 0..Given.rate.time /\ h \in Seq(0..Given.rate.time)
        /\ t <= v1 /\ Len(h) < Given.rate.limit /\ Lawful(h, t, v4)
    BY <1>1, <1>2 DEF RateTypes, RateRow, RateInv, PassedInv, Rate!Write
  <1>4. PICK row \in RateRow : /\ row.at = "admitted" /\ row.time = t
                               /\ v4' = [v4 EXCEPT ![r] = row]
    BY <1>1, <1>2, RateAdmits DEF Rate!Write, RateTypes
  <1>5. /\ v4[r].at = "write" /\ v4' = [v4 EXCEPT ![r] = row]
        /\ v1' = v1 /\ v5' = v5 /\ v3' = v1 + Given.rate.duration /\ v2' = <<t>> \o h
    BY <1>2, <1>4 DEF Rate!Write
  <1>6. /\ v4'[r] = row /\ LetIn(v4') = LetIn(v4) \cup {r} /\ r \notin LetIn(v4)
        /\ \A q \in LetIn(v4) : v4'[q] = v4[q]
    BY <1>4, <1>5, RateMoved
  <1>7. /\ v2' \in Seq(0..Given.rate.time) /\ Len(v2') = Len(h) + 1 /\ Len(h) \in Nat
        /\ v2'[1] = t /\ \A n \in 2..(Len(h) + 1) : v2'[n] = h[n - 1]
    BY <1>3, <1>5
  <1>8. PICK f \in [1..Len(h) -> LetIn(v4)] :
          /\ \A a, b \in 1..Len(h) : f[a] = f[b] => a = b
          /\ \A n \in 1..Len(h) : v4[f[n]].time = h[n]
    BY <1>3 DEF Lawful, Named
  <1> DEFINE g == [n \in 1..(Len(h) + 1) |-> IF n = 1 THEN r ELSE f[n - 1]]
  <1>9. /\ g \in [1..Len(v2') -> LetIn(v4')]
        /\ \A a, b \in 1..Len(v2') : g[a] = g[b] => a = b
        /\ \A n \in 1..Len(v2') : v4'[g[n]].time = v2'[n]
    <2>1. \A n \in 1..(Len(h) + 1) : n = 1 \/ (n \in 2..(Len(h) + 1) /\ n - 1 \in 1..Len(h))
      <3> SUFFICES ASSUME NEW n \in 1..(Len(h) + 1), n # 1
                   PROVE  n \in 2..(Len(h) + 1) /\ n - 1 \in 1..Len(h)
        OBVIOUS
      <3>1. Len(h) \in Nat
        BY <1>7
      <3> QED
        BY <3>1
    <2>2. g \in [1..Len(v2') -> LetIn(v4')]
      BY <1>6, <1>7, <1>8, <2>1
    <2>3. \A a, b \in 1..(Len(h) + 1) : a - 1 = b - 1 => a = b
      BY <1>7
    <2>4. ASSUME NEW a \in 1..(Len(h) + 1), NEW b \in 1..(Len(h) + 1), g[a] = g[b]
          PROVE  a = b
      <3>1. CASE a = 1 \/ b = 1
        BY <1>6, <1>8, <2>1, <2>4, <3>1
      <3>2. CASE a # 1 /\ b # 1
        <4>1. f[a - 1] = f[b - 1] /\ a - 1 \in 1..Len(h) /\ b - 1 \in 1..Len(h)
          BY <2>1, <2>4, <3>2
        <4> QED
          BY <1>8, <2>3, <4>1
      <3> QED
        BY <3>1, <3>2
    <2>5. ASSUME NEW n \in 1..(Len(h) + 1) PROVE v4'[g[n]].time = v2'[n]
      <3>1. CASE n = 1
        <4>1. g[1] = r
          BY <1>7
        <4> QED
          BY <1>4, <1>6, <1>7, <3>1, <4>1
      <3>2. CASE n # 1
        <4>1. g[n] = f[n - 1] /\ n \in 2..(Len(h) + 1) /\ n - 1 \in 1..Len(h)
          BY <2>1, <3>2
        <4> QED
          BY <1>6, <1>7, <1>8, <4>1
      <3> QED
        BY <3>1, <3>2
    <2> QED
      BY <1>7, <2>2, <2>4, <2>5
  <1>10. Named(v2', v4')
    <2> HIDE DEF g
    <2> QED
      BY <1>9, Zenon DEF Named
  <1>11. \A n \in 1..Len(v2') : v2'[n] \in Nat /\ v2'[n] <= t /\ v2'[n] <= v1
    <2> SUFFICES ASSUME NEW n \in 1..Len(v2') PROVE v2'[n] \in Nat /\ v2'[n] <= t /\ v2'[n] <= v1
      OBVIOUS
    <2>1. v2'[n] <= t
      <3>1. CASE n = 1
        BY <1>1, <1>3, <1>7, <3>1
      <3>2. CASE n # 1
        <4>1. n \in 2..(Len(h) + 1) /\ n - 1 \in 1..Len(h)
          BY <1>7, <3>2
        <4> QED
          BY <1>3, <1>7, <4>1 DEF Lawful
      <3> QED
        BY <3>1, <3>2
    <2>2. v2'[n] \in Nat
      BY <1>1, <1>7
    <2> QED
      BY <1>1, <1>3, <2>1, <2>2 DEF RateTypes
  <1>12. Falling(v2')
    <2> SUFFICES ASSUME NEW m \in 1..Len(v2'), NEW n \in 1..Len(v2'), m <= n
                 PROVE  v2'[m] >= v2'[n]
      BY DEF Falling
    <2>1. CASE m = 1
      BY <1>1, <1>3, <1>7, <1>11, <2>1
    <2>2. CASE m # 1
      <3>1. /\ m \in 2..(Len(h) + 1) /\ n \in 2..(Len(h) + 1)
            /\ m - 1 \in 1..Len(h) /\ n - 1 \in 1..Len(h) /\ m - 1 <= n - 1
        BY <1>7, <2>2
      <3> QED
        BY <1>3, <1>7, <3>1 DEF Lawful, Falling
    <2> QED
      BY <2>1, <2>2
  <1>13. Lawful(v2', v1, v4')
    BY <1>10, <1>11, <1>12 DEF Lawful
  <1>14. Len(v2') <= Given.rate.limit /\ v3' \in Nat /\ v5' \in 0..Given.rate.faults
    BY <1>1, <1>3, <1>5, <1>7 DEF RateTypes
  <1> HIDE DEF g
  <1> QED
    BY <1>4, <1>5, <1>7, <1>13, <1>14, RateAfter

(* Statements that fail leave the list alone. *)
LEMMA RateFails ==
    ASSUME Rate!RateAssumption, RateInv, NEW r \in Given.rate.requests,
           Rate!FailRead(r) \/ Rate!FailWrite(r)
    PROVE  RateInv'
  <1>1. /\ Given.rate.time \in Nat /\ Given.rate.faults \in Nat /\ RateTypes
    BY DEF Rate!RateAssumption, RateInv
  <1>2. PICK row \in RateRow : /\ row.at \in {"failed", "admitted"}
                               /\ v4' = [v4 EXCEPT ![r] = row]
    <2>1. v4[r] = [at |-> v4[r].at, time |-> v4[r].time, history |-> v4[r].history]
      BY <1>1 DEF RateTypes, RateRow
    <2>2. CASE Rate!FailRead(r)
      <3>1. [v4[r] EXCEPT !.at = "failed"] \in RateRow
        BY <1>1 DEF RateTypes, RateRow
      <3>2. [v4[r] EXCEPT !.at = "failed"].at = "failed"
        BY <2>1
      <3> QED
        BY <2>2, <3>1, <3>2 DEF Rate!FailRead
    <2>3. CASE Rate!FailWrite(r)
      BY <1>1, <2>3, RateAdmits DEF Rate!FailWrite, RateTypes
    <2> QED
      BY <2>2, <2>3
  <1>3. v4[r].at # "admitted" /\ UNCHANGED <<v1, v2, v3>> /\ v5' \in 0..Given.rate.faults
    BY <1>1 DEF Rate!FailRead, Rate!FailWrite, RateTypes
  <1>4. Lawful(v2', v1, v4')
    <2>1. LetIn(v4) \subseteq LetIn(v4') /\ \A q \in LetIn(v4) : v4'[q] = v4[q]
      BY <1>2, <1>3, RateMoved
    <2>2. Lawful(v2, v1, v4) /\ v2 \in Seq(0..Given.rate.time)
      BY DEF RateInv, RateTypes
    <2> QED
      BY <1>3, <2>1, <2>2, LawfulLater
  <1>5. row.at # "write" /\ row.at # "denied"
    BY <1>2
  <1>6. v2' \in Seq(0..Given.rate.time) /\ Len(v2') <= Given.rate.limit /\ v3' \in Nat
    BY <1>1, <1>3 DEF RateTypes
  <1> QED
    BY <1>2, <1>3, <1>4, <1>5, <1>6, RateAfter

LEMMA RatePass == ASSUME Rate!RateAssumption, RateInv, Rate!Pass PROVE RateInv'
  <1>1. /\ Given.rate.time \in Nat /\ RateTypes /\ v1 \in 0..Given.rate.time
        /\ v4 \in [Given.rate.requests -> RateRow] /\ 0..Given.rate.time \subseteq Nat
    BY DEF Rate!RateAssumption, RateInv, RateTypes
  <1>2. v1' = v1 + 1 /\ v1 < Given.rate.time /\ UNCHANGED <<v2, v3, v4, v5>>
    BY DEF Rate!Pass
  <1>3. RateTypes'
    BY <1>1, <1>2 DEF RateTypes
  <1>4. \A n \in 1..Len(v2) : v2[n] \in Nat
    BY <1>1 DEF RateTypes
  <1>5. Lawful(v2, v1 + 1, v4)
    BY <1>1, <1>4 DEF RateInv, Lawful
  <1>6. \A q \in Given.rate.requests : v4[q].time \in Nat
    BY <1>1 DEF RateRow
  <1>7. PassedInv'
    BY <1>1, <1>2, <1>6 DEF RateInv, PassedInv
  <1>8. RefusedInv' /\ IsFiniteSet(LetIn(v4'))
    BY <1>2 DEF RateInv, RefusedInv
  <1> QED
    BY <1>2, <1>3, <1>5, <1>7, <1>8 DEF RateInv

LEMMA RateStep == ASSUME Rate!RateAssumption, RateInv, Rate!Next PROVE RateInv'
  BY RateRead, RateWrite, RateFails, RatePass DEF Rate!Next

LEMMA RateStays == ASSUME RateInv, UNCHANGED vars PROVE RateInv'
  <1>1. RateTypes'
    BY DEF vars, RateInv, RateTypes
  <1>2. PassedInv' /\ RefusedInv'
    BY DEF vars, RateInv, PassedInv, RefusedInv
  <1>3. v1' = v1 /\ v2' = v2 /\ v4' = v4
    BY DEF vars
  <1> QED
    BY <1>1, <1>2, <1>3 DEF RateInv

(* RefusedForOthers in a state of the invariant. *)
LEMMA RateHolds == ASSUME RateInv PROVE Rate!RefusedForOthers
  <1> SUFFICES ASSUME NEW r \in Given.rate.requests, v4[r].at = "denied"
               PROVE  Rate!Cardinality({q \in Rate!Admitted :
                        /\ v4[q].time <= v4[r].time
                        /\ v4[q].time + Given.rate.duration > v4[r].time}) >= Given.rate.limit
    BY DEF Rate!RefusedForOthers
  <1>1. {q \in Rate!Admitted : /\ v4[q].time <= v4[r].time
                               /\ v4[q].time + Given.rate.duration > v4[r].time}
          = Before(v4, v4[r].time)
    BY DEF Rate!Admitted, Before, LetIn
  <1>2. Cardinality(Before(v4, v4[r].time)) >= Given.rate.limit
    BY DEF RateInv, RefusedInv
  <1>3. Rate!Cardinality(Before(v4, v4[r].time)) = Cardinality(Before(v4, v4[r].time))
    BY DEF Rate!Cardinality, Cardinality
  <1> QED
    BY <1>1, <1>2, <1>3

-----------------------------------------------------------------------------
(* A rate, with one request at a time *)

LEMMA SerialRecent ==
    ASSUME NEW T, NEW h \in Seq(T)
    PROVE  Serial!Recent(h) = Popped(h, {n \in 1..Len(h) : h[n] + Given.serial.duration > v1})
  <1> DEFINE S == {n \in 1..Len(h) : h[n] + Given.serial.duration > v1}
  <1>1. Serial!Young(h) = S
    <2>1. DOMAIN h = 1..Len(h)
      OBVIOUS
    <2> QED
      BY <2>1 DEF Serial!Young
  <1> HIDE DEF S
  <1>2. Serial!Recent(h) = Serial!PoppedTo(h, S)
    BY <1>1, Zenon DEF Serial!Recent
  <1>3. Serial!PoppedTo(h, S) = Popped(h, S)
    BY Zenon DEF Serial!PoppedTo, Serial!Max, Popped
  <1> QED
    BY <1>2, <1>3 DEF S

(* One at a time, and no statement that fails: whoever has been let in     *)
(* within the last duration has a place of his own in the list.            *)
Counts(table) == {q \in Given.serial.requests : table[q].at = "admitted"}
Since(table, t) == {q \in Counts(table) : table[q].time + Given.serial.duration > t}
Placed(h, t, table) ==
    \E g \in [Since(table, t) -> 1..Len(h)] :
        /\ \A p, q \in Since(table, t) : g[p] = g[q] => p = q
        /\ \A q \in Since(table, t) : h[g[q]] = table[q].time

\* Those let in within one duration from a time on.
Span(table, t) ==
    {q \in Counts(table) : table[q].time \in t..(t + Given.serial.duration - 1)}

SerialRow ==
    [at : {"idle", "write", "admitted", "denied", "failed"},
     time : 0..Given.serial.time, history : Seq(0..Given.serial.time)]

SerialTypes ==
    /\ v1 \in 0..Given.serial.time
    /\ v2 \in Seq(0..Given.serial.time)
    /\ v3 \in Nat
    /\ v4 \in [Given.serial.requests -> SerialRow]
    /\ v5 = 0

OneWrites ==
    \A p, q \in Given.serial.requests : v4[p].at = "write" /\ v4[q].at = "write" => p = q

ReadInv ==
    \A r \in Given.serial.requests : v4[r].at = "write" =>
        /\ v4[r].time <= v1
        /\ Len(v4[r].history) < Given.serial.limit
        /\ Placed(v4[r].history, v4[r].time, v4)

SpanInv == \A t \in Nat : Cardinality(Span(v4, t)) <= Given.serial.limit

SerialInv ==
    /\ SerialTypes /\ OneWrites /\ ReadInv /\ SpanInv
    /\ Placed(v2, v1, v4)
    /\ \A q \in Counts(v4) : v4[q].time <= v1 /\ v4[q].time + Given.serial.duration <= v3

(* The later, the fewer have to have a place. *)
LEMMA PlacedLater ==
    ASSUME NEW h, NEW t \in Nat, NEW u \in Nat, t <= u, NEW table, Placed(h, t, table),
           Given.serial.duration \in Nat, \A q \in Counts(table) : table[q].time \in Nat
    PROVE  Placed(h, u, table)
  <1>1. PICK g \in [Since(table, t) -> 1..Len(h)] :
          /\ \A p, q \in Since(table, t) : g[p] = g[q] => p = q
          /\ \A q \in Since(table, t) : h[g[q]] = table[q].time
    BY DEF Placed
  <1>2. Since(table, u) \subseteq Since(table, t)
    BY DEF Since
  <1> DEFINE k == [q \in Since(table, u) |-> g[q]]
  <1>3. /\ k \in [Since(table, u) -> 1..Len(h)]
        /\ \A p, q \in Since(table, u) : k[p] = k[q] => p = q
        /\ \A q \in Since(table, u) : h[k[q]] = table[q].time
    BY <1>1, <1>2
  <1> HIDE DEF k
  <1> QED
    BY <1>3, Zenon DEF Placed

LEMMA SerialInit == ASSUME Serial!RateAssumption, Serial!Init PROVE SerialInv
  <1>1. Given.serial.limit \in Nat \ {0} /\ Given.serial.time \in Nat
    BY DEF Serial!RateAssumption
  <1>2. /\ v1 = 0 /\ v2 = <<>> /\ v3 = 0 /\ v5 = 0
        /\ v4 = [r \in Given.serial.requests |-> [at |-> "idle", time |-> 0, history |-> <<>>]]
    BY DEF Serial!Init, Serial!Idle
  <1>3. SerialTypes
    BY <1>1, <1>2 DEF SerialTypes, SerialRow
  <1>4. Counts(v4) = {}
    BY <1>2 DEF Counts
  <1>5. Since(v4, v1) = {} /\ \A t : Span(v4, t) = {}
    BY <1>4 DEF Since, Span
  <1>6. Placed(v2, v1, v4)
    <2>1. [n \in {} |-> n] \in [{} -> 1..Len(v2)]
      OBVIOUS
    <2> QED
      BY <1>5, <2>1, Zenon DEF Placed
  <1>7. SpanInv
    BY <1>1, <1>5, FS_EmptySet DEF SpanInv
  <1>8. OneWrites /\ ReadInv
    BY <1>2 DEF OneWrites, ReadInv
  <1> QED
    BY <1>3, <1>4, <1>6, <1>7, <1>8 DEF SerialInv

(* A read finds everybody in the list, if the row is there, and nobody has *)
(* to be found if it is not.                                               *)
LEMMA SerialRead ==
    ASSUME Serial!RateAssumption, SerialInv, NEW r \in Given.serial.requests, Serial!Read(r)
    PROVE  SerialInv'
  <1>1. /\ Given.serial.limit \in Nat \ {0} /\ Given.serial.time \in Nat
        /\ Given.serial.duration \in Nat \ {0}
        /\ SerialTypes /\ 0..Given.serial.time \subseteq Nat
        /\ v1 \in Nat /\ v3 \in Nat /\ v4 \in [Given.serial.requests -> SerialRow]
    BY DEF Serial!RateAssumption, SerialInv, SerialTypes
  <1>2. PICK cached : cached = Serial!Cached /\ cached = IF v3 < v1 THEN <<>> ELSE v2
    BY DEF Serial!Cached
  <1>3. cached \in Seq(0..Given.serial.time) /\ Placed(cached, v1, v4)
    <2>1. CASE v3 < v1
      <3>1. cached = <<>>
        BY <1>2, <2>1
      <3>2. ASSUME NEW q \in Since(v4, v1) PROVE FALSE
        <4>1. /\ q \in Counts(v4) /\ v4[q].time \in Nat
              /\ v4[q].time + Given.serial.duration > v1
          BY <1>1 DEF Since, Counts, SerialRow
        <4>2. v4[q].time + Given.serial.duration <= v3
          BY <4>1 DEF SerialInv
        <4> QED
          BY <1>1, <2>1, <4>1, <4>2
      <3>3. Since(v4, v1) = {}
        BY <3>2
      <3>4. [n \in {} |-> n] \in [{} -> 1..Len(cached)]
        OBVIOUS
      <3>5. Placed(cached, v1, v4)
        BY <3>3, <3>4, Zenon DEF Placed
      <3> QED
        BY <3>1, <3>5
    <2>2. CASE ~(v3 < v1)
      <3>1. cached = v2
        BY <1>2, <2>2
      <3> QED
        BY <1>1, <3>1 DEF SerialInv, SerialTypes
    <2> QED
      BY <2>1, <2>2
  <1>4. PICK young : young = {n \in 1..Len(cached) : cached[n] + Given.serial.duration > v1}
    OBVIOUS
  <1>5. PICK h : h = Popped(cached, young) /\ h = Serial!Recent(cached)
    <2>1. Serial!Recent(cached) = Popped(cached, young)
      BY <1>3, <1>4, SerialRecent
    <2> QED
      BY <2>1
  <1>6. /\ h \in Seq(0..Given.serial.time) /\ Len(h) \in 0..Len(cached)
        /\ \A n \in 1..Len(h) : h[n] = cached[n]
        /\ \A n \in young : n <= Len(h)
    <2>1. young \in SUBSET (1..Len(cached))
      BY <1>4
    <2>2. /\ Popped(cached, young) \in Seq(0..Given.serial.time)
          /\ Len(Popped(cached, young)) \in 0..Len(cached)
          /\ \A n \in 1..Len(Popped(cached, young)) : Popped(cached, young)[n] = cached[n]
          /\ \A n \in young : n <= Len(Popped(cached, young))
      BY <1>3, <2>1, PoppedIsFront
    <2> QED
      BY <1>5, <2>2
  <1>7. Placed(h, v1, v4)
    <2>1. PICK g \in [Since(v4, v1) -> 1..Len(cached)] :
            /\ \A p, q \in Since(v4, v1) : g[p] = g[q] => p = q
            /\ \A q \in Since(v4, v1) : cached[g[q]] = v4[q].time
      BY <1>3 DEF Placed
    <2>2. ASSUME NEW q \in Since(v4, v1) PROVE g[q] \in 1..Len(h) /\ h[g[q]] = v4[q].time
      <3>1. g[q] \in 1..Len(cached) /\ cached[g[q]] = v4[q].time
        BY <2>1
      <3>2. v4[q].time + Given.serial.duration > v1
        BY DEF Since
      <3>3. g[q] \in young
        BY <1>4, <3>1, <3>2
      <3>4. g[q] <= Len(h) /\ Len(h) \in Nat /\ Len(cached) \in Nat
        BY <1>3, <1>6, <3>3
      <3>5. g[q] \in 1..Len(h)
        BY <3>1, <3>4
      <3> QED
        BY <1>6, <3>1, <3>5
    <2>3. g \in [Since(v4, v1) -> 1..Len(h)]
      BY <2>1, <2>2
    <2> QED
      BY <2>1, <2>2, <2>3 DEF Placed
  <1> DEFINE row == IF Len(h) >= Given.serial.limit
                    THEN [at |-> "denied", time |-> v1, history |-> <<>>]
                    ELSE [at |-> "write", time |-> v1, history |-> h]
  <1>8. /\ v4[r].at = "idle" /\ UNCHANGED <<v1, v2, v3, v5>>
        /\ v4' = [v4 EXCEPT ![r] = row]
    BY <1>2, <1>5 DEF Serial!Read, Serial!Full
  <1>9. row \in SerialRow /\ Len(h) \in Nat
    BY <1>1, <1>6 DEF SerialRow, SerialTypes
  <1>10. row.at = "write" => row.time <= v1 /\ Len(row.history) < Given.serial.limit
                             /\ Placed(row.history, row.time, v4)
    BY <1>1, <1>7, <1>9
  <1>11. row.at # "admitted"
    OBVIOUS
  <1> HIDE DEF row
  <1>12. /\ v4' \in [Given.serial.requests -> SerialRow] /\ v4'[r] = row
         /\ \A q \in Given.serial.requests : q # r => v4'[q] = v4[q]
    BY <1>1, <1>8, <1>9
  <1>13. Counts(v4') = Counts(v4) /\ \A q \in Counts(v4) : v4'[q] = v4[q]
    BY <1>8, <1>11, <1>12 DEF Counts
  <1>14. /\ \A t : Since(v4', t) = Since(v4, t)
         /\ \A t : Span(v4', t) = Span(v4, t)
         /\ \A t : \A q \in Since(v4, t) : v4'[q].time = v4[q].time
    BY <1>13 DEF Since, Span
  <1>15. \A g, t : Placed(g, t, v4) => Placed(g, t, v4')
    BY <1>14 DEF Placed
  <1>16. \A q \in Given.serial.requests : v4[q].at # "write"
    <2> DEFINE W == {q \in Given.serial.requests : v4[q].at = "write"}
    <2>1. Cardinality(W) < 1
      <3>1. Serial!Cardinality(Serial!UnderWay) < 1
        BY DEF Serial!Read
      <3>2. Serial!UnderWay = W
        BY DEF Serial!UnderWay
      <3>3. Serial!Cardinality(W) = Cardinality(W)
        BY DEF Serial!Cardinality, Cardinality
      <3> QED
        BY <3>1, <3>2, <3>3
    <2> SUFFICES ASSUME NEW q \in W PROVE FALSE
      OBVIOUS
    <2>2. W = {q}
      BY DEF SerialInv, OneWrites
    <2>3. Cardinality({q}) = 1
      BY FS_Singleton
    <2> QED
      BY <2>1, <2>2, <2>3
  <1>17. OneWrites'
    BY <1>12, <1>16 DEF OneWrites
  <1>18. ReadInv'
    BY <1>8, <1>10, <1>12, <1>15, <1>16 DEF ReadInv
  <1>19. SpanInv' /\ Placed(v2', v1', v4') /\ SerialTypes'
    BY <1>1, <1>8, <1>12, <1>14, <1>15 DEF SerialInv, SpanInv, SerialTypes
  <1>20. \A q \in Counts(v4') : v4'[q].time <= v1' /\ v4'[q].time + Given.serial.duration <= v3'
    BY <1>8, <1>13 DEF SerialInv
  <1> QED
    BY <1>17, <1>18, <1>19, <1>20 DEF SerialInv

(* The row of a request that is let in. *)
LEMMA SerialAdmits ==
    ASSUME v4 \in [Given.serial.requests -> SerialRow], NEW r \in Given.serial.requests,
           v4' = [v4 EXCEPT ![r].at = "admitted", ![r].history = <<>>]
    PROVE  \E row \in SerialRow : /\ row.at = "admitted" /\ row.time = v4[r].time
                                  /\ v4' = [v4 EXCEPT ![r] = row]
  <1> DEFINE old == [v4[r] EXCEPT !.at = "admitted"]
             new == [old EXCEPT !.history = <<>>]
  <1>1. v4' = [v4 EXCEPT ![r] = new]
    OBVIOUS
  <1>2. old \in SerialRow /\ old.at = "admitted" /\ old.time = v4[r].time
    BY DEF SerialRow
  <1> HIDE DEF old
  <1>3. new \in SerialRow /\ new.at = "admitted" /\ new.time = v4[r].time
    BY <1>2 DEF SerialRow
  <1> HIDE DEF new
  <1> QED
    BY <1>1, <1>3

(* A write: who is let in beside its request in one duration was so when   *)
(* the list was read, and has a place in it.                               *)
LEMMA SerialWrite ==
    ASSUME Serial!RateAssumption, SerialInv, NEW r \in Given.serial.requests, Serial!Write(r)
    PROVE  SerialInv'
  <1>1. /\ Given.serial.limit \in Nat \ {0} /\ Given.serial.time \in Nat
        /\ Given.serial.duration \in Nat \ {0}
        /\ SerialTypes /\ 0..Given.serial.time \subseteq Nat
        /\ v1 \in Nat /\ v3 \in Nat /\ v4 \in [Given.serial.requests -> SerialRow]
    BY DEF Serial!RateAssumption, SerialInv, SerialTypes
  <1>2. PICK t, h : t = v4[r].time /\ h = v4[r].history
    OBVIOUS
  <1>3. /\ t \in 0..Given.serial.time /\ h \in Seq(0..Given.serial.time) /\ t \in Nat
        /\ t <= v1 /\ Len(h) < Given.serial.limit /\ Placed(h, t, v4) /\ Len(h) \in Nat
    BY <1>1, <1>2 DEF SerialRow, SerialInv, ReadInv, Serial!Write
  <1>4. PICK row \in SerialRow : /\ row.at = "admitted" /\ row.time = t
                                 /\ v4' = [v4 EXCEPT ![r] = row]
    BY <1>1, <1>2, SerialAdmits DEF Serial!Write
  <1>5. /\ v4[r].at = "write" /\ v1' = v1 /\ v5' = v5
        /\ v3' = v1 + Given.serial.duration /\ v2' = <<t>> \o h
    BY <1>2 DEF Serial!Write
  <1>6. /\ v4' \in [Given.serial.requests -> SerialRow] /\ v4'[r] = row
        /\ \A q \in Given.serial.requests : q # r => v4'[q] = v4[q]
    BY <1>1, <1>4
  <1>7. /\ Counts(v4') = Counts(v4) \cup {r} /\ r \notin Counts(v4)
        /\ \A q \in Counts(v4) : v4'[q] = v4[q]
        /\ \A q \in Counts(v4) : v4[q].time \in Nat
    BY <1>1, <1>4, <1>5, <1>6 DEF Counts, SerialRow
  <1>8. /\ v2' \in Seq(0..Given.serial.time) /\ Len(v2') = Len(h) + 1
        /\ v2'[1] = t /\ \A n \in 1..Len(h) : v2'[n + 1] = h[n]
    BY <1>3, <1>5
  <1>9. PICK g \in [Since(v4, t) -> 1..Len(h)] :
          /\ \A p, q \in Since(v4, t) : g[p] = g[q] => p = q
          /\ \A q \in Since(v4, t) : h[g[q]] = v4[q].time
    BY <1>3 DEF Placed
  \* The places in the new list.
  <1> DEFINE k == [q \in Since(v4, t) \cup {r} |-> IF q = r THEN 1 ELSE g[q] + 1]
  <1>10. /\ k \in [Since(v4, t) \cup {r} -> 1..(Len(h) + 1)]
         /\ \A p, q \in Since(v4, t) \cup {r} : k[p] = k[q] => p = q
         /\ \A q \in Since(v4, t) \cup {r} : v2'[k[q]] = v4'[q].time
    <2>1. r \notin Since(v4, t) /\ \A q \in Since(v4, t) : q \in Counts(v4)
      BY <1>7 DEF Since
    <2>2. ASSUME NEW q \in Since(v4, t) PROVE /\ k[q] = g[q] + 1 /\ g[q] \in 1..Len(h)
                                             /\ v2'[k[q]] = v4'[q].time
      <3>1. k[q] = g[q] + 1 /\ g[q] \in 1..Len(h) /\ h[g[q]] = v4[q].time
        BY <1>9, <2>1
      <3>2. v4'[q] = v4[q]
        BY <1>7, <2>1
      <3> QED
        BY <1>8, <3>1, <3>2
    <2>3. k[r] = 1 /\ v2'[k[r]] = v4'[r].time
      BY <1>4, <1>6, <1>8
    <2>4. ASSUME NEW q \in Since(v4, t) \cup {r} PROVE k[q] \in 1..(Len(h) + 1)
      BY <1>3, <2>2, <2>3
    <2>5. k \in [Since(v4, t) \cup {r} -> 1..(Len(h) + 1)]
      BY <2>4
    <2>6. ASSUME NEW p \in Since(v4, t) \cup {r}, NEW q \in Since(v4, t) \cup {r}, k[p] = k[q]
          PROVE  p = q
      <3>1. CASE p = r \/ q = r
        BY <1>3, <2>2, <2>3, <2>6, <3>1
      <3>2. CASE p # r /\ q # r
        <4>1. p \in Since(v4, t) /\ q \in Since(v4, t)
          BY <3>2
        <4>2. g[p] = g[q]
          BY <1>3, <2>2, <2>6, <4>1
        <4> QED
          BY <1>9, <4>1, <4>2
      <3> QED
        BY <3>1, <3>2
    <2> QED
      BY <2>2, <2>3, <2>5, <2>6
  <1> HIDE DEF k
  <1>11. Placed(v2', v1, v4')
    <2>1. Since(v4', v1) \subseteq Since(v4, t) \cup {r}
      <3> SUFFICES ASSUME NEW q \in Since(v4', v1), q # r PROVE q \in Since(v4, t)
        OBVIOUS
      <3>1. q \in Counts(v4) /\ v4[q].time + Given.serial.duration > v1 /\ v4[q].time \in Nat
        BY <1>7 DEF Since
      <3> QED
        BY <1>1, <1>3, <3>1 DEF Since
    <2> DEFINE l == [q \in Since(v4', v1) |-> k[q]]
    <2>2. /\ l \in [Since(v4', v1) -> 1..Len(v2')]
          /\ \A p, q \in Since(v4', v1) : l[p] = l[q] => p = q
          /\ \A q \in Since(v4', v1) : v2'[l[q]] = v4'[q].time
      BY <1>8, <1>10, <2>1
    <2> HIDE DEF l
    <2> QED
      BY <2>2, Zenon DEF Placed
  <1>12. ASSUME NEW u \in Nat PROVE Cardinality(Span(v4', u)) <= Given.serial.limit
    <2>1. CASE t \in u..(u + Given.serial.duration - 1)
      <3>1. Span(v4', u) \subseteq Since(v4, t) \cup {r}
        <4> SUFFICES ASSUME NEW q \in Span(v4', u), q # r PROVE q \in Since(v4, t)
          OBVIOUS
        <4>1. q \in Counts(v4) /\ v4[q].time >= u /\ v4[q].time \in Nat
          BY <1>7 DEF Span
        <4> QED
          BY <1>1, <1>3, <2>1, <4>1 DEF Since
      <3> DEFINE l == [q \in Span(v4', u) |-> k[q]]
      <3>2. /\ l \in [Span(v4', u) -> 1..(Len(h) + 1)]
            /\ \A p, q \in Span(v4', u) : l[p] = l[q] => p = q
        BY <1>10, <3>1
      <3> HIDE DEF l
      <3>3. IsFiniteSet(Span(v4', u)) /\ Cardinality(Span(v4', u)) <= Len(h) + 1
        BY <1>3, <3>2, MembersCount
      <3>4. Cardinality(Span(v4', u)) \in Nat
        BY <3>3, FS_CardinalityType
      <3> QED
        BY <1>1, <1>3, <3>3, <3>4
    <2>2. CASE t \notin u..(u + Given.serial.duration - 1)
      <3>1. Span(v4', u) = Span(v4, u)
        BY <1>4, <1>6, <1>7, <2>2 DEF Span
      <3> QED
        BY <3>1 DEF SerialInv, SpanInv
    <2> QED
      BY <2>1, <2>2
  <1>13. \A q \in Given.serial.requests : v4'[q].at # "write"
    BY <1>4, <1>5, <1>6 DEF SerialInv, OneWrites
  <1>14. OneWrites' /\ ReadInv'
    BY <1>13 DEF OneWrites, ReadInv
  <1>15. SpanInv'
    BY <1>12 DEF SpanInv
  <1>16. SerialTypes'
    BY <1>1, <1>5, <1>6, <1>8 DEF SerialTypes
  <1>17. ASSUME NEW q \in Counts(v4')
         PROVE  v4'[q].time <= v1' /\ v4'[q].time + Given.serial.duration <= v3'
    <2>1. v4'[q].time \in Nat /\ v4'[q].time <= v1
      <3>1. CASE q = r
        BY <1>3, <1>4, <1>6, <3>1
      <3>2. CASE q # r
        BY <1>7, <3>2 DEF SerialInv
      <3> QED
        BY <3>1, <3>2
    <2> QED
      BY <1>1, <1>5, <2>1
  <1> QED
    BY <1>5, <1>11, <1>14, <1>15, <1>16, <1>17 DEF SerialInv

LEMMA SerialPass == ASSUME Serial!RateAssumption, SerialInv, Serial!Pass PROVE SerialInv'
  <1>1. /\ Given.serial.time \in Nat /\ Given.serial.duration \in Nat /\ SerialTypes
        /\ v1 \in 0..Given.serial.time /\ v4 \in [Given.serial.requests -> SerialRow]
    BY DEF Serial!RateAssumption, SerialInv, SerialTypes
  <1>2. v1' = v1 + 1 /\ v1 < Given.serial.time /\ UNCHANGED <<v2, v3, v4, v5>>
    BY DEF Serial!Pass
  <1>3. SerialTypes'
    BY <1>1, <1>2 DEF SerialTypes
  <1>4. \A q \in Given.serial.requests : v4[q].time \in Nat
    BY <1>1 DEF SerialRow
  <1>5. \A q \in Counts(v4) : v4[q].time \in Nat
    BY <1>4 DEF Counts
  <1>6. Placed(v2, v1 + 1, v4)
    BY <1>1, <1>5, PlacedLater DEF SerialInv
  <1>7. ReadInv'
    BY <1>1, <1>2, <1>4 DEF SerialInv, ReadInv
  <1>8. OneWrites' /\ SpanInv'
    BY <1>2 DEF SerialInv, OneWrites, SpanInv
  <1>9. \A q \in Counts(v4') : v4'[q].time <= v1' /\ v4'[q].time + Given.serial.duration <= v3'
    BY <1>1, <1>2, <1>5 DEF SerialInv
  <1> QED
    BY <1>2, <1>3, <1>6, <1>7, <1>8, <1>9 DEF SerialInv

LEMMA SerialStep == ASSUME Serial!RateAssumption, SerialInv, Serial!Next PROVE SerialInv'
  <1>1. \A r \in Given.serial.requests : ~Serial!FailRead(r) /\ ~Serial!FailWrite(r)
    BY DEF SerialInv, SerialTypes, Serial!FailRead, Serial!FailWrite
  <1> QED
    BY <1>1, SerialRead, SerialWrite, SerialPass DEF Serial!Next

LEMMA SerialStays == ASSUME SerialInv, UNCHANGED vars PROVE SerialInv'
  BY DEF vars, SerialInv, SerialTypes, OneWrites, ReadInv, SpanInv

(* RateKept in a state of the invariant. *)
LEMMA SerialHolds == ASSUME Serial!RateAssumption, SerialInv PROVE Serial!RateKept
  <1> SUFFICES ASSUME NEW t \in 0..Given.serial.time
               PROVE  Serial!Cardinality({r \in Serial!Admitted :
                        v4[r].time \in t..(t + Given.serial.duration - 1)}) <= Given.serial.limit
    BY DEF Serial!RateKept
  <1>1. t \in Nat
    BY DEF Serial!RateAssumption
  <1>2. {r \in Serial!Admitted : v4[r].time \in t..(t + Given.serial.duration - 1)} = Span(v4, t)
    BY DEF Serial!Admitted, Span, Counts
  <1>3. Cardinality(Span(v4, t)) <= Given.serial.limit
    BY <1>1 DEF SerialInv, SpanInv
  <1>4. Serial!Cardinality(Span(v4, t)) = Cardinality(Span(v4, t))
    BY DEF Serial!Cardinality, Cardinality
  <1> QED
    BY <1>2, <1>3, <1>4

(* The list of times stays within the limit.                               *)
SerialTyped == SerialInv /\ Len(v2) <= Given.serial.limit

LEMMA SerialType == ASSUME Serial!RateAssumption, SerialTyped PROVE Serial!TypeOK
  BY DEF SerialTyped, SerialInv, SerialTypes, SerialRow, Serial!TypeOK

LEMMA SerialTypedInit == ASSUME Serial!RateAssumption, Serial!Init PROVE SerialTyped
  BY SerialInit DEF SerialTyped, Serial!Init, Serial!RateAssumption

LEMMA SerialTypedStep ==
    ASSUME Serial!RateAssumption, SerialTyped, Serial!Next PROVE SerialTyped'
  <1>1. SerialInv'
    BY SerialStep DEF SerialTyped
  <1>2. ASSUME NEW r \in Given.serial.requests, Serial!Write(r)
        PROVE  Len(v2') <= Given.serial.limit
    <2> DEFINE h == v4[r].history
               t == v4[r].time
               Times == 0..Given.serial.time
    <2>1. h \in Seq(Times) /\ t \in Times /\ Len(h) < Given.serial.limit /\ v2' = <<t>> \o h
          /\ Given.serial.limit \in Nat
      BY <1>2 DEF SerialTyped, SerialInv, SerialTypes, SerialRow, ReadInv, Serial!Write,
         Serial!RateAssumption
    <2> HIDE DEF h, t, Times
    <2>2. Len(v2') = Len(h) + 1 /\ Len(h) \in Nat
      BY <2>1
    <2> QED
      BY <2>1, <2>2
  <1>3. v2' = v2 \/ \E r \in Given.serial.requests : Serial!Write(r)
    BY DEF Serial!Next, Serial!Read, Serial!FailRead, Serial!FailWrite, Serial!Pass
  <1> QED
    BY <1>1, <1>2, <1>3 DEF SerialTyped

LEMMA SerialTypedStays == ASSUME SerialTyped, UNCHANGED vars PROVE SerialTyped'
  BY SerialStays DEF vars, SerialTyped

-----------------------------------------------------------------------------
(* User administration *)

AdminP == INSTANCE UserAdminProofs WITH
    Users <- Given.admin.users, Requests <- Given.admin.requests,
    Orders <- Given.admin.orders, FirstSupers <- Given.admin.supers,
    MaxAborts <- Given.admin.aborts,
    users <- v1, locks <- v2, request <- v3, aborts <- v4, reset <- v5

(* The requests, and those the theorems of UserAdminProofs are about.      *)
LEMMA SameAdmin ==
    /\ Admin!Init <=> AdminP!Init
    /\ Admin!Next <=> AdminP!Next
    /\ Admin!UserAdminAssumption <=> AdminP!UserAdminAssumption
    /\ Admin!TypeOK <=> AdminP!TypeOK
    /\ Admin!LastSuperAdminStays <=> AdminP!LastSuperAdminStays
    /\ UNCHANGED Admin!vars <=> UNCHANGED AdminP!vars
  BY DEF
        Admin!Roles, Admin!Keep, Admin!Order, Admin!UserAdminAssumption,
        Admin!vars, Admin!User, Admin!Nobody, Admin!Unsent, Admin!Refused,
        Admin!Granted, Admin!IsSuper, Admin!Supers, Admin!Instance, Admin!LockedBy,
        Admin!Free, Admin!Move, Admin!Init, Admin!Receive, Admin!Select,
        Admin!Lock, Admin!Save, Admin!Seen, Admin!RollBack, Admin!Count,
        Admin!Commit, Admin!SavePassword, Admin!WaitsFor, Admin!Blocks,
        Admin!Deadlock, Admin!Abort, Admin!Work, Admin!Next, Admin!TypeOK,
        Admin!LastSuperAdminStays, AdminP!Roles, AdminP!Keep, AdminP!Order,
        AdminP!UserAdminAssumption, AdminP!vars, AdminP!User, AdminP!Nobody,
        AdminP!Unsent, AdminP!Refused, AdminP!Granted, AdminP!IsSuper,
        AdminP!Supers, AdminP!Instance, AdminP!LockedBy, AdminP!Free, AdminP!Move,
        AdminP!Init, AdminP!Receive, AdminP!Select, AdminP!Lock, AdminP!Save,
        AdminP!Seen, AdminP!RollBack, AdminP!Count, AdminP!Commit,
        AdminP!SavePassword, AdminP!WaitsFor, AdminP!Blocks, AdminP!Deadlock,
        AdminP!Abort, AdminP!Work, AdminP!Next, AdminP!TypeOK,
        AdminP!LastSuperAdminStays

LEMMA AdminInit ==
    ASSUME Admin!UserAdminAssumption, Admin!Init
    PROVE  AdminP!RowInv /\ AdminP!DemotionInv
  BY SameAdmin, AdminP!DemotionInit DEF AdminP!DemotionInv

LEMMA AdminStep ==
    ASSUME Admin!UserAdminAssumption, Admin!Next \/ UNCHANGED Admin!vars
    PROVE  /\ AdminP!RowInv => AdminP!RowInv'
           /\ AdminP!OnlyDemotions /\ AdminP!DemotionInv => AdminP!DemotionInv'
  <1>1. AdminP!UserAdminAssumption /\ [AdminP!Next]_AdminP!vars
    BY SameAdmin
  <1> QED
    BY <1>1, AdminP!RowsNext, AdminP!DemotionNext

LEMMA AdminHolds ==
    /\ AdminP!RowInv => Admin!TypeOK
    /\ AdminP!DemotionInv => Admin!LastSuperAdminStays
  BY SameAdmin DEF AdminP!DemotionInv, AdminP!RowInv

-----------------------------------------------------------------------------
(* The parts together *)

(* What holds of the part that is mounted. *)
Inv ==
    /\ part = "auth" => AuthInv
    /\ part = "wizard" => WizardInv
    /\ part = "applicant" => ApplicantP!IInv
    /\ part = "reviewer" => ReviewInv
    /\ part = "editor" => EditorInv
    /\ part = "shell" => ShellInv
    /\ part = "birth" => BirthInv
    /\ part = "figures" => FiguresInv
    /\ part = "failure" => FailureInv
    /\ part = "list" => ListInv
    /\ part = "dialog" => DialogInv
    /\ part = "drawer" => DrawerInv
    /\ part = "menu" => MenuInv
    /\ part = "search" => SearchInv
    /\ part = "toasts" => ToastsInv
    /\ part = "announcer" => AnnouncerInv
    /\ part = "polling" => PollingInv
    /\ part = "admin" => AdminP!RowInv
    /\ part = "window" => CounterInv
    /\ part = "rate" => RateInv
    /\ part = "serial" => SerialInv

(* The step of the system is one of the part that is mounted. *)
LEMMA OwnStep ==
    ASSUME Next
    PROVE  /\ part' = part
           /\ part = "auth" => Auth!Next
           /\ part = "wizard" => Wizard!NextState
           /\ part = "applicant" => Applicant!Next
           /\ part = "reviewer" => Reviewer!Next
           /\ part = "editor" => Editor!Next
           /\ part = "shell" => Shell!Next
           /\ part = "birth" => Birth!Next
           /\ part = "input" => Input!Next
           /\ part = "figures" => Figures!Next
           /\ part = "failure" => Failure!Next
           /\ part = "list" => List!ListStep
           /\ part = "dialog" => Dialog!Next
           /\ part = "drawer" => Drawer!Next
           /\ part = "menu" => Menu!Next
           /\ part = "search" => Search!Next
           /\ part = "toasts" => Toasts!Next
           /\ part = "scroll" => Scroll!Next
           /\ part = "announcer" => Announcer!Next
           /\ part = "polling" => Polling!Next
           /\ part = "admin" => Admin!Next
           /\ part = "window" => Counter!Next
           /\ part = "rate" => Rate!Next
           /\ part = "serial" => Serial!Next
  BY DEF Next, Alone

LEMMA InvInit == Init => Inv
  <1> SUFFICES ASSUME Init PROVE Inv
    OBVIOUS
  <1>1. ASSUME part = "auth" PROVE AuthInv
    <2>1. Auth!Init
      BY <1>1 DEF Init, Mounted
    <2> QED
      BY <2>1, PartsAssumption, AuthInit DEF AuthAssumption
  <1>2. ASSUME part = "wizard" PROVE WizardInv
    <2>1. Wizard!Init
      BY <1>2 DEF Init, Mounted
    <2> QED
      BY <2>1, PartsAssumption, WizardInit
  <1>3. ASSUME part = "applicant" PROVE ApplicantP!IInv
    <2>1. Applicant!Init
      BY <1>3 DEF Init, Mounted
    <2> QED
      BY <2>1, PartsAssumption, PageInit
  <1>4. ASSUME part = "reviewer" PROVE ReviewInv
    <2>1. Reviewer!Init
      BY <1>4 DEF Init, Mounted
    <2> QED
      BY <2>1, PartsAssumption, ReviewInit DEF ReviewAssumption
  <1>5. ASSUME part = "editor" PROVE EditorInv
    <2>1. Editor!Init
      BY <1>5 DEF Init, Mounted
    <2> QED
      BY <2>1, PartsAssumption, EditorInit
  <1>6. ASSUME part = "shell" PROVE ShellInv
    <2>1. Shell!Init
      BY <1>6 DEF Init, Mounted
    <2> QED
      BY <2>1, PartsAssumption, ShellInit
  <1>7. ASSUME part = "birth" PROVE BirthInv
    <2>1. Birth!Init
      BY <1>7 DEF Init, Mounted
    <2> QED
      BY <2>1, PartsAssumption, BirthInit
  <1>8. ASSUME part = "figures" PROVE FiguresInv
    <2>1. Figures!Init
      BY <1>8 DEF Init, Mounted
    <2> QED
      BY <2>1, PartsAssumption, FiguresInit
  <1>9. ASSUME part = "failure" PROVE FailureInv
    <2>1. Failure!Init
      BY <1>9 DEF Init, Mounted
    <2> QED
      BY <2>1, PartsAssumption, FailureInit
  <1>10. ASSUME part = "list" PROVE ListInv
    <2>1. List!Init
      BY <1>10 DEF Init, Mounted
    <2> QED
      BY <2>1, PartsAssumption, ListInit
  <1>11. ASSUME part = "dialog" PROVE DialogInv
    <2>1. Dialog!Init
      BY <1>11 DEF Init, Mounted
    <2> QED
      BY <2>1, PartsAssumption, DialogInit DEF DialogAssumption
  <1>12. ASSUME part = "drawer" PROVE DrawerInv
    <2>1. Drawer!Init
      BY <1>12 DEF Init, Mounted
    <2> QED
      BY <2>1, PartsAssumption, DrawerInit
  <1>13. ASSUME part = "menu" PROVE MenuInv
    <2>1. Menu!Init
      BY <1>13 DEF Init, Mounted
    <2> QED
      BY <2>1, PartsAssumption, MenuInit
  <1>14. ASSUME part = "search" PROVE SearchInv
    <2>1. Search!Init
      BY <1>14 DEF Init, Mounted
    <2> QED
      BY <2>1, PartsAssumption, SearchInit
  <1>15. ASSUME part = "toasts" PROVE ToastsInv
    <2>1. Toasts!Init
      BY <1>15 DEF Init, Mounted
    <2> QED
      BY <2>1, PartsAssumption, ToastsInit
  <1>16. ASSUME part = "announcer" PROVE AnnouncerInv
    <2>1. Announcer!Init
      BY <1>16 DEF Init, Mounted
    <2> QED
      BY <2>1, PartsAssumption, AnnouncerInit
  <1>17. ASSUME part = "polling" PROVE PollingInv
    <2>1. Polling!Init
      BY <1>17 DEF Init, Mounted
    <2> QED
      BY <2>1, PartsAssumption, PollingInit DEF PollingAssumption
  <1>18. ASSUME part = "admin" PROVE AdminP!RowInv
    <2>1. Admin!Init
      BY <1>18 DEF Init, Mounted
    <2> QED
      BY <2>1, PartsAssumption, AdminInit
  <1>19. ASSUME part = "window" PROVE CounterInv
    <2>1. Counter!Init
      BY <1>19 DEF Init, Mounted
    <2> QED
      BY <2>1, PartsAssumption, WindowInit
  <1>20. ASSUME part = "rate" PROVE RateInv
    <2>1. Rate!Init
      BY <1>20 DEF Init, Mounted
    <2> QED
      BY <2>1, PartsAssumption, RateInit
  <1>21. ASSUME part = "serial" PROVE SerialInv
    <2>1. Serial!Init
      BY <1>21 DEF Init, Mounted
    <2> QED
      BY <2>1, PartsAssumption, SerialInit
  <1> QED
    BY <1>1, <1>2, <1>3, <1>4, <1>5, <1>6, <1>7, <1>8, <1>9, <1>10, <1>11, <1>12, <1>13, <1>14, <1>15, <1>16, <1>17, <1>18, <1>19, <1>20, <1>21 DEF Inv

LEMMA InvNext == Inv /\ [Next]_vars => Inv'
  <1> SUFFICES ASSUME Inv, [Next]_vars PROVE Inv'
    OBVIOUS
  <1>0. part' = part
    BY OwnStep DEF vars
  <1>1. ASSUME part = "auth" PROVE AuthInv'
    <2>1. AuthInv
      BY <1>1 DEF Inv
    <2>2. CASE Next
      BY <1>1, <2>1, <2>2, OwnStep, PartsAssumption, AuthStep DEF AuthAssumption
    <2>3. CASE UNCHANGED vars
      BY <2>1, <2>3, AuthStays
    <2> QED
      BY <2>2, <2>3
  <1>2. ASSUME part = "wizard" PROVE WizardInv'
    <2>1. WizardInv
      BY <1>2 DEF Inv
    <2>2. CASE Next
      BY <1>2, <2>1, <2>2, OwnStep, PartsAssumption, WizardStep
    <2>3. CASE UNCHANGED vars
      BY <2>1, <2>3, WizardStays
    <2> QED
      BY <2>2, <2>3
  <1>3. ASSUME part = "applicant" PROVE ApplicantP!IInv'
    <2>1. Applicant!Next \/ UNCHANGED Applicant!vars
      BY <1>3, OwnStep DEF vars, Applicant!vars, Applicant!auditState, Applicant!form, Applicant!bounds
    <2> QED
      BY <1>3, <2>1, PartsAssumption, PageStep DEF Inv
  <1>4. ASSUME part = "reviewer" PROVE ReviewInv'
    <2>1. ReviewInv
      BY <1>4 DEF Inv
    <2>2. CASE Next
      BY <1>4, <2>1, <2>2, OwnStep, PartsAssumption, ReviewStep DEF ReviewAssumption
    <2>3. CASE UNCHANGED vars
      BY <2>1, <2>3, ReviewStays
    <2> QED
      BY <2>2, <2>3
  <1>5. ASSUME part = "editor" PROVE EditorInv'
    <2>1. EditorInv
      BY <1>5 DEF Inv
    <2>2. CASE Next
      BY <1>5, <2>1, <2>2, OwnStep, PartsAssumption, EditorStep
    <2>3. CASE UNCHANGED vars
      BY <2>1, <2>3, EditorStays
    <2> QED
      BY <2>2, <2>3
  <1>6. ASSUME part = "shell" PROVE ShellInv'
    <2>1. ShellInv
      BY <1>6 DEF Inv
    <2>2. CASE Next
      BY <1>6, <2>1, <2>2, OwnStep, PartsAssumption, ShellStep
    <2>3. CASE UNCHANGED vars
      BY <2>1, <2>3, ShellStays
    <2> QED
      BY <2>2, <2>3
  <1>7. ASSUME part = "birth" PROVE BirthInv'
    <2>1. BirthInv
      BY <1>7 DEF Inv
    <2>2. CASE Next
      BY <1>7, <2>1, <2>2, OwnStep, PartsAssumption, BirthStep
    <2>3. CASE UNCHANGED vars
      BY <2>1, <2>3, BirthStays
    <2> QED
      BY <2>2, <2>3
  <1>8. ASSUME part = "figures" PROVE FiguresInv'
    <2>1. FiguresInv
      BY <1>8 DEF Inv
    <2>2. CASE Next
      BY <1>8, <2>1, <2>2, OwnStep, PartsAssumption, FiguresStep
    <2>3. CASE UNCHANGED vars
      BY <2>1, <2>3, FiguresStays
    <2> QED
      BY <2>2, <2>3
  <1>9. ASSUME part = "failure" PROVE FailureInv'
    <2>1. FailureInv
      BY <1>9 DEF Inv
    <2>2. CASE Next
      BY <1>9, <2>1, <2>2, OwnStep, PartsAssumption, FailureStep
    <2>3. CASE UNCHANGED vars
      BY <2>1, <2>3, FailureStays
    <2> QED
      BY <2>2, <2>3
  <1>10. ASSUME part = "list" PROVE ListInv'
    <2>1. ListInv
      BY <1>10 DEF Inv
    <2>2. CASE Next
      BY <1>10, <2>1, <2>2, OwnStep, PartsAssumption, ListStepKeeps
    <2>3. CASE UNCHANGED vars
      BY <2>1, <2>3, ListStays
    <2> QED
      BY <2>2, <2>3
  <1>11. ASSUME part = "dialog" PROVE DialogInv'
    <2>1. DialogInv
      BY <1>11 DEF Inv
    <2>2. CASE Next
      BY <1>11, <2>1, <2>2, OwnStep, PartsAssumption, DialogStep DEF DialogAssumption
    <2>3. CASE UNCHANGED vars
      BY <2>1, <2>3, DialogStays
    <2> QED
      BY <2>2, <2>3
  <1>12. ASSUME part = "drawer" PROVE DrawerInv'
    <2>1. DrawerInv
      BY <1>12 DEF Inv
    <2>2. CASE Next
      BY <1>12, <2>1, <2>2, OwnStep, PartsAssumption, DrawerStep
    <2>3. CASE UNCHANGED vars
      BY <2>1, <2>3, DrawerStays
    <2> QED
      BY <2>2, <2>3
  <1>13. ASSUME part = "menu" PROVE MenuInv'
    <2>1. MenuInv
      BY <1>13 DEF Inv
    <2>2. CASE Next
      BY <1>13, <2>1, <2>2, OwnStep, PartsAssumption, MenuStep
    <2>3. CASE UNCHANGED vars
      BY <2>1, <2>3, MenuStays
    <2> QED
      BY <2>2, <2>3
  <1>14. ASSUME part = "search" PROVE SearchInv'
    <2>1. SearchInv
      BY <1>14 DEF Inv
    <2>2. CASE Next
      BY <1>14, <2>1, <2>2, OwnStep, PartsAssumption, SearchStep
    <2>3. CASE UNCHANGED vars
      BY <2>1, <2>3, SearchStays
    <2> QED
      BY <2>2, <2>3
  <1>15. ASSUME part = "toasts" PROVE ToastsInv'
    <2>1. ToastsInv
      BY <1>15 DEF Inv
    <2>2. CASE Next
      BY <1>15, <2>1, <2>2, OwnStep, PartsAssumption, ToastsStep
    <2>3. CASE UNCHANGED vars
      BY <2>1, <2>3, ToastsStays
    <2> QED
      BY <2>2, <2>3
  <1>16. ASSUME part = "announcer" PROVE AnnouncerInv'
    <2>1. AnnouncerInv
      BY <1>16 DEF Inv
    <2>2. CASE Next
      BY <1>16, <2>1, <2>2, OwnStep, PartsAssumption, AnnouncerStep
    <2>3. CASE UNCHANGED vars
      BY <2>1, <2>3, AnnouncerStays
    <2> QED
      BY <2>2, <2>3
  <1>17. ASSUME part = "polling" PROVE PollingInv'
    <2>1. PollingInv
      BY <1>17 DEF Inv
    <2>2. CASE Next
      BY <1>17, <2>1, <2>2, OwnStep, PartsAssumption, PollingStep DEF PollingAssumption
    <2>3. CASE UNCHANGED vars
      BY <2>1, <2>3, PollingStays
    <2> QED
      BY <2>2, <2>3
  <1>18. ASSUME part = "admin" PROVE AdminP!RowInv'
    <2>1. Admin!Next \/ UNCHANGED Admin!vars
      BY <1>18, OwnStep DEF vars, Admin!vars
    <2> QED
      BY <1>18, <2>1, PartsAssumption, AdminStep DEF Inv
  <1>19. ASSUME part = "window" PROVE CounterInv'
    <2>1. Counter!Next \/ UNCHANGED Counter!vars
      BY <1>19, OwnStep DEF vars, Counter!vars
    <2> QED
      BY <1>19, <2>1, PartsAssumption, WindowNext DEF Inv
  <1>20. ASSUME part = "rate" PROVE RateInv'
    <2>1. RateInv
      BY <1>20 DEF Inv
    <2>2. CASE Next
      BY <1>20, <2>1, <2>2, OwnStep, PartsAssumption, RateStep
    <2>3. CASE UNCHANGED vars
      BY <2>1, <2>3, RateStays
    <2> QED
      BY <2>2, <2>3
  <1>21. ASSUME part = "serial" PROVE SerialInv'
    <2>1. SerialInv
      BY <1>21 DEF Inv
    <2>2. CASE Next
      BY <1>21, <2>1, <2>2, OwnStep, PartsAssumption, SerialStep
    <2>3. CASE UNCHANGED vars
      BY <2>1, <2>3, SerialStays
    <2> QED
      BY <2>2, <2>3
  <1> QED
    BY <1>0, <1>1, <1>2, <1>3, <1>4, <1>5, <1>6, <1>7, <1>8, <1>9, <1>10, <1>11, <1>12, <1>13, <1>14, <1>15, <1>16, <1>17, <1>18, <1>19, <1>20, <1>21 DEF Inv

LEMMA InvHolds == Spec => []Inv
  BY InvInit, InvNext, PTL DEF Spec

(* The types of the parts whose invariant leaves them out.                 *)
Typed ==
    /\ part \in PartNames
    /\ part = "auth" => AuthTyped
    /\ part = "wizard" => WizardTyped
    /\ part = "editor" => EditorTyped
    /\ part = "menu" => MenuTyped
    /\ part = "toasts" => ToastsTyped
    /\ part = "scroll" => Scroll!TypeOK
    /\ part = "announcer" => AnnouncerTyped
    /\ part = "serial" => SerialTyped

LEMMA TypedInit == Init => Typed
  <1> SUFFICES ASSUME Init PROVE Typed
    OBVIOUS
  <1>1. ASSUME part = "auth" PROVE AuthTyped
    <2>1. Auth!Init
      BY <1>1 DEF Init, Mounted
    <2> QED
      BY <2>1, PartsAssumption, AuthTypedInit DEF AuthAssumption
  <1>2. ASSUME part = "wizard" PROVE WizardTyped
    <2>1. Wizard!Init
      BY <1>2 DEF Init, Mounted
    <2> QED
      BY <2>1, PartsAssumption, WizardTypedInit
  <1>3. ASSUME part = "editor" PROVE EditorTyped
    <2>1. Editor!Init
      BY <1>3 DEF Init, Mounted
    <2> QED
      BY <2>1, PartsAssumption, EditorTypedInit DEF EditorTyped
  <1>4. ASSUME part = "menu" PROVE MenuTyped
    <2>1. Menu!Init
      BY <1>4 DEF Init, Mounted
    <2> QED
      BY <2>1, PartsAssumption, MenuTypedInit
  <1>5. ASSUME part = "toasts" PROVE ToastsTyped
    <2>1. Toasts!Init
      BY <1>5 DEF Init, Mounted
    <2> QED
      BY <2>1, PartsAssumption, ToastsTypedInit
  <1>6. ASSUME part = "scroll" PROVE Scroll!TypeOK
    <2>1. Scroll!Init
      BY <1>6 DEF Init, Mounted
    <2> QED
      BY <2>1, PartsAssumption, ScrollTypedInit
  <1>7. ASSUME part = "announcer" PROVE AnnouncerTyped
    <2>1. Announcer!Init
      BY <1>7 DEF Init, Mounted
    <2> QED
      BY <2>1, PartsAssumption, AnnouncerTypedInit
  <1>8. ASSUME part = "serial" PROVE SerialTyped
    <2>1. Serial!Init
      BY <1>8 DEF Init, Mounted
    <2> QED
      BY <2>1, PartsAssumption, SerialTypedInit
  <1> QED
    BY <1>1, <1>2, <1>3, <1>4, <1>5, <1>6, <1>7, <1>8 DEF Init, Typed

LEMMA TypedNext == Typed /\ [Next]_vars => Typed'
  <1> SUFFICES ASSUME Typed, [Next]_vars PROVE Typed'
    OBVIOUS
  <1>0. part' = part
    BY OwnStep DEF vars
  <1>1. ASSUME part = "auth" PROVE AuthTyped'
    <2>1. AuthTyped
      BY <1>1 DEF Typed
    <2>2. CASE Next
      BY <1>1, <2>1, <2>2, OwnStep, PartsAssumption, AuthTypedStep DEF AuthAssumption
    <2>3. CASE UNCHANGED vars
      BY <2>1, <2>3, AuthTypedStays
    <2> QED
      BY <2>2, <2>3
  <1>2. ASSUME part = "wizard" PROVE WizardTyped'
    <2>1. WizardTyped
      BY <1>2 DEF Typed
    <2>2. CASE Next
      BY <1>2, <2>1, <2>2, OwnStep, PartsAssumption, WizardTypedStep
    <2>3. CASE UNCHANGED vars
      BY <2>1, <2>3, WizardTypedStays
    <2> QED
      BY <2>2, <2>3
  <1>3. ASSUME part = "editor" PROVE EditorTyped'
    <2>1. EditorTyped
      BY <1>3 DEF Typed
    <2>2. CASE Next
      BY <1>3, <2>1, <2>2, OwnStep, PartsAssumption, EditorTypedStep DEF EditorTyped
    <2>3. CASE UNCHANGED vars
      BY <2>1, <2>3, EditorTypedStays DEF EditorTyped
    <2> QED
      BY <2>2, <2>3
  <1>4. ASSUME part = "menu" PROVE MenuTyped'
    <2>1. MenuTyped
      BY <1>4 DEF Typed
    <2>2. CASE Next
      BY <1>4, <2>1, <2>2, OwnStep, PartsAssumption, MenuTypedStep
    <2>3. CASE UNCHANGED vars
      BY <2>1, <2>3, MenuTypedStays
    <2> QED
      BY <2>2, <2>3
  <1>5. ASSUME part = "toasts" PROVE ToastsTyped'
    <2>1. ToastsTyped
      BY <1>5 DEF Typed
    <2>2. CASE Next
      BY <1>5, <2>1, <2>2, OwnStep, PartsAssumption, ToastsTypedStep
    <2>3. CASE UNCHANGED vars
      BY <2>1, <2>3, ToastsTypedStays
    <2> QED
      BY <2>2, <2>3
  <1>6. ASSUME part = "scroll" PROVE Scroll!TypeOK'
    <2>1. Scroll!TypeOK
      BY <1>6 DEF Typed
    <2>2. CASE Next
      BY <1>6, <2>1, <2>2, OwnStep, PartsAssumption, ScrollTypedStep
    <2>3. CASE UNCHANGED vars
      BY <2>1, <2>3, ScrollTypedStays
    <2> QED
      BY <2>2, <2>3
  <1>7. ASSUME part = "announcer" PROVE AnnouncerTyped'
    <2>1. AnnouncerTyped
      BY <1>7 DEF Typed
    <2>2. CASE Next
      BY <1>7, <2>1, <2>2, OwnStep, PartsAssumption, AnnouncerTypedStep
    <2>3. CASE UNCHANGED vars
      BY <2>1, <2>3, AnnouncerTypedStays
    <2> QED
      BY <2>2, <2>3
  <1>8. ASSUME part = "serial" PROVE SerialTyped'
    <2>1. SerialTyped
      BY <1>8 DEF Typed
    <2>2. CASE Next
      BY <1>8, <2>1, <2>2, OwnStep, PartsAssumption, SerialTypedStep
    <2>3. CASE UNCHANGED vars
      BY <2>1, <2>3, SerialTypedStays
    <2> QED
      BY <2>2, <2>3
  <1> QED
    BY <1>0, <1>1, <1>2, <1>3, <1>4, <1>5, <1>6, <1>7, <1>8 DEF Typed

(* Every part has its types, whatever the values and the bounds: the call  *)
(* counters and the lists that the properties read stay what they are      *)
(* taken for.                                                              *)
THEOREM TypesCorrect == Spec => []TypeOK
  <1>1. Inv /\ Typed => TypeOK
    <2> SUFFICES ASSUME Inv, Typed PROVE TypeOK
      OBVIOUS
    <2>1. /\ part = "auth" => Auth!TypeOK
          /\ part = "wizard" => Wizard!TypeOK
          /\ part = "editor" => Editor!TypeOK
          /\ part = "menu" => Menu!TypeOK
          /\ part = "toasts" => Toasts!TypeOK
          /\ part = "scroll" => Scroll!TypeOK
          /\ part = "announcer" => Announcer!TypeOK
          /\ part = "serial" => Serial!TypeOK
      BY PartsAssumption, AuthType, ToastsType, AnnouncerType, SerialType
         DEF Typed, AuthAssumption, WizardTyped, EditorTyped, MenuTyped
    <2>2. part = "applicant" => Applicant!TypeOK
      BY PageShown DEF Inv
    <2>3. /\ part = "reviewer" => Reviewer!TypeOK
          /\ part = "shell" => Shell!TypeOK
          /\ part = "birth" => Birth!TypeOK
          /\ part = "figures" => Figures!TypeOK
          /\ part = "failure" => Failure!TypeOK
          /\ part = "list" => List!TypeOK
      BY DEF Inv, ReviewInv, ShellInv, BirthInv, FiguresInv, FailureInv, ListInv
    <2>4. part = "dialog" => Dialog!TypeOK
      BY DEF Inv, DialogInv, Dialog!TypeOK
    <2>5. /\ part = "drawer" => Drawer!TypeOK
          /\ part = "search" => Search!TypeOK
          /\ part = "polling" => Polling!TypeOK
      BY DEF Inv, DrawerInv, SearchInv, PollingInv
    <2>6. part = "admin" => Admin!TypeOK
      BY AdminHolds DEF Inv
    <2>7. part = "window" => Counter!TypeOK
      BY WindowHolds DEF Inv
    <2>8. part = "rate" => Rate!TypeOK
      BY DEF Inv, RateInv, RateTypes, RateRow, Rate!TypeOK
    <2> QED
      BY <2>1, <2>2, <2>3, <2>4, <2>5, <2>6, <2>7, <2>8 DEF Typed, TypeOK
  <1>2. Spec => []Typed
    BY TypedInit, TypedNext, PTL DEF Spec
  <1> QED
    BY <1>1, <1>2, InvHolds, PTL

(* In whatever order answers come, timers go off and addresses change, the *)
(* screen shows what was asked for last, of any number of applications,    *)
(* loads, pages, polls, notices and announcements.                         *)
THEOREM AskedIsShown == Spec => []ShownIsAsked
  <1>1. Inv => ShownIsAsked
    <2> SUFFICES ASSUME Inv PROVE ShownIsAsked
      OBVIOUS
    <2>1. part = "applicant" => /\ Applicant!ShownIsOfAddress
                               /\ Applicant!AcknowledgedIsShown
                               /\ Applicant!TrailIsNewestAsked
      BY PageShown DEF Inv
    <2>2. part = "reviewer" => Reviewer!ShownIsOfAddress /\ Reviewer!TrailIsOfAddress
      BY DEF Inv, ReviewInv
    <2>3. part = "shell" => /\ Shell!PagesAreServed /\ Shell!LinksLead
                           /\ Shell!ScrollLockedUnderSidebar
      BY ShellShown DEF Inv
    <2>4. part = "birth" => Birth!ShownIsValue
      BY DEF Inv, BirthInv
    <2>5. part = "list" => List!ShownMatchesControls /\ List!LoadingIsNewestRequest
      BY DEF Inv, ListInv
    <2>6. part = "search" => Search!SettledShowsValue /\ Search!ClearedStaysClear
      BY DEF Inv, SearchInv
    <2>7. /\ part = "toasts" => Toasts!NoticeIsKept
          /\ part = "announcer" => Announcer!LastStands
          /\ part = "polling" => Polling!BusyIsLoad
      BY DEF Inv, ToastsInv, AnnouncerInv, PollingInv
    <2> QED
      BY <2>1, <2>2, <2>3, <2>4, <2>5, <2>6, <2>7 DEF ShownIsAsked
  <1> QED
    BY <1>1, InvHolds, PTL

(* The way of a field, of the texts, dates and files of everyday.          *)
LEMMA InputKept == ASSUME Input!EverydayInputs PROVE Spec => [](part = "input" => InputInv)
  <1> DEFINE Kept == part = "input" => InputInv
  <1>1. Init => Kept
    <2> SUFFICES ASSUME Init, part = "input" PROVE InputInv
      OBVIOUS
    <2>1. Input!Init
      BY DEF Init, Mounted
    <2> QED
      BY <2>1, InputInit
  <1>2. Kept /\ [Next]_vars => Kept'
    <2> SUFFICES ASSUME Kept, [Next]_vars, part' = "input" PROVE InputInv'
      OBVIOUS
    <2>1. part = "input" /\ InputInv
      BY OwnStep DEF vars
    <2>2. CASE Next
      BY <2>1, <2>2, OwnStep, InputStep
    <2>3. CASE UNCHANGED vars
      BY <2>1, <2>3, InputStays
    <2> QED
      BY <2>2, <2>3
  <1> QED
    BY <1>1, <1>2, PTL DEF Spec

(* What the screen says is true when it is read: notices, errors at        *)
(* fields, causes of failures, waits, figures and the strength of a        *)
(* password, of any number of calls, visits, addresses and applications.   *)
(* Only the fields by themselves take the hypothesis.                      *)
THEOREM WordsTrue == ASSUME Input!EverydayInputs PROVE Spec => []WordsAreTrue
  <1>1. Inv /\ (part = "input" => InputInv) => WordsAreTrue
    <2> SUFFICES ASSUME Inv, part = "input" => InputInv PROVE WordsAreTrue
      OBVIOUS
    <2>1. part = "auth" => Auth!NoticesAreTrue /\ Auth!ResendIsServed
      BY DEF Inv, AuthInv
    <2>2. part = "wizard" => Wizard!ShownErrorsAreTrue
      BY WizardHolds DEF Inv
    <2>3. part = "editor" => Editor!ErrorsAreTrue
      BY DEF Inv, EditorInv
    <2>4. part = "input" => Input!BlurSettlesNames /\ Input!StrongIsAccepted
      BY InputHolds
    <2>5. part = "figures" => Figures!PipelineCoversTotal /\ Figures!RateIsShare
      BY DEF Inv, FiguresInv
    <2>6. part = "failure" => Failure!MessageIsOfCause /\ Failure!WaitIsExact
      BY DEF Inv, FailureInv
    <2>7. part = "drawer" => Drawer!ErrorsAreTrue
      BY DrawerKept DEF Inv
    <2> QED
      BY <2>1, <2>2, <2>3, <2>4, <2>5, <2>6, <2>7 DEF WordsAreTrue
  <1> QED
    BY <1>1, InvHolds, InputKept, PTL

(* What is sent is complete, allowed and of the thing the user had in      *)
(* view: a registration, an application, a date, a text the user has       *)
(* typed, one user at a time; and the server accepts what the browser      *)
(* does, for everyday values of any length.                                *)
THEOREM SentValid == ASSUME Input!EverydayInputs PROVE Spec => []SentIsValid
  <1>1. Inv /\ (part = "input" => InputInv) => SentIsValid
    <2> SUFFICES ASSUME Inv, part = "input" => InputInv PROVE SentIsValid
      OBVIOUS
    <2>1. part = "wizard" => Wizard!RegisteredIsValid
      BY WizardHolds DEF Inv
    <2>2. part = "editor" => Editor!UpdateIsOfLoaded
      BY DEF Inv, EditorInv
    <2>3. part = "birth" => Birth!ValueIsADate
      BY PartsAssumption, BirthIsADate DEF Inv
    <2>4. part = "input" => Input!BackendNeverObjects /\ Input!RegisteredMaySignIn
      BY InputHolds
    <2>5. part = "dialog" => Dialog!YesIsTyped
      BY DEF Inv, DialogInv
    <2>6. part = "drawer" => Drawer!OneAtATime
      BY DrawerKept DEF Inv
    <2> QED
      BY <2>1, <2>2, <2>3, <2>4, <2>5, <2>6 DEF SentIsValid
  <1> QED
    BY <1>1, InvHolds, InputKept, PTL

(* A click, a key, a timer or an answer acts on what is current when it    *)
(* comes: the answer of a dialog, the key of a menu, the pause of a        *)
(* search, the newest callback of a list, the newest poll.                 *)
THEOREM StepsMeant == Spec => StepsAreMeant
  <1> DEFINE Meant ==
        /\ part = "wizard" => Wizard!RefusalIsShown
        /\ part = "dialog" => Dialog!AnswerIsForShown
        /\ part = "menu" => Menu!KeysLandOnMatch /\ Menu!PickedIsOffered
        /\ part = "search" => Search!HandedOverAfterPause
        /\ part = "scroll" => Scroll!CallIsNewest
        /\ part = "polling" => Polling!NewestIsShown /\ Polling!BackoffIsKept
  <1>1. Inv /\ [Next]_vars => [Meant]_vars
    <2> SUFFICES ASSUME Inv, Next PROVE Meant
      OBVIOUS
    <2>1. part = "wizard" => Wizard!RefusalIsShown
      BY OwnStep, WizardMeant DEF Inv
    <2>2. part = "dialog" => Dialog!AnswerIsForShown
      BY OwnStep, PartsAssumption, DialogMeant DEF Inv, DialogAssumption
    <2>3. part = "menu" => Menu!KeysLandOnMatch /\ Menu!PickedIsOffered
      BY OwnStep, PartsAssumption, MenuMeant DEF Inv
    <2>4. part = "search" => Search!HandedOverAfterPause
      BY PartsAssumption, SearchPauses DEF Inv
    <2>5. part = "scroll" => Scroll!CallIsNewest
      BY OwnStep, ScrollMeant
    <2>6. part = "polling" => Polling!NewestIsShown /\ Polling!BackoffIsKept
      BY OwnStep, PartsAssumption, PollingMeant DEF Inv, PollingAssumption
    <2> QED
      BY <2>1, <2>2, <2>3, <2>4, <2>5, <2>6
  <1> QED
    BY <1>1, InvHolds, PTL DEF Spec, StepsAreMeant

(* allow_request(): however the statements of any number of requests       *)
(* interleave, fail and meet a clean-up, nobody is let in beyond the limit *)
(* of a fixed window.                                                      *)
THEOREM WindowsAreLimited == Spec => []WindowLimit
  <1>1. Inv => WindowLimit
    BY WindowHolds DEF Inv, WindowLimit
  <1> QED
    BY <1>1, InvHolds, PTL

(* The other limits: while no statement fails, a request is denied only in *)
(* a window in which another has arrived; by the other throttles, only if  *)
(* as many as the limit were let in shortly before, whatever interleaves   *)
(* and fails; and with one request at a time and no failure no duration    *)
(* has more than the limit.                                                *)
THEOREM LimitsAreHeld == Spec => []LimitsHold
  <1>1. Inv => LimitsHold
    BY PartsAssumption, WindowHolds, RateHolds, SerialHolds DEF Inv, LimitsHold
  <1> QED
    BY <1>1, InvHolds, PTL

(* "The last active super admin is protected": as long as nobody is made   *)
(* one or switched on again, whatever requests there are and however they  *)
(* wait for each other, deadlock and die.  The hypothesis is what the code *)
(* lacks: see MCLastSuperAdmin.                                            *)
THEOREM SuperAdminStays ==
    ASSUME AdminP!OnlyDemotions PROVE Spec => []LastSuperAdminStays
  <1> DEFINE Demoting == part = "admin" => AdminP!DemotionInv
  <1>1. Init => Demoting
    <2> SUFFICES ASSUME Init, part = "admin" PROVE AdminP!DemotionInv
      OBVIOUS
    <2>1. Admin!Init
      BY DEF Init, Mounted
    <2> QED
      BY <2>1, PartsAssumption, AdminInit
  <1>2. Demoting /\ [Next]_vars => Demoting'
    <2> SUFFICES ASSUME Demoting, [Next]_vars, part' = "admin" PROVE AdminP!DemotionInv'
      OBVIOUS
    <2>1. part = "admin"
      BY OwnStep DEF vars
    <2>2. Admin!Next \/ UNCHANGED Admin!vars
      BY <2>1, OwnStep DEF vars, Admin!vars
    <2> QED
      BY <2>1, <2>2, PartsAssumption, AdminStep
  <1>3. Demoting => LastSuperAdminStays
    BY AdminHolds DEF LastSuperAdminStays
  <1> QED
    BY <1>1, <1>2, <1>3, PTL DEF Spec

=============================================================================
