---------------------------- MODULE PartsInvariants ----------------------------
(***************************************************************************)
(* What the larger parts of Parts keep true of themselves, for any values  *)
(* and bounds: an inductive invariant of each, that it holds at the start  *)
(* and that every step keeps it.  PartsProofs has the rest and composes.   *)
(***************************************************************************)
EXTENDS Parts, Integers, SequenceTheorems, FiniteSetTheorems, WellFoundedInduction,
        TLAPS

-----------------------------------------------------------------------------
(* Login, verification and the reset of a password *)

AuthAssumption == Auth!TextAssumption /\ Auth!BoundAssumption

AuthCall ==
    [kind : Auth!Kinds, state : {"none", "sent", "ok", "unverified", "failed", "done"},
     email : Auth!Texts, visit : Nat, again : BOOLEAN, mailed : BOOLEAN]

(* Login and its like: a page has one call under way at a time, but for    *)
(* Google's, and is busy meanwhile.                                        *)
Pending(c) == v5[c].kind # "google" /\ v5[c].state \notin {"none", "done"}

CallsInv ==
    /\ v5 \in [Auth!CallIds -> AuthCall]
    /\ v6 \in 0..Given.auth.calls
    /\ v8 \in Nat
    /\ \A c \in Auth!CallIds : c > v6 => v5[c] = Auth!NoCall
    /\ \A c \in Auth!CallIds : v5[c].visit <= v8
    /\ \A c \in Auth!CallIds : v5[c].state = "sent" => ~v5[c].mailed

PendingInv ==
    \A c \in Auth!CallIds : Pending(c) =>
        /\ v5[c].visit = v8 => v13
        /\ \A d \in Auth!CallIds : Pending(d) /\ v5[d].visit = v5[c].visit => c = d

(* A page asks again once the server would send again, unless the e-mail   *)
(* is verified by then or another page has had a code sent.                *)
Excused(e, v) ==
    \/ e \in v2
    \/ \E d \in Auth!CallIds : v5[d].mailed /\ v5[d].email = e /\ v5[d].visit # v
Answering(e) ==
    \E d \in Auth!CallIds : /\ v5[d].kind = "resend" /\ v5[d].state = "ok"
                            /\ v5[d].email = e /\ v5[d].visit = v8
AgeInv ==
    /\ v4 \in [Addresses -> 0..Cooldown] /\ v14 \in 0..Cooldown
    /\ v1 \subseteq Addresses
    /\ \A e \in v15 \cap v1 : \/ Excused(e, v8) \/ Answering(e)
                              \/ v4[e] + v14 >= Cooldown
    /\ \A c \in Auth!CallIds : v5[c].kind = "resend" /\ v5[c].state = "sent" /\ v5[c].again =>
         /\ v5[c].email \in v1
         /\ Excused(v5[c].email, v5[c].visit) \/ v4[v5[c].email] = Cooldown

(* What has been answered is so. *)
DoneInv ==
    \A c \in Auth!CallIds : v5[c].state = "ok" =>
        /\ v5[c].kind \in {"verify", "confirm"} => v5[c].email \in v2
        /\ v5[c].kind = "confirm" => v5[c].email \in v3

AuthInv ==
    /\ v9 \in Auth!Texts
    /\ v13 \in BOOLEAN
    /\ CallsInv /\ PendingInv /\ AgeInv /\ DoneInv
    /\ Auth!NoticesAreTrue /\ Auth!ResendIsServed

LEMMA AuthInit == ASSUME AuthAssumption, Auth!Init PROVE AuthInv
  <1>1. /\ v5 = [c \in Auth!CallIds |-> Auth!NoCall] /\ v6 = 0 /\ v8 = 1 /\ v9 = BlankInput
        /\ v13 = FALSE /\ v14 = 0 /\ v15 = {} /\ v1 \in SUBSET Addresses
        /\ v4 \in [Addresses -> {0, Cooldown}] /\ v12 = Auth!Silent
    BY DEF Auth!Init
  <1>2. /\ Cooldown \in Nat \ {0} /\ Given.auth.calls \in Nat
        /\ Auth!NoCall \in AuthCall /\ BlankInput \in Auth!Texts
    BY DEF AuthAssumption, Auth!BoundAssumption, Auth!NoCall, AuthCall, Auth!Kinds, Auth!Texts
  <1>3. \A c \in Auth!CallIds : v5[c].state = "none" /\ v5[c].visit = 0
    BY <1>1 DEF Auth!NoCall
  <1>4. CallsInv
    BY <1>1, <1>2, <1>3 DEF CallsInv
  <1>5. PendingInv /\ DoneInv
    BY <1>3 DEF PendingInv, Pending, DoneInv
  <1>6. AgeInv
    <2>1. v4 \in [Addresses -> 0..Cooldown] /\ v14 \in 0..Cooldown
      BY <1>1, <1>2
    <2> QED
      BY <1>1, <1>3, <2>1 DEF AgeInv
  <1>7. Auth!NoticesAreTrue /\ Auth!ResendIsServed
    BY <1>1, <1>3 DEF Auth!NoticesAreTrue, Auth!ResendIsServed, Auth!Silent, Auth!Say
  <1> QED
    BY <1>1, <1>2, <1>4, <1>5, <1>6, <1>7 DEF AuthInv

(* The state of one call changes, and possibly that it has had a code      *)
(* sent.                                                                   *)
LEMMA CallChanges ==
    ASSUME CallsInv, NEW c \in Auth!CallIds,
           NEW s \in {"none", "sent", "ok", "unverified", "failed", "done"}, NEW m \in BOOLEAN,
           v5' = [v5 EXCEPT ![c].state = s, ![c].mailed = m], v5[c].state # "none"
    PROVE  /\ v5' \in [Auth!CallIds -> AuthCall]
           /\ v5'[c].state = s /\ v5'[c].mailed = m
           /\ \A d \in Auth!CallIds : d # c => v5'[d] = v5[d]
           /\ \A d \in Auth!CallIds : /\ v5'[d].kind = v5[d].kind /\ v5'[d].email = v5[d].email
                                      /\ v5'[d].visit = v5[d].visit /\ v5'[d].again = v5[d].again
           /\ c <= v6
  <1>1. v5 \in [Auth!CallIds -> AuthCall] /\ v5[c] \in AuthCall
    BY DEF CallsInv
  <1>2. v5' \in [Auth!CallIds -> AuthCall]
    BY <1>1 DEF AuthCall
  <1>3. c <= v6
    <2>1. c \in Nat /\ v6 \in Nat
      BY DEF CallsInv, Auth!CallIds
    <2>2. ~(c > v6)
      BY DEF CallsInv, Auth!NoCall
    <2> QED
      BY <2>1, <2>2
  <1> QED
    BY <1>1, <1>2, <1>3 DEF AuthCall

(* A call that is answered, as far as the calls, the codes and what has    *)
(* been done go; the page stays.                                           *)
LEMMA CallCloses ==
    ASSUME CallsInv, NEW c \in Auth!CallIds,
           v5' = [v5 EXCEPT ![c].state = "done"], v5[c].state # "none",
           UNCHANGED <<v1, v2, v3, v4, v6>>
    PROVE  /\ v5' \in [Auth!CallIds -> AuthCall]
           /\ v5'[c].state = "done"
           /\ \A d \in Auth!CallIds : d # c => v5'[d] = v5[d]
           /\ \A d \in Auth!CallIds : /\ v5'[d].kind = v5[d].kind /\ v5'[d].email = v5[d].email
                                      /\ v5'[d].visit = v5[d].visit /\ v5'[d].again = v5[d].again
                                      /\ v5'[d].mailed = v5[d].mailed
           /\ \A d \in Auth!CallIds : d > v6 => v5'[d] = Auth!NoCall
           /\ \A e, v : Excused(e, v) => Excused(e, v)'
           /\ DoneInv => DoneInv'
           /\ Auth!ResendIsServed => Auth!ResendIsServed'
  <1>1. v5 \in [Auth!CallIds -> AuthCall] /\ v5[c] \in AuthCall
    BY DEF CallsInv
  <1>2. v5' = [v5 EXCEPT ![c].state = "done", ![c].mailed = v5[c].mailed]
    BY <1>1 DEF AuthCall
  <1>3. v5[c].mailed \in BOOLEAN
    BY <1>1 DEF AuthCall
  <1>4. /\ v5' \in [Auth!CallIds -> AuthCall]
        /\ v5'[c].state = "done" /\ v5'[c].mailed = v5[c].mailed
        /\ \A d \in Auth!CallIds : d # c => v5'[d] = v5[d]
        /\ \A d \in Auth!CallIds : /\ v5'[d].kind = v5[d].kind /\ v5'[d].email = v5[d].email
                                   /\ v5'[d].visit = v5[d].visit /\ v5'[d].again = v5[d].again
        /\ c <= v6
    BY <1>2, <1>3, CallChanges
  <1>5. \A d \in Auth!CallIds : v5'[d].mailed = v5[d].mailed
    BY <1>4
  <1>6. \A d \in Auth!CallIds : d > v6 => v5'[d] = Auth!NoCall
    <2>1. c \in Nat /\ v6 \in Nat
      BY DEF CallsInv, Auth!CallIds
    <2> QED
      BY <1>4, <2>1 DEF CallsInv
  <1>7. \A e, v : Excused(e, v) => Excused(e, v)'
    BY <1>4, <1>5 DEF Excused
  <1>8. DoneInv => DoneInv'
    BY <1>4 DEF DoneInv
  <1>9. Auth!ResendIsServed => Auth!ResendIsServed'
    BY <1>4, <1>5 DEF Auth!ResendIsServed, Auth!Overtaken
  <1> QED
    BY <1>4, <1>5, <1>6, <1>7, <1>8, <1>9

(* The calls stay as they are, but for one that is answered.               *)
Settling ==
    /\ v5' \in [Auth!CallIds -> AuthCall] /\ v6' = v6 /\ v2' = v2 /\ v3' = v3
    /\ \A d \in Auth!CallIds : d > v6 => v5'[d] = Auth!NoCall
    /\ \A d \in Auth!CallIds :
         /\ v5'[d].kind = v5[d].kind /\ v5'[d].email = v5[d].email
         /\ v5'[d].visit = v5[d].visit /\ v5'[d].again = v5[d].again
         /\ v5'[d].mailed = v5[d].mailed
         /\ v5'[d].state = v5[d].state \/ v5'[d].state = "done"

LEMMA StillSettles == ASSUME CallsInv, UNCHANGED <<v2, v3, v5, v6>> PROVE Settling
  BY DEF CallsInv, Settling

LEMMA CloseSettles ==
    ASSUME CallsInv, NEW c \in Auth!CallIds, v5[c].state # "none", Auth!Close(c)
    PROVE  Settling /\ v5'[c].state = "done" /\ UNCHANGED <<v1, v2, v3, v4, v6>>
           /\ \A d \in Auth!CallIds : d # c => v5'[d] = v5[d]
  <1>1. v5' = [v5 EXCEPT ![c].state = "done"] /\ UNCHANGED <<v1, v2, v3, v4, v6>>
    BY DEF Auth!Close, Auth!server
  <1>2. /\ v5' \in [Auth!CallIds -> AuthCall]
        /\ v5'[c].state = "done"
        /\ \A d \in Auth!CallIds : d # c => v5'[d] = v5[d]
        /\ \A d \in Auth!CallIds : /\ v5'[d].kind = v5[d].kind /\ v5'[d].email = v5[d].email
                                   /\ v5'[d].visit = v5[d].visit /\ v5'[d].again = v5[d].again
                                   /\ v5'[d].mailed = v5[d].mailed
        /\ \A d \in Auth!CallIds : d > v6 => v5'[d] = Auth!NoCall
    BY <1>1, CallCloses
  <1>3. \A d \in Auth!CallIds : v5'[d].state = v5[d].state \/ v5'[d].state = "done"
    BY <1>2
  <1> QED
    BY <1>1, <1>2, <1>3 DEF Settling

(* What the calls and the codes say of the rest stays so.                  *)
LEMMA Settled ==
    ASSUME AuthInv, Settling, v8' \in Nat, v8' >= v8
    PROVE  /\ CallsInv' /\ DoneInv' /\ Auth!ResendIsServed'
           /\ \A e, v : Excused(e, v) => Excused(e, v)'
           /\ \A d \in Auth!CallIds : Pending(d)' => Pending(d)
           /\ \A d \in Auth!CallIds : v5'[d].state = "sent" => v5[d].state = "sent"
  <1>1. CallsInv /\ DoneInv /\ Auth!ResendIsServed
    BY DEF AuthInv
  <1>2. CallsInv'
    <2>1. \A d \in Auth!CallIds : v5'[d].visit <= v8'
      <3> SUFFICES ASSUME NEW d \in Auth!CallIds PROVE v5'[d].visit <= v8'
        OBVIOUS
      <3>1. v5[d].visit \in Nat /\ v5[d].visit <= v8 /\ v5'[d].visit = v5[d].visit /\ v8 \in Nat
        BY <1>1 DEF CallsInv, AuthCall, Settling
      <3> QED
        BY <3>1
    <2> QED
      BY <1>1, <2>1 DEF CallsInv, Settling
  <1>3. \A e, v : Excused(e, v) => Excused(e, v)'
    BY DEF Excused, Settling
  <1>4. DoneInv'
    BY <1>1 DEF DoneInv, Settling
  <1>5. Auth!ResendIsServed'
    BY <1>1 DEF Auth!ResendIsServed, Auth!Overtaken, Settling
  <1>6. \A d \in Auth!CallIds : Pending(d)' => Pending(d)
    BY DEF Pending, Settling
  <1>7. \A d \in Auth!CallIds : v5'[d].state = "sent" => v5[d].state = "sent"
    BY DEF Settling
  <1> QED
    BY <1>2, <1>3, <1>4, <1>5, <1>6, <1>7

(* A page is opened.  Nothing is under way on it.                          *)
LEMMA MountKeeps ==
    ASSUME AuthAssumption, AuthInv, Settling,
           NEW p, NEW e \in Auth!Texts, NEW n, Auth!Mount(p, e, n),
           n.about = "verified" => n.email \in v2, n.about = "reset" => n.email \in v3,
           v1' \subseteq Addresses, v1 \subseteq v1', v4' \in [Addresses -> 0..Cooldown],
           \A a \in v1 : v4'[a] = v4[a]
    PROVE  AuthInv'
  <1>1. /\ v8' = v8 + 1 /\ v9' = e /\ v12' = n /\ v13' = FALSE /\ v14' = 0 /\ v15' = {}
    BY DEF Auth!Mount
  <1>2. v8 \in Nat /\ \A d \in Auth!CallIds : v5[d].visit <= v8 /\ v5[d].visit \in Nat
    BY DEF AuthInv, CallsInv, AuthCall
  <1>3. v8' \in Nat /\ v8' >= v8
    BY <1>1, <1>2
  <1>4. /\ CallsInv' /\ DoneInv' /\ Auth!ResendIsServed'
        /\ \A a, v : Excused(a, v) => Excused(a, v)'
        /\ \A d \in Auth!CallIds : Pending(d)' => Pending(d)
        /\ \A d \in Auth!CallIds : v5'[d].state = "sent" => v5[d].state = "sent"
    BY <1>3, Settled
  <1>5. PendingInv'
    <2>1. \A d \in Auth!CallIds : v5'[d].visit # v8'
      BY <1>1, <1>2 DEF Settling
    <2>2. \A c, d \in Auth!CallIds : Pending(c)' /\ Pending(d)' /\ v5'[d].visit = v5'[c].visit => c = d
      BY <1>4 DEF AuthInv, PendingInv, Settling
    <2> QED
      BY <2>1, <2>2 DEF PendingInv
  <1>6. AgeInv'
    <2>1. v14' \in 0..Cooldown
      BY <1>1 DEF AuthAssumption, Auth!BoundAssumption
    <2>2. \A c \in Auth!CallIds : v5'[c].kind = "resend" /\ v5'[c].state = "sent" /\ v5'[c].again =>
            /\ v5'[c].email \in v1'
            /\ Excused(v5[c].email, v5[c].visit)' \/ v4'[v5'[c].email] = Cooldown
      BY <1>4 DEF AuthInv, AgeInv, Settling, Excused
    <2> QED
      BY <1>1, <2>1, <2>2 DEF AgeInv
  <1>7. Auth!NoticesAreTrue'
    BY <1>1 DEF Auth!NoticesAreTrue, Settling
  <1> QED
    BY <1>1, <1>4, <1>5, <1>6, <1>7 DEF AuthInv

(* The page stays: it is busy for as long as a call of it is under way,    *)
(* and its countdown starts with the answer.                               *)
LEMMA StayKeeps ==
    ASSUME AuthAssumption, AuthInv, Settling, UNCHANGED <<v1, v4, v8>>,
           v9' \in Auth!Texts, v13' \in BOOLEAN,
           \A c \in Auth!CallIds : Pending(c)' /\ v5[c].visit = v8 => v13',
           v12'.about = "verified" => v12'.email \in v2,
           v12'.about = "reset" => v12'.email \in v3,
           \/ /\ UNCHANGED <<v14, v15>>
              /\ \A c \in Auth!CallIds :
                   v5[c].kind = "resend" /\ v5[c].state = "ok" /\ v5[c].visit = v8 => v5'[c].state = "ok"
           \/ v14' = Cooldown
    PROVE  AuthInv'
  <1>1. v8' \in Nat /\ v8' >= v8
    BY DEF AuthInv, CallsInv
  <1>2. /\ CallsInv' /\ DoneInv' /\ Auth!ResendIsServed'
        /\ \A a, v : Excused(a, v) => Excused(a, v)'
        /\ \A d \in Auth!CallIds : Pending(d)' => Pending(d)
        /\ \A d \in Auth!CallIds : v5'[d].state = "sent" => v5[d].state = "sent"
    BY <1>1, Settled
  <1>3. PendingInv'
    BY <1>2 DEF AuthInv, PendingInv, Settling
  <1>4. AgeInv'
    <2>1. v4' \in [Addresses -> 0..Cooldown] /\ v14' \in 0..Cooldown /\ v1' \subseteq Addresses
      BY DEF AuthAssumption, Auth!BoundAssumption, AuthInv, AgeInv
    <2>2. ASSUME NEW e \in v15' \cap v1'
          PROVE  Excused(e, v8)' \/ Answering(e)' \/ v4'[e] + v14' >= Cooldown
      <3>1. CASE v14' = Cooldown
        <4>1. v4'[e] \in 0..Cooldown /\ Cooldown \in Nat
          BY <2>1 DEF AuthAssumption, Auth!BoundAssumption
        <4> QED
          BY <4>1, <3>1
      <3>2. CASE /\ UNCHANGED <<v14, v15>>
                 /\ \A c \in Auth!CallIds :
                      v5[c].kind = "resend" /\ v5[c].state = "ok" /\ v5[c].visit = v8 => v5'[c].state = "ok"
        <4>1. Excused(e, v8) \/ Answering(e) \/ v4[e] + v14 >= Cooldown
          BY <3>2 DEF AuthInv, AgeInv
        <4>2. Answering(e) => Answering(e)'
          BY <3>2 DEF Answering, Settling
        <4>3. Excused(e, v8) => Excused(e, v8)'
          BY <1>2
        <4> QED
          BY <3>2, <4>1, <4>2, <4>3
      <3> QED
        BY <3>1, <3>2
    <2>3. \A c \in Auth!CallIds : v5'[c].kind = "resend" /\ v5'[c].state = "sent" /\ v5'[c].again =>
            /\ v5'[c].email \in v1'
            /\ Excused(v5[c].email, v5[c].visit)' \/ v4'[v5'[c].email] = Cooldown
      BY <1>2 DEF AuthInv, AgeInv, Settling, Excused
    <2>4. \A e \in v15' \cap v1' : Excused(e, v8)' \/ Answering(e)' \/ v4'[e] + v14' >= Cooldown
      BY <2>2
    <2> QED
      BY <2>1, <2>3, <2>4 DEF AgeInv
  <1>5. Auth!NoticesAreTrue'
    BY DEF Auth!NoticesAreTrue, Settling
  <1> QED
    BY <1>2, <1>3, <1>4, <1>5 DEF AuthInv

LEMMA GoKeeps == ASSUME AuthAssumption, AuthInv, NEW p, Auth!Go(p) PROVE AuthInv'
  <1>1. UNCHANGED <<v1, v2, v3, v4, v5, v6>> /\ Auth!Mount(p, BlankInput, Auth!Silent)
    BY DEF Auth!Go, Auth!server
  <1>2. Settling
    BY <1>1, StillSettles DEF AuthInv
  <1>3. BlankInput \in Auth!Texts /\ Auth!Silent.about = "nothing"
    BY DEF Auth!Texts, Auth!Silent, Auth!Say
  <1>4. v1' \subseteq Addresses /\ v1 \subseteq v1' /\ v4' \in [Addresses -> 0..Cooldown]
        /\ \A a \in v1 : v4'[a] = v4[a]
    BY <1>1 DEF AuthInv, AgeInv
  <1> QED
    BY <1>1, <1>2, <1>3, <1>4, MountKeeps

LEMMA RegisteredKeeps == ASSUME AuthAssumption, AuthInv, Auth!Registered PROVE AuthInv'
  <1>1. UNCHANGED <<v2, v3, v5, v6>>
    BY DEF Auth!Registered
  <1>2. Settling
    BY <1>1, StillSettles DEF AuthInv
  <1>3. v1 \subseteq Addresses /\ v4 \in [Addresses -> 0..Cooldown] /\ Cooldown \in Nat
    BY DEF AuthAssumption, Auth!BoundAssumption, AuthInv, AgeInv
  <1>4. CASE \E e \in Addresses \ v1 :
               /\ v1' = v1 \cup {e} /\ v4' = [v4 EXCEPT ![e] = 0] /\ Auth!Mount("verify", e, Auth!Silent)
    <2>1. PICK e \in Addresses \ v1 :
               /\ v1' = v1 \cup {e} /\ v4' = [v4 EXCEPT ![e] = 0] /\ Auth!Mount("verify", e, Auth!Silent)
      BY <1>4
    <2>2. e \in Auth!Texts /\ Auth!Silent.about = "nothing"
      BY <2>1 DEF Auth!Texts, Auth!Silent, Auth!Say
    <2>3. v1' \subseteq Addresses /\ v1 \subseteq v1' /\ v4' \in [Addresses -> 0..Cooldown]
          /\ \A a \in v1 : v4'[a] = v4[a]
      BY <1>3, <2>1
    <2> QED
      BY <1>2, <2>1, <2>2, <2>3, MountKeeps
  <1>5. CASE UNCHANGED <<v1, v4>> /\ Auth!Mount("login", BlankInput, Auth!Say("registered", BlankInput))
    <2>1. BlankInput \in Auth!Texts /\ Auth!Say("registered", BlankInput).about = "registered"
      BY DEF Auth!Texts, Auth!Say
    <2>2. v1' \subseteq Addresses /\ v1 \subseteq v1' /\ v4' \in [Addresses -> 0..Cooldown]
          /\ \A a \in v1 : v4'[a] = v4[a]
      BY <1>3, <1>5
    <2> QED
      BY <1>2, <1>5, <2>1, <2>2, MountKeeps
  <1> QED
    BY <1>4, <1>5 DEF Auth!Registered

(* The steps of a page that stays and makes no call.                       *)
LEMMA TypeKeeps == ASSUME AuthAssumption, AuthInv, NEW e \in Auth!Texts, Auth!Type(e) PROVE AuthInv'
  <1>1. UNCHANGED <<v1, v2, v3, v4, v5, v6, v8, v12, v13, v14, v15>> /\ v9' = e
    BY DEF Auth!Type, Auth!server
  <1>2. Settling
    BY <1>1, StillSettles DEF AuthInv
  <1>3. \A c \in Auth!CallIds : Pending(c)' /\ v5[c].visit = v8 => v13'
    BY <1>1 DEF AuthInv, PendingInv, Pending
  <1>4. v13' \in BOOLEAN
    BY <1>1 DEF AuthInv
  <1> QED
    BY <1>1, <1>2, <1>3, <1>4, StayKeeps DEF AuthInv, Auth!NoticesAreTrue

LEMMA RejectedKeeps ==
    ASSUME AuthAssumption, AuthInv, Auth!Rejected,
           UNCHANGED <<Auth!server, v7, v8, v9, v10, v14, v15>>
    PROVE  AuthInv'
  <1>1. UNCHANGED <<v1, v2, v3, v4, v5, v6, v8, v9, v13, v14, v15>>
        /\ v12' \in {v12, Auth!Silent}
    BY DEF Auth!Rejected, Auth!server
  <1>2. Settling
    BY <1>1, StillSettles DEF AuthInv
  <1>3. \A c \in Auth!CallIds : Pending(c)' /\ v5[c].visit = v8 => v13'
    BY <1>1 DEF AuthInv, PendingInv, Pending
  <1>4. v13' \in BOOLEAN
    BY <1>1 DEF AuthInv
  <1> QED
    BY <1>1, <1>2, <1>3, <1>4, StayKeeps DEF AuthInv, Auth!NoticesAreTrue, Auth!Silent, Auth!Say

(* A call: Google's, or that of a page that is not busy.                   *)
LEMMA PostKeeps ==
    ASSUME AuthAssumption, AuthInv, NEW kind \in Auth!Kinds, Auth!Post(kind),
           UNCHANGED <<v1, v2, v3, v4, v7, v8, v9, v10, v14, v15>>,
           v13' \in BOOLEAN, v12' \in {v12, Auth!Silent},
           \/ kind = "google" /\ v13' = v13
           \/ ~v13 /\ v13',
           kind = "resend" => v14 = 0
    PROVE  AuthInv'
  <1> DEFINE n == v6 + 1
             new == [kind |-> kind, state |-> "sent", email |-> v9, visit |-> v8,
                     again |-> v9 \in v15 \cap v1, mailed |-> FALSE]
  <1>1. /\ v6 \in Nat /\ n \in Auth!CallIds /\ v6' = n /\ n \in 0..Given.auth.calls
        /\ v5' = [v5 EXCEPT ![n] = new] /\ v5 \in [Auth!CallIds -> AuthCall]
    <2>1. v6 \in 0..Given.auth.calls /\ Given.auth.calls \in Nat /\ v6 < Given.auth.calls
      BY DEF AuthAssumption, Auth!BoundAssumption, AuthInv, CallsInv, Auth!Post
    <2>2. v6' = n /\ v5' = [v5 EXCEPT ![n] = new]
      BY DEF Auth!Post
    <2> QED
      BY <2>1, <2>2 DEF Auth!CallIds, AuthInv, CallsInv
  <1>2. new \in AuthCall
    BY DEF AuthInv, CallsInv, AuthCall
  <1>3. v5[n] = Auth!NoCall
    BY <1>1 DEF AuthInv, CallsInv
  <1>4. /\ v5'[n] = new /\ \A d \in Auth!CallIds : d # n => v5'[d] = v5[d]
        /\ v5' \in [Auth!CallIds -> AuthCall]
    BY <1>1, <1>2
  <1>5. /\ v5[n].state = "none" /\ ~v5[n].mailed /\ v5'[n].state = "sent" /\ ~v5'[n].mailed
        /\ v5'[n].visit = v8 /\ v5'[n].kind = kind /\ v5'[n].email = v9
        /\ v5'[n].again = (v9 \in v15 \cap v1)
    BY <1>3, <1>4 DEF Auth!NoCall
  <1> HIDE DEF new
  <1>6. CallsInv'
    <2>1. \A c \in Auth!CallIds : c > v6' => v5'[c] = Auth!NoCall
      <3> SUFFICES ASSUME NEW c \in Auth!CallIds, c > v6' PROVE v5'[c] = Auth!NoCall
        OBVIOUS
      <3>1. c > v6 /\ c # n
        BY <1>1 DEF Auth!CallIds
      <3> QED
        BY <1>4, <3>1 DEF AuthInv, CallsInv
    <2>2. \A c \in Auth!CallIds : v5'[c].visit <= v8'
      BY <1>4, <1>5 DEF AuthInv, CallsInv
    <2>3. \A c \in Auth!CallIds : v5'[c].state = "sent" => ~v5'[c].mailed
      BY <1>4, <1>5 DEF AuthInv, CallsInv
    <2> QED
      BY <1>1, <1>4, <2>1, <2>2, <2>3 DEF AuthInv, CallsInv
  <1>7. \A e, v : Excused(e, v) => Excused(e, v)'
    BY <1>4, <1>5 DEF Excused
  <1>8. PendingInv'
    <2>1. \A c \in Auth!CallIds : c # n => (Pending(c)' <=> Pending(c)) /\ v5'[c].visit = v5[c].visit
      BY <1>4 DEF Pending
    <2>2. CASE kind = "google" /\ v13' = v13
      <3>1. \A c \in Auth!CallIds : Pending(c)' => c # n
        BY <1>5, <2>2 DEF Pending
      <3> QED
        BY <2>1, <2>2, <3>1 DEF AuthInv, PendingInv
    <2>3. CASE ~v13 /\ v13'
      <3>1. \A c \in Auth!CallIds : Pending(c) => v5[c].visit # v8
        BY <2>3 DEF AuthInv, PendingInv
      <3> QED
        BY <1>5, <2>1, <2>3, <3>1 DEF AuthInv, PendingInv
    <2> QED
      BY <2>2, <2>3
  <1>9. AgeInv'
    <2>1. \A e : Answering(e) <=> Answering(e)'
      BY <1>4, <1>5 DEF Answering
    <2>2. \A e \in v15' \cap v1' : Excused(e, v8)' \/ Answering(e)' \/ v4'[e] + v14' >= Cooldown
      BY <1>7, <2>1 DEF AuthInv, AgeInv
    <2>3. \A c \in Auth!CallIds : v5'[c].kind = "resend" /\ v5'[c].state = "sent" /\ v5'[c].again =>
            /\ v5'[c].email \in v1'
            /\ Excused(v5[c].email, v5[c].visit)' \/ v4'[v5'[c].email] = Cooldown
      <3> SUFFICES ASSUME NEW c \in Auth!CallIds,
                          v5'[c].kind = "resend", v5'[c].state = "sent", v5'[c].again
                   PROVE  /\ v5'[c].email \in v1'
                          /\ Excused(v5[c].email, v5[c].visit)' \/ v4'[v5'[c].email] = Cooldown
        OBVIOUS
      <3>1. CASE c # n
        <4>1. v5'[c] = v5[c]
          BY <1>4, <3>1
        <4>2. v5[c].email \in v1 /\ (Excused(v5[c].email, v5[c].visit) \/ v4[v5[c].email] = Cooldown)
          BY <3>1, <4>1 DEF AuthInv, AgeInv
        <4>3. ASSUME NEW a, NEW b, a = v5[c].email, b = v5[c].visit
              PROVE  Excused(a, b)' \/ v4[a] = Cooldown
          BY <1>7, <4>2, <4>3
        <4>4. (v5[c].email \in v2' \/ \E d \in Auth!CallIds :
                 v5'[d].mailed /\ v5'[d].email = v5[c].email /\ v5'[d].visit # v5[c].visit)
              \/ v4[v5[c].email] = Cooldown
          BY <4>3 DEF Excused
        <4> QED
          BY <4>1, <4>2, <4>4 DEF Excused
      <3>2. CASE c = n
        <4>1. kind = "resend" /\ v14 = 0 /\ v9 \in v15 \cap v1
          BY <1>5, <3>2
        <4>2. ~v13
          BY <4>1
        <4>3. ~Answering(v9)
          BY <4>2 DEF AuthInv, PendingInv, Pending, Answering
        <4>4. Excused(v9, v8) \/ v4[v9] + v14 >= Cooldown
          BY <4>1, <4>3 DEF AuthInv, AgeInv
        <4>5. v4[v9] \in 0..Cooldown /\ Cooldown \in Nat
          BY <4>1 DEF AuthInv, AgeInv, AuthAssumption, Auth!BoundAssumption
        <4>6. Excused(v9, v8) \/ v4[v9] = Cooldown
          BY <4>1, <4>4, <4>5
        <4>7. Excused(v9, v8)' \/ v4[v9] = Cooldown
          BY <1>7, <4>6
        <4> QED
          BY <1>5, <3>2, <4>1, <4>7 DEF Excused
      <3> QED
        BY <3>1, <3>2
    <2> QED
      BY <2>2, <2>3 DEF AuthInv, AgeInv
  <1>10. DoneInv' /\ Auth!NoticesAreTrue'
    BY <1>4, <1>5 DEF AuthInv, DoneInv, Auth!NoticesAreTrue, Auth!Silent, Auth!Say
  <1>11. Auth!ResendIsServed'
    BY <1>4, <1>5 DEF AuthInv, Auth!ResendIsServed, Auth!Overtaken
  <1> QED
    BY <1>6, <1>8, <1>9, <1>10, <1>11 DEF AuthInv

LEMMA SubmitKeeps ==
    ASSUME AuthAssumption, AuthInv, NEW kind \in Auth!Kinds, NEW other, Auth!Submit(kind, other),
           kind = "resend" => v14 = 0
    PROVE  AuthInv'
  <1>1. ~v13 /\ UNCHANGED <<v1, v2, v3, v4, v7, v8, v9, v10, v14, v15>>
    BY DEF Auth!Submit, Auth!server
  <1>2. CASE Auth!Accepted(kind)
    <2>1. Auth!Post(kind) /\ v13' = TRUE /\ v12' \in {v12, Auth!Silent}
      BY <1>2 DEF Auth!Accepted
    <2> QED
      BY <1>1, <2>1, PostKeeps
  <1>3. CASE Auth!Rejected
    BY <1>1, <1>3, RejectedKeeps DEF Auth!server
  <1> QED
    BY <1>2, <1>3 DEF Auth!Submit

(* A call reaches the server, which answers it, and may send a code.       *)
LEMMA ServedKeeps ==
    ASSUME AuthAssumption, AuthInv, NEW c \in Auth!CallIds, v5[c].state = "sent",
           NEW s \in {"ok", "unverified", "failed"}, NEW m \in BOOLEAN,
           v5' = [v5 EXCEPT ![c].state = s, ![c].mailed = m],
           UNCHANGED <<v1, v6, v8, v9, v12, v13, v14, v15>>, v2 \subseteq v2', v3 \subseteq v3',
           \/ ~m /\ v4' = v4
           \/ /\ m /\ v5[c].kind = "resend" /\ s = "ok" /\ v5[c].email \in v1
              /\ v4' = [v4 EXCEPT ![v5[c].email] = 0],
           s = "ok" /\ v5[c].kind \in {"verify", "confirm"} => v5[c].email \in v2',
           s = "ok" /\ v5[c].kind = "confirm" => v5[c].email \in v3',
           s = "ok" /\ v5[c].kind = "resend" /\ v5[c].again =>
             m \/ v5[c].email \in v2' \/ Auth!Overtaken(c)
    PROVE  AuthInv'
  <1>1. /\ v5' \in [Auth!CallIds -> AuthCall]
        /\ v5'[c].state = s /\ v5'[c].mailed = m
        /\ \A d \in Auth!CallIds : d # c => v5'[d] = v5[d]
        /\ \A d \in Auth!CallIds : /\ v5'[d].kind = v5[d].kind /\ v5'[d].email = v5[d].email
                                   /\ v5'[d].visit = v5[d].visit /\ v5'[d].again = v5[d].again
        /\ c <= v6
    BY CallChanges DEF AuthInv
  <1>2. ~v5[c].mailed
    BY DEF AuthInv, CallsInv
  <1>3. \A d \in Auth!CallIds : v5[d].mailed => v5'[d].mailed
    BY <1>1, <1>2
  <1>4. CallsInv'
    <2>1. c \in Nat /\ v6 \in Nat
      BY DEF AuthInv, CallsInv, Auth!CallIds
    <2>2. \A d \in Auth!CallIds : d > v6 => d # c
      BY <1>1, <2>1
    <2>3. \A d \in Auth!CallIds : d > v6' => v5'[d] = Auth!NoCall
      BY <1>1, <2>2 DEF AuthInv, CallsInv
    <2>4. \A d \in Auth!CallIds : v5'[d].visit <= v8'
      BY <1>1 DEF AuthInv, CallsInv
    <2>5. \A d \in Auth!CallIds : v5'[d].state = "sent" => ~v5'[d].mailed
      BY <1>1 DEF AuthInv, CallsInv
    <2> QED
      BY <1>1, <2>3, <2>4, <2>5 DEF AuthInv, CallsInv
  <1>5. PendingInv'
    <2>1. \A d \in Auth!CallIds : (Pending(d)' <=> Pending(d)) /\ v5'[d].visit = v5[d].visit
      BY <1>1 DEF Pending
    <2> QED
      BY <2>1 DEF AuthInv, PendingInv
  <1>6. \A e, v : Excused(e, v) => Excused(e, v)'
    BY <1>1, <1>3 DEF Excused
  <1>7. AgeInv'
    <2>1. v4' \in [Addresses -> 0..Cooldown] /\ \A a \in Addresses : v4'[a] = v4[a] \/ (m /\ a = v5[c].email)
      <3>1. v4 \in [Addresses -> 0..Cooldown] /\ Cooldown \in Nat
        BY DEF AuthInv, AgeInv, AuthAssumption, Auth!BoundAssumption
      <3> QED
        BY <3>1
    <2>2. ASSUME NEW e \in v15' \cap v1'
          PROVE  Excused(e, v8)' \/ Answering(e)' \/ v4'[e] + v14' >= Cooldown
      <3>1. CASE m /\ e = v5[c].email
        <4>1. CASE v5[c].visit = v8
          <5>1. Answering(e)'
            BY <1>1, <3>1, <4>1 DEF Answering
          <5> QED
            BY <5>1
        <4>2. CASE v5[c].visit # v8
          <5>1. Excused(e, v8)'
            BY <1>1, <3>1, <4>2 DEF Excused
          <5> QED
            BY <5>1
        <4> QED
          BY <4>1, <4>2
      <3>2. CASE ~(m /\ e = v5[c].email)
        <4>1. e \in Addresses /\ e \in v15 \cap v1
          BY DEF AuthInv, AgeInv
        <4>2. v4'[e] = v4[e]
          BY <2>1, <3>2, <4>1
        <4>3. Excused(e, v8) \/ Answering(e) \/ v4[e] + v14 >= Cooldown
          BY <4>1 DEF AuthInv, AgeInv
        <4>4. Answering(e) => Answering(e)'
          BY <1>1 DEF Answering
        <4>5. Excused(e, v8) => Excused(e, v8)'
          BY <1>6
        <4> QED
          BY <4>2, <4>3, <4>4, <4>5
      <3> QED
        BY <3>1, <3>2
    <2>3. ASSUME NEW d \in Auth!CallIds,
                 v5'[d].kind = "resend", v5'[d].state = "sent", v5'[d].again
          PROVE  /\ v5'[d].email \in v1'
                 /\ Excused(v5[d].email, v5[d].visit)' \/ v4'[v5'[d].email] = Cooldown
      <3>1. d # c /\ v5'[d] = v5[d]
        BY <1>1, <2>3
      <3>2. v5[d].email \in v1 /\ (Excused(v5[d].email, v5[d].visit) \/ v4[v5[d].email] = Cooldown)
        BY <2>3, <3>1 DEF AuthInv, AgeInv
      <3>3. v5[d].email \in Addresses
        BY <3>2 DEF AuthInv, AgeInv
      <3>4. CASE m /\ v5[d].email = v5[c].email
        <4>1. Pending(c) /\ Pending(d)
          BY <1>1, <2>3, <3>1, <3>4, <1>2 DEF Pending
        <4>2. v5[d].visit # v5[c].visit
          BY <3>1, <4>1 DEF AuthInv, PendingInv
        <4>3. Excused(v5[d].email, v5[d].visit)'
          BY <1>1, <3>1, <3>4, <4>2 DEF Excused
        <4> QED
          BY <3>1, <3>2, <4>3
      <3>5. CASE ~(m /\ v5[d].email = v5[c].email)
        <4>1. v4'[v5[d].email] = v4[v5[d].email]
          BY <2>1, <3>3, <3>5
        <4>2. ASSUME NEW a, NEW b, a = v5[d].email, b = v5[d].visit
              PROVE  Excused(a, b)' \/ v4[a] = Cooldown
          BY <1>6, <3>2, <4>2
        <4>3. (v5[d].email \in v2' \/ \E g \in Auth!CallIds :
                 v5'[g].mailed /\ v5'[g].email = v5[d].email /\ v5'[g].visit # v5[d].visit)
              \/ v4[v5[d].email] = Cooldown
          BY <4>2 DEF Excused
        <4>4. v5'[d].email = v5[d].email /\ v5'[d].visit = v5[d].visit /\ v1' = v1
          BY <3>1
        <4>5. \/ v5'[d].email \in v2'
              \/ \E g \in Auth!CallIds :
                    v5'[g].mailed /\ v5'[g].email = v5'[d].email /\ v5'[g].visit # v5'[d].visit
              \/ v4'[v5'[d].email] = Cooldown
          BY <4>1, <4>3, <4>4
        <4> QED
          BY <3>2, <4>4, <4>5 DEF Excused
      <3> QED
        BY <3>4, <3>5
    <2>4. \A e \in v15' \cap v1' : Excused(e, v8)' \/ Answering(e)' \/ v4'[e] + v14' >= Cooldown
      BY <2>2
    <2>5. \A d \in Auth!CallIds : v5'[d].kind = "resend" /\ v5'[d].state = "sent" /\ v5'[d].again =>
            /\ v5'[d].email \in v1'
            /\ Excused(v5[d].email, v5[d].visit)' \/ v4'[v5'[d].email] = Cooldown
      BY <2>3
    <2> QED
      BY <2>1, <2>4, <2>5 DEF AuthInv, AgeInv
  <1>8. DoneInv'
    BY <1>1 DEF AuthInv, DoneInv
  <1>9. Auth!NoticesAreTrue'
    BY DEF AuthInv, Auth!NoticesAreTrue
  <1>10. Auth!ResendIsServed'
    <2>1. \A d \in Auth!CallIds : Auth!Overtaken(d) => Auth!Overtaken(d)'
      BY <1>1, <1>3 DEF Auth!Overtaken
    <2> QED
      BY <1>1, <1>3, <2>1 DEF AuthInv, Auth!ResendIsServed
  <1> QED
    BY <1>4, <1>5, <1>7, <1>8, <1>9, <1>10 DEF AuthInv

LEMMA ServeKeeps == ASSUME AuthAssumption, AuthInv, NEW c \in Auth!CallIds, Auth!Serve(c) PROVE AuthInv'
  <1>1. v5[c].state = "sent" /\ UNCHANGED <<v6, v8, v9, v12, v13, v14, v15>>
    BY DEF Auth!Serve, Auth!ui
  <1>2. v5[c] \in AuthCall /\ v5 \in [Auth!CallIds -> AuthCall] /\ ~v5[c].mailed
    BY <1>1 DEF AuthInv, CallsInv
  <1>3. ASSUME NEW s \in {"ok", "unverified", "failed"}, v5' = [v5 EXCEPT ![c].state = s]
        PROVE  v5' = [v5 EXCEPT ![c].state = s, ![c].mailed = FALSE]
    <2>1. v5[c].mailed = FALSE
      BY <1>2 DEF AuthCall
    <2> QED
      BY <1>2, <1>3, <2>1 DEF AuthCall
  <1>4. CASE v5' = [v5 EXCEPT ![c].state = "failed"] /\ UNCHANGED Auth!server
    <2>1. v5' = [v5 EXCEPT ![c].state = "failed", ![c].mailed = FALSE] /\ UNCHANGED <<v1, v2, v3, v4>>
      BY <1>3, <1>4 DEF Auth!server
    <2> QED
      BY <1>1, <2>1, ServedKeeps
  <1>5. CASE v5' = [v5 EXCEPT ![c].state = "unverified"] /\ UNCHANGED Auth!server
    <2>1. v5' = [v5 EXCEPT ![c].state = "unverified", ![c].mailed = FALSE] /\ UNCHANGED <<v1, v2, v3, v4>>
      BY <1>3, <1>5 DEF Auth!server
    <2> QED
      BY <1>1, <2>1, ServedKeeps
  <1>6. ASSUME NEW m,
               m = (v5[c].kind = "resend" /\ v5[c].email \in v1 \ v2 /\ Auth!MayMail(v5[c].email)),
               v5' = [v5 EXCEPT ![c].state = "ok", ![c].mailed = m],
               v4' = IF m THEN [v4 EXCEPT ![v5[c].email] = 0] ELSE v4,
               v2' = IF v5[c].kind \in {"verify", "confirm"} THEN v2 \cup {v5[c].email} ELSE v2,
               v3' = IF v5[c].kind = "confirm" THEN v3 \cup {v5[c].email} ELSE v3,
               UNCHANGED v1
        PROVE  AuthInv'
    <2>1. m \in BOOLEAN
      BY <1>6
    <2>2. \/ ~m /\ v4' = v4
          \/ /\ m /\ v5[c].kind = "resend" /\ v5[c].email \in v1
             /\ v4' = [v4 EXCEPT ![v5[c].email] = 0]
      BY <1>6
    <2>3. v2 \subseteq v2' /\ v3 \subseteq v3'
      BY <1>6
    <2>4. v5[c].kind = "resend" /\ v5[c].again => m \/ v5[c].email \in v2' \/ Auth!Overtaken(c)
      <3> SUFFICES ASSUME v5[c].kind = "resend", v5[c].again, ~m
                   PROVE  v5[c].email \in v2' \/ Auth!Overtaken(c)
        OBVIOUS
      <3>1. v5[c].email \in v1 /\ (Excused(v5[c].email, v5[c].visit) \/ v4[v5[c].email] = Cooldown)
        BY <1>1 DEF AuthInv, AgeInv
      <3>2. CASE Excused(v5[c].email, v5[c].visit)
        BY <2>3, <3>2 DEF Excused, Auth!Overtaken
      <3>3. CASE v4[v5[c].email] = Cooldown
        BY <1>6, <2>3, <3>1, <3>3 DEF Auth!MayMail
      <3> QED
        BY <3>1, <3>2, <3>3
    <2>5. /\ v5[c].kind \in {"verify", "confirm"} => v5[c].email \in v2'
          /\ v5[c].kind = "confirm" => v5[c].email \in v3'
      BY <1>6
    <2> QED
      BY <1>1, <1>6, <2>1, <2>2, <2>3, <2>4, <2>5, ServedKeeps
  <1> QED
    BY <1>4, <1>5, <1>6 DEF Auth!Serve

LEMMA TickKeeps == ASSUME AuthAssumption, AuthInv, Auth!Tick PROVE AuthInv'
  <1>1. /\ UNCHANGED <<v1, v2, v3, v5, v6, v8, v9, v12, v13, v15>>
        /\ v14' = v14 \/ v14' = Auth!CountDown
        /\ v4' = [e \in Addresses |-> Auth!Min({v4[e] + 1, Cooldown})]
    BY DEF Auth!Tick
  <1>2. v4 \in [Addresses -> 0..Cooldown] /\ v14 \in 0..Cooldown /\ Cooldown \in Nat
        /\ v1 \subseteq Addresses
    BY DEF AuthInv, AgeInv, AuthAssumption, Auth!BoundAssumption
  <1>3. \A x, y \in Int : Auth!Min({x, y}) = IF x <= y THEN x ELSE y
    <2> SUFFICES ASSUME NEW x \in Int, NEW y \in Int PROVE Auth!Min({x, y}) = IF x <= y THEN x ELSE y
      OBVIOUS
    <2> DEFINE P(z) == z \in {x, y} /\ \A w \in {x, y} : z <= w
    <2>1. P(IF x <= y THEN x ELSE y)
      OBVIOUS
    <2>2. \A z : P(z) => z = IF x <= y THEN x ELSE y
      OBVIOUS
    <2>3. Auth!Min({x, y}) = CHOOSE z \in {x, y} : \A w \in {x, y} : z <= w
      BY DEF Auth!Min
    <2>4. P(Auth!Min({x, y}))
      BY <2>1, <2>3, Zenon
    <2> QED
      BY <2>2, <2>4
  <1>4. \A e \in Addresses : v4'[e] = IF v4[e] + 1 <= Cooldown THEN v4[e] + 1 ELSE Cooldown
    BY <1>1, <1>2, <1>3
  <1>5. v14' \in 0..Cooldown /\ (v14' = v14 \/ v14' = v14 - 1 \/ v14 = 0)
    BY <1>1, <1>2 DEF Auth!CountDown
  <1>6. v4' \in [Addresses -> 0..Cooldown]
    <2>1. \A e \in Addresses : v4'[e] \in 0..Cooldown
      BY <1>2, <1>4
    <2> QED
      BY <1>1, <2>1
  <1>7. CallsInv' /\ PendingInv' /\ DoneInv' /\ Auth!NoticesAreTrue' /\ Auth!ResendIsServed'
    BY <1>1 DEF AuthInv, CallsInv, PendingInv, Pending, DoneInv, Auth!NoticesAreTrue,
                Auth!ResendIsServed, Auth!Overtaken
  <1>8. \A e, v : Excused(e, v) => Excused(e, v)'
    BY <1>1 DEF Excused
  <1>9. AgeInv'
    <2>1. ASSUME NEW e \in v15' \cap v1'
          PROVE  Excused(e, v8)' \/ Answering(e)' \/ v4'[e] + v14' >= Cooldown
      <3>1. e \in Addresses /\ e \in v15 \cap v1
        BY <1>1, <1>2
      <3>2. Answering(e) => Answering(e)'
        BY <1>1 DEF Answering
      <3>3. v4[e] + v14 >= Cooldown => v4'[e] + v14' >= Cooldown
        <4>1. v4[e] \in 0..Cooldown /\ v4'[e] = IF v4[e] + 1 <= Cooldown THEN v4[e] + 1 ELSE Cooldown
          BY <1>2, <1>4, <3>1
        <4>2. ASSUME NEW a \in 0..Cooldown, NEW b \in 0..Cooldown, NEW b1 \in 0..Cooldown,
                     b1 = b \/ b1 = b - 1 \/ b = 0, a + b >= Cooldown
              PROVE  (IF a + 1 <= Cooldown THEN a + 1 ELSE Cooldown) + b1 >= Cooldown
          BY <1>2, <4>2
        <4> QED
          BY <1>2, <1>5, <4>1, <4>2
      <3>4. Excused(e, v8) => Excused(e, v8)'
        BY <1>1 DEF Excused
      <3> QED
        BY <3>1, <3>2, <3>3, <3>4 DEF AuthInv, AgeInv
    <2>2. \A d \in Auth!CallIds : v5'[d].kind = "resend" /\ v5'[d].state = "sent" /\ v5'[d].again =>
            /\ v5'[d].email \in v1'
            /\ Excused(v5[d].email, v5[d].visit)' \/ v4'[v5'[d].email] = Cooldown
      <3> SUFFICES ASSUME NEW d \in Auth!CallIds,
                          v5[d].kind = "resend", v5[d].state = "sent", v5[d].again
                   PROVE  /\ v5[d].email \in v1
                          /\ Excused(v5[d].email, v5[d].visit)' \/ v4'[v5[d].email] = Cooldown
        BY <1>1
      <3>1. v5[d].email \in v1 /\ (Excused(v5[d].email, v5[d].visit) \/ v4[v5[d].email] = Cooldown)
        BY DEF AuthInv, AgeInv
      <3>2. v4[v5[d].email] = Cooldown => v4'[v5[d].email] = Cooldown
        BY <1>2, <1>4, <3>1
      <3>3. Excused(v5[d].email, v5[d].visit) => Excused(v5[d].email, v5[d].visit)'
        BY <1>1 DEF Excused
      <3> QED
        BY <3>1, <3>2, <3>3
    <2>3. \A e \in v15' \cap v1' : Excused(e, v8)' \/ Answering(e)' \/ v4'[e] + v14' >= Cooldown
      BY <2>1
    <2> QED
      BY <1>1, <1>2, <1>5, <1>6, <2>2, <2>3 DEF AgeInv
  <1> QED
    BY <1>1, <1>7, <1>9 DEF AuthInv

(* A call is answered: to the page that made it, if it is there.           *)
LEMMA SettleKeeps ==
    ASSUME AuthAssumption, AuthInv, NEW c \in Auth!CallIds, v5[c].state \notin {"none", "done"},
           Auth!Close(c), v9' = v9, v8' = v8, v13' \in BOOLEAN, v13' = v13 \/ Auth!Alive(c),
           v5[c].kind = "google" => v13' = v13,
           v12'.about = "verified" => v12'.email \in v2,
           v12'.about = "reset" => v12'.email \in v3,
           \/ /\ UNCHANGED <<v14, v15>>
              /\ v5[c].kind = "resend" /\ v5[c].state = "ok" => ~Auth!Alive(c)
           \/ v14' = Cooldown
    PROVE  AuthInv'
  <1>1. Settling /\ v5'[c].state = "done" /\ UNCHANGED <<v1, v2, v3, v4, v6>>
        /\ \A d \in Auth!CallIds : d # c => v5'[d] = v5[d]
    BY CloseSettles DEF AuthInv
  <1>2. \A d \in Auth!CallIds : Pending(d)' /\ v5[d].visit = v8 => v13'
    <2> SUFFICES ASSUME NEW d \in Auth!CallIds, Pending(d)', v5[d].visit = v8 PROVE v13'
      OBVIOUS
    <2>1. d # c /\ Pending(d)
      BY <1>1 DEF Pending
    <2>2. v13
      BY <2>1 DEF AuthInv, PendingInv
    <2>3. CASE v13' = v13
      BY <2>2, <2>3
    <2>4. CASE Auth!Alive(c) /\ v13' # v13
      <3>1. v5[c].kind # "google" /\ v5[c].visit = v5[d].visit
        BY <2>4 DEF Auth!Alive
      <3>2. Pending(c)
        BY <3>1 DEF Pending
      <3> QED
        BY <2>1, <3>1, <3>2 DEF AuthInv, PendingInv
    <2> QED
      BY <2>3, <2>4
  <1>3. (v5[c].kind = "resend" /\ v5[c].state = "ok" => ~Auth!Alive(c)) =>
          \A d \in Auth!CallIds :
            v5[d].kind = "resend" /\ v5[d].state = "ok" /\ v5[d].visit = v8 => v5'[d].state = "ok"
    BY <1>1 DEF Auth!Alive
  <1>4. v9' \in Auth!Texts
    BY DEF AuthInv
  <1> QED
    BY <1>1, <1>2, <1>3, <1>4, StayKeeps

(* An answer opens a page.                                                 *)
LEMMA OpenKeeps ==
    ASSUME AuthAssumption, AuthInv, NEW c \in Auth!CallIds, v5[c].state # "none", Auth!Close(c),
           NEW p, NEW e \in Auth!Texts, NEW n, Auth!Mount(p, e, n),
           n.about = "verified" => n.email \in v2, n.about = "reset" => n.email \in v3
    PROVE  AuthInv'
  <1>1. Settling /\ UNCHANGED <<v1, v2, v3, v4, v6>>
    BY CloseSettles DEF AuthInv
  <1>2. v1' \subseteq Addresses /\ v1 \subseteq v1' /\ v4' \in [Addresses -> 0..Cooldown]
        /\ \A a \in v1 : v4'[a] = v4[a]
    BY <1>1 DEF AuthInv, AgeInv
  <1> QED
    BY <1>1, <1>2, MountKeeps

LEMMA FailsKeeps == ASSUME AuthAssumption, AuthInv, NEW c \in Auth!CallIds, Auth!Fails(c) PROVE AuthInv'
  <1>1. v5[c].state = "failed" /\ Auth!Close(c)
        /\ \/ UNCHANGED Auth!ui
           \/ /\ v5[c].kind = "google"
              /\ UNCHANGED <<v7, v8, v9, v10, v12, v13, v14, v15>>
           \/ Auth!Alive(c) /\ v5[c].kind # "google" /\ Auth!Settle(TRUE, v12)
    BY DEF Auth!Fails
  <1>2. /\ UNCHANGED <<v8, v9, v12, v14, v15>>
        /\ v13' = v13 \/ (Auth!Alive(c) /\ v5[c].kind # "google" /\ v13' = FALSE)
    BY <1>1 DEF Auth!ui, Auth!Settle
  <1>3. v13' \in BOOLEAN
    BY <1>2 DEF AuthInv
  <1> QED
    BY <1>1, <1>2, <1>3, SettleKeeps DEF AuthInv, Auth!NoticesAreTrue

LEMMA SignedInKeeps == ASSUME AuthAssumption, AuthInv, NEW c \in Auth!CallIds, Auth!SignedIn(c) PROVE AuthInv'
  <1>1. v5[c].state \in {"ok", "unverified"} /\ v5[c].kind \in {"login", "google"} /\ Auth!Close(c)
        /\ \/ Auth!Navigate("home", BlankInput, Auth!Silent)
           \/ Auth!Navigate("verify", v5[c].email, Auth!Silent)
    BY DEF Auth!SignedIn
  <1>2. v5[c].email \in Auth!Texts /\ BlankInput \in Auth!Texts /\ Auth!Silent.about = "nothing"
    BY DEF AuthInv, CallsInv, AuthCall, Auth!Texts, Auth!Silent, Auth!Say
  <1>3. CASE UNCHANGED Auth!ui
    <2>1. UNCHANGED <<v8, v9, v12, v13, v14, v15>>
      BY <1>3 DEF Auth!ui
    <2>2. v13' \in BOOLEAN
      BY <2>1 DEF AuthInv
    <2> QED
      BY <1>1, <2>1, <2>2, SettleKeeps DEF AuthInv, Auth!NoticesAreTrue
  <1>4. CASE Auth!Mount("home", BlankInput, Auth!Silent)
    BY <1>1, <1>2, <1>4, OpenKeeps
  <1>5. CASE Auth!Mount("verify", v5[c].email, Auth!Silent)
    BY <1>1, <1>2, <1>5, OpenKeeps
  <1> QED
    BY <1>1, <1>3, <1>4, <1>5 DEF Auth!Navigate

LEMMA ConfirmedKeeps == ASSUME AuthAssumption, AuthInv, NEW c \in Auth!CallIds, Auth!Confirmed(c) PROVE AuthInv'
  <1> DEFINE about == IF v5[c].kind = "verify" THEN "verified" ELSE "reset"
  <1>1. v5[c].kind \in {"verify", "confirm"} /\ v5[c].state = "ok" /\ Auth!Close(c)
        /\ \/ UNCHANGED Auth!ui
           \/ Auth!Mount("login", v5[c].email, Auth!Say(about, v5[c].email))
    BY DEF Auth!Confirmed, Auth!AnsweredEmail
  <1>2. CASE UNCHANGED Auth!ui
    <2>1. UNCHANGED <<v8, v9, v12, v13, v14, v15>>
      BY <1>2 DEF Auth!ui
    <2>2. v13' \in BOOLEAN
      BY <2>1 DEF AuthInv
    <2> QED
      BY <1>1, <2>1, <2>2, SettleKeeps DEF AuthInv, Auth!NoticesAreTrue
  <1>3. CASE Auth!Mount("login", v5[c].email, Auth!Say(about, v5[c].email))
    <2>1. v5[c].email \in Auth!Texts
      BY DEF AuthInv, CallsInv, AuthCall
    <2>2. about = "verified" => v5[c].email \in v2
      BY <1>1 DEF AuthInv, DoneInv
    <2>3. about = "reset" => v5[c].email \in v3
      BY <1>1 DEF AuthInv, DoneInv
    <2> DEFINE n == Auth!Say(about, v5[c].email)
    <2>4. n.about = about /\ n.email = v5[c].email
      BY DEF Auth!Say
    <2> QED
      BY <1>1, <1>3, <2>1, <2>2, <2>3, <2>4, OpenKeeps
  <1> QED
    BY <1>1, <1>2, <1>3

LEMMA ResentKeeps == ASSUME AuthAssumption, AuthInv, NEW c \in Auth!CallIds, Auth!Resent(c) PROVE AuthInv'
  <1>1. v5[c].kind = "resend" /\ v5[c].state = "ok" /\ Auth!Close(c)
    BY DEF Auth!Resent
  <1>2. CASE ~Auth!Alive(c)
    <2>1. UNCHANGED <<v8, v9, v12, v13, v14, v15>>
      BY <1>2 DEF Auth!Resent, Auth!ui
    <2>2. v13' \in BOOLEAN
      BY <2>1 DEF AuthInv
    <2> QED
      BY <1>1, <1>2, <2>1, <2>2, SettleKeeps DEF AuthInv, Auth!NoticesAreTrue
  <1>3. CASE Auth!Alive(c)
    <2>1. UNCHANGED <<v8, v9>> /\ v13' = FALSE /\ v14' = Cooldown
          /\ v12' = Auth!Say("resent", v5[c].email)
      BY <1>3 DEF Auth!Resent
    <2>2. v12'.about = "resent"
      BY <2>1 DEF Auth!Say
    <2> QED
      BY <1>1, <1>3, <2>1, <2>2, SettleKeeps
  <1> QED
    BY <1>2, <1>3

LEMMA RequestedKeeps == ASSUME AuthAssumption, AuthInv, NEW c \in Auth!CallIds, Auth!Requested(c) PROVE AuthInv'
  <1>1. v5[c].kind = "request" /\ v5[c].state = "ok" /\ Auth!Close(c)
        /\ UNCHANGED <<v8, v9, v12, v14, v15>>
        /\ (v13' = v13 \/ (Auth!Alive(c) /\ v13' = FALSE))
    BY DEF Auth!Requested
  <1>2. v13' \in BOOLEAN
    BY <1>1 DEF AuthInv
  <1>3. /\ v12'.about = "verified" => v12'.email \in v2
        /\ v12'.about = "reset" => v12'.email \in v3
    BY <1>1 DEF AuthInv, Auth!NoticesAreTrue
  <1>4. v13' = v13 \/ Auth!Alive(c)
    BY <1>1
  <1>5. v5[c].state \notin {"none", "done"} /\ v5[c].kind # "google" /\ v5[c].kind # "resend"
    BY <1>1
  <1> QED
    BY <1>1, <1>2, <1>3, <1>4, <1>5, SettleKeeps

LEMMA AuthStep == ASSUME AuthAssumption, AuthInv, Auth!Next PROVE AuthInv'
  <1>1. ASSUME NEW p \in Auth!Pages, Auth!Go(p) PROVE AuthInv'
    BY <1>1, GoKeeps
  <1>2. CASE Auth!Registered
    BY <1>2, RegisteredKeeps
  <1>3. ASSUME NEW e \in Auth!Texts, Auth!Type(e) PROVE AuthInv'
    BY <1>3, TypeKeeps
  <1>4. CASE Auth!Login
    BY <1>4, SubmitKeeps DEF Auth!Login, Auth!Kinds
  <1>5. CASE Auth!Verify
    BY <1>5, SubmitKeeps DEF Auth!Verify, Auth!Kinds
  <1>6. CASE Auth!Resend
    BY <1>6, SubmitKeeps DEF Auth!Resend, Auth!Kinds
  <1>7. CASE Auth!RequestStep
    BY <1>7, SubmitKeeps DEF Auth!RequestStep, Auth!Kinds
  <1>8. CASE Auth!ConfirmStep
    BY <1>8, SubmitKeeps DEF Auth!ConfirmStep, Auth!Kinds
  <1>9. CASE Auth!GoogleSignIn
    <2>1. Auth!Post("google") /\ UNCHANGED <<v1, v2, v3, v4, v7, v8, v9, v10, v12, v13, v14, v15>>
      BY <1>9 DEF Auth!GoogleSignIn, Auth!server, Auth!ui
    <2>2. v13' \in BOOLEAN
      BY <2>1 DEF AuthInv
    <2> QED
      BY <2>1, <2>2, PostKeeps DEF Auth!Kinds
  <1>10. ASSUME NEW c \in Auth!CallIds, Auth!Serve(c) PROVE AuthInv'
    BY <1>10, ServeKeeps
  <1>11. ASSUME NEW c \in Auth!CallIds, Auth!Answer(c) PROVE AuthInv'
    BY <1>11, FailsKeeps, SignedInKeeps, ConfirmedKeeps, ResentKeeps, RequestedKeeps DEF Auth!Answer
  <1>12. CASE Auth!Tick
    BY <1>12, TickKeeps
  <1> QED
    BY <1>1, <1>2, <1>3, <1>4, <1>5, <1>6, <1>7, <1>8, <1>9, <1>10, <1>11, <1>12 DEF Auth!Next

LEMMA AuthStays == ASSUME AuthInv, UNCHANGED vars PROVE AuthInv'
  BY DEF vars,
    AuthInv, CallsInv, PendingInv, AgeInv, DoneInv, Auth!NoticesAreTrue,
    Auth!ResendIsServed, Auth!NoCall, Pending, Excused, Answering,
    Auth!Overtaken

AuthDone == {c \in Auth!CallIds : v5[c].state = "done"}

(* E-mails and pages; only an answer opens a page beyond Visits.           *)
CallsTyped ==
    \A c \in Auth!CallIds :
        v5[c].kind = "resend" \/ v5[c].state = "unverified" => v5[c].email \in Addresses
PageTyped ==
    /\ v7 \in Auth!Pages /\ v10 \in {"email", "code"} /\ v12 \in Auth!Notice
    /\ v7 = "verify" => v9 \in Addresses \cup {BlankInput}
AuthMore ==
    /\ v2 \subseteq Addresses /\ v3 \subseteq Addresses /\ v15 \subseteq Addresses
    /\ v11 \in BOOLEAN
    /\ CallsTyped /\ PageTyped
    /\ v8 >= 1 /\ v8 <= Visits + Cardinality(AuthDone)
AuthTyped == AuthInv /\ AuthMore

LEMMA DoneCount ==
    ASSUME AuthAssumption
    PROVE  /\ IsFiniteSet(AuthDone) /\ Cardinality(AuthDone) \in Nat
           /\ Cardinality(AuthDone) <= Given.auth.calls
  <1>1. Given.auth.calls \in Nat /\ AuthDone \subseteq 1..Given.auth.calls
    BY DEF AuthAssumption, Auth!BoundAssumption, AuthDone, Auth!CallIds
  <1>2. IsFiniteSet(1..Given.auth.calls) /\ Cardinality(1..Given.auth.calls) = Given.auth.calls
    <2>1. \A c \in Nat : IsFiniteSet(1..c) /\ Cardinality(1..c) = IF 1 > c THEN 0 ELSE c - 1 + 1
      BY FS_Interval
    <2>2. \A c \in Nat : (IF 1 > c THEN 0 ELSE c - 1 + 1) = c
      OBVIOUS
    <2> QED
      BY <1>1, <2>1, <2>2
  <1> QED
    BY <1>1, <1>2, FS_Subset, FS_CardinalityType

LEMMA AuthType == ASSUME AuthAssumption, AuthTyped PROVE Auth!TypeOK
  <1>1. Given.auth.calls \in Nat /\ Visits \in Nat /\ Cooldown \in Nat
    BY DEF AuthAssumption, Auth!BoundAssumption
  <1>2. v8 \in 1..(Visits + Given.auth.calls)
    <2>1. v8 \in Nat /\ v8 >= 1 /\ v8 <= Visits + Cardinality(AuthDone)
      BY DEF AuthTyped, AuthInv, CallsInv, AuthMore
    <2> QED
      BY <1>1, <2>1, DoneCount
  <1>3. v5 \in [Auth!CallIds -> Auth!Call]
    <2>1. v5 \in [Auth!CallIds -> AuthCall] /\ \A c \in Auth!CallIds : v5[c].visit <= v8
      BY DEF AuthTyped, AuthInv, CallsInv
    <2>2. ASSUME NEW c \in Auth!CallIds PROVE v5[c] \in Auth!Call
      <3>1. v5[c] \in AuthCall /\ v5[c].visit \in Nat /\ v5[c].visit <= v8
        BY <2>1 DEF AuthCall
      <3>2. v5[c].visit \in 0..(Visits + Given.auth.calls)
        BY <1>1, <1>2, <3>1
      <3> QED
        BY <3>1, <3>2, Zenon DEF AuthCall, Auth!Call
    <2> QED
      BY <2>1, <2>2
  <1> QED
    BY <1>2, <1>3 DEF AuthTyped, AuthInv, CallsInv, AgeInv, AuthMore, PageTyped, Auth!TypeOK

LEMMA AuthTypedInit == ASSUME AuthAssumption, Auth!Init PROVE AuthTyped
  <1>1. /\ v5 = [c \in Auth!CallIds |-> Auth!NoCall] /\ v8 = 1 /\ v9 = BlankInput
        /\ v15 = {} /\ v2 = {} /\ v3 = {} /\ v7 = "login" /\ v10 = "email"
        /\ v12 = Auth!Silent
    BY DEF Auth!Init
  <1>2. v11 \in BOOLEAN
    BY DEF Auth!Init
  <1>3. CallsTyped /\ AuthDone = {}
    BY <1>1 DEF CallsTyped, AuthDone, Auth!NoCall
  <1>4. Visits \in Nat \ {0} /\ Cardinality(AuthDone) = 0
    BY <1>3, FS_EmptySet DEF AuthAssumption, Auth!BoundAssumption
  <1>5. PageTyped
    BY <1>1 DEF PageTyped, Auth!Pages, Auth!Notice, Auth!Silent, Auth!Say, Auth!Texts
  <1> QED
    BY <1>1, <1>2, <1>3, <1>4, <1>5, AuthInit DEF AuthTyped, AuthMore

(* A page opens, if the calls allow it one more.                           *)
LEMMA MountTyped ==
    ASSUME AuthAssumption, AuthTyped, NEW p \in Auth!Pages, NEW e \in Auth!Texts,
           NEW n \in Auth!Notice, Auth!Mount(p, e, n),
           p = "verify" => e \in Addresses \cup {BlankInput},
           v2' \subseteq Addresses, v3' \subseteq Addresses, CallsTyped',
           v8 + 1 <= Visits + Cardinality(AuthDone')
    PROVE  AuthMore'
  <1>1. /\ v7' = p /\ v8' = v8 + 1 /\ v9' = e /\ v10' = "email" /\ v12' = n /\ v15' = {}
    BY DEF Auth!Mount
  <1>2. v11' \in BOOLEAN
    BY DEF Auth!Mount
  <1>3. v8' >= 1 /\ v8' <= Visits + Cardinality(AuthDone')
    <2>1. v8 \in Nat
      BY DEF AuthTyped, AuthInv, CallsInv
    <2> QED
      BY <1>1, <2>1
  <1>4. PageTyped'
    BY <1>1 DEF PageTyped
  <1> QED
    BY <1>1, <1>2, <1>3, <1>4 DEF AuthMore

(* The page stays, or its form and its words change.                       *)
LEMMA StayTyped ==
    ASSUME AuthAssumption, AuthTyped, UNCHANGED <<v7, v8>>,
           v2' \subseteq Addresses, v3' \subseteq Addresses, v15' \subseteq Addresses,
           v10' \in {"email", "code"}, v11' \in BOOLEAN, v12' \in Auth!Notice,
           v7 = "verify" => v9' \in Addresses \cup {BlankInput},
           CallsTyped', Cardinality(AuthDone') >= Cardinality(AuthDone),
           Cardinality(AuthDone') \in Nat
    PROVE  AuthMore'
  <1>1. v8' >= 1 /\ v8' <= Visits + Cardinality(AuthDone')
    <2>1. v8 \in Nat /\ Visits \in Nat /\ v8 >= 1 /\ v8 <= Visits + Cardinality(AuthDone)
      BY DEF AuthTyped, AuthInv, CallsInv, AuthMore, AuthAssumption, Auth!BoundAssumption
    <2> QED
      BY <2>1, DoneCount
  <1>2. PageTyped'
    BY DEF AuthTyped, AuthMore, PageTyped
  <1> QED
    BY <1>1, <1>2 DEF AuthMore

(* An answer is handled: there is one done call more.                      *)
LEMMA CloseTyped ==
    ASSUME AuthAssumption, AuthTyped, NEW c \in Auth!CallIds, Auth!Close(c),
           v5[c].state \notin {"none", "done"}
    PROVE  /\ UNCHANGED <<v1, v2, v3, v4, v6>> /\ CallsTyped'
           /\ Cardinality(AuthDone') = Cardinality(AuthDone) + 1
           /\ Cardinality(AuthDone') \in Nat
  <1>1. /\ Settling /\ v5'[c].state = "done" /\ UNCHANGED <<v1, v2, v3, v4, v6>>
        /\ \A d \in Auth!CallIds : d # c => v5'[d] = v5[d]
    BY CloseSettles DEF AuthTyped, AuthInv
  <1>2. CallsTyped'
    BY <1>1 DEF AuthTyped, AuthMore, CallsTyped, Settling
  <1>3. AuthDone' = AuthDone \cup {c} /\ c \notin AuthDone
    BY <1>1 DEF AuthDone
  <1>4. Cardinality(AuthDone \cup {c}) = Cardinality(AuthDone) + 1
    BY <1>3, DoneCount, FS_AddElement
  <1> QED
    BY <1>1, <1>2, <1>3, <1>4, DoneCount

(* The calls stay, but for one that is made or served.                     *)
LEMMA CallTyped ==
    ASSUME AuthAssumption, AuthTyped, NEW c \in Auth!CallIds, v5[c].state \in {"none", "sent"},
           NEW call, v5' = [v5 EXCEPT ![c] = call], call.state \notin {"done"},
           call.kind = "resend" \/ call.state = "unverified" => call.email \in Addresses
    PROVE  /\ CallsTyped' /\ Cardinality(AuthDone') >= Cardinality(AuthDone)
           /\ Cardinality(AuthDone') \in Nat
  <1>1. /\ v5'[c] = call /\ \A d \in Auth!CallIds : d # c => v5'[d] = v5[d]
    BY DEF AuthTyped, AuthInv, CallsInv
  <1>2. CallsTyped'
    BY <1>1 DEF AuthTyped, AuthMore, CallsTyped
  <1>3. AuthDone' = AuthDone
    BY <1>1 DEF AuthDone
  <1> QED
    BY <1>2, <1>3, DoneCount

LEMMA TypedFacts ==
    ASSUME AuthAssumption, AuthTyped
    PROVE  /\ v2 \subseteq Addresses /\ v3 \subseteq Addresses /\ v15 \subseteq Addresses
           /\ v1 \subseteq Addresses
           /\ v7 \in Auth!Pages /\ v10 \in {"email", "code"} /\ v11 \in BOOLEAN
           /\ v12 \in Auth!Notice /\ CallsTyped /\ v9 \in Auth!Texts
           /\ v7 = "verify" => v9 \in Addresses \cup {BlankInput}
           /\ Cardinality(AuthDone) >= Cardinality(AuthDone) /\ Cardinality(AuthDone) \in Nat
           /\ v5 \in [Auth!CallIds -> AuthCall] /\ v8 \in Nat
           /\ Addresses \subseteq Auth!Texts /\ BlankInput \in Auth!Texts
           /\ BlankInput \notin Addresses /\ Phone \notin Addresses
           /\ Auth!Silent \in Auth!Notice
           /\ \A a \in {"nothing", "verified", "reset", "registered", "resent"}, e \in Auth!Texts :
                Auth!Say(a, e) \in Auth!Notice
  <1>1. Cardinality(AuthDone) >= Cardinality(AuthDone) /\ Cardinality(AuthDone) \in Nat
    BY DoneCount
  <1>2. /\ Addresses \subseteq Auth!Texts /\ BlankInput \in Auth!Texts
        /\ BlankInput \notin Addresses /\ Phone \notin Addresses
    BY DEF Auth!Texts, AuthAssumption, Auth!TextAssumption
  <1>3. \A a \in {"nothing", "verified", "reset", "registered", "resent"}, e \in Auth!Texts :
          Auth!Say(a, e) \in Auth!Notice
    BY DEF Auth!Say, Auth!Notice
  <1>4. Auth!Silent \in Auth!Notice
    BY <1>2, <1>3 DEF Auth!Silent
  <1> QED
    BY <1>1, <1>2, <1>3, <1>4 DEF AuthTyped, AuthInv, CallsInv, AgeInv, AuthMore, PageTyped

LEMMA PlacesTyped ==
    ASSUME AuthAssumption, AuthTyped,
           (\E p \in Auth!Pages : Auth!Go(p)) \/ Auth!Registered
    PROVE  AuthMore'
  <1>1. v5' = v5 /\ v2' = v2 /\ v3' = v3 /\ v8 < Visits
    BY DEF Auth!Go, Auth!Registered, Auth!server
  <1>2. CallsTyped' /\ AuthDone' = AuthDone
    BY <1>1, TypedFacts DEF CallsTyped, AuthDone
  <1>3. v8 + 1 <= Visits + Cardinality(AuthDone')
    BY <1>1, <1>2, DoneCount, TypedFacts DEF AuthAssumption, Auth!BoundAssumption
  <1>4. ASSUME NEW p \in Auth!Pages, Auth!Go(p) PROVE AuthMore'
    <2>1. Auth!Mount(p, BlankInput, Auth!Silent)
      BY <1>4 DEF Auth!Go
    <2> QED
      BY <1>1, <1>2, <1>3, <2>1, TypedFacts, MountTyped
  <1>5. CASE Auth!Registered
    <2>1. \/ \E e \in Addresses : Auth!Mount("verify", e, Auth!Silent)
          \/ Auth!Mount("login", BlankInput, Auth!Say("registered", BlankInput))
      BY <1>5 DEF Auth!Registered
    <2>2. "verify" \in Auth!Pages /\ "login" \in Auth!Pages
      BY DEF Auth!Pages
    <2>3. ASSUME NEW e \in Addresses, Auth!Mount("verify", e, Auth!Silent) PROVE AuthMore'
      BY <1>1, <1>2, <1>3, <2>2, <2>3, TypedFacts, MountTyped
    <2>4. ASSUME Auth!Mount("login", BlankInput, Auth!Say("registered", BlankInput)) PROVE AuthMore'
      <3>1. Auth!Say("registered", BlankInput) \in Auth!Notice
        BY TypedFacts
      <3> QED
        BY <1>1, <1>2, <1>3, <2>2, <2>4, <3>1, TypedFacts, MountTyped
    <2> QED
      BY <2>1, <2>3, <2>4
  <1> QED
    BY <1>4, <1>5

LEMMA QuietTyped ==
    ASSUME AuthAssumption, AuthTyped, (\E e \in Auth!Texts : Auth!Type(e)) \/ Auth!Tick
    PROVE  AuthMore'
  <1>1. /\ UNCHANGED <<v2, v3, v5, v7, v8, v10, v12, v15>>
        /\ v7 = "verify" => v9' \in Addresses \cup {BlankInput}
    <2>1. ASSUME NEW e \in Auth!Texts, Auth!Type(e), v7 = "verify"
          PROVE  e \in Addresses \cup {BlankInput}
      <3>1. e # Phone
        BY <2>1 DEF Auth!Type
      <3> QED
        BY <3>1 DEF Auth!Texts
    <2> QED
      BY <2>1, TypedFacts DEF Auth!Type, Auth!Tick, Auth!server
  <1>2. v11' \in BOOLEAN
    <2>1. v11' = v11 \/ \E e \in Auth!Texts : Auth!Type(e)
      BY DEF Auth!Tick
    <2>2. ASSUME NEW e \in Auth!Texts, Auth!Type(e) PROVE v11' \in BOOLEAN
      BY <2>2 DEF Auth!Type
    <2> QED
      BY <2>1, <2>2, TypedFacts
  <1>3. CallsTyped' /\ AuthDone' = AuthDone
    BY <1>1, TypedFacts DEF CallsTyped, AuthDone
  <1> QED
    BY <1>1, <1>2, <1>3, TypedFacts, StayTyped

LEMMA PostTyped ==
    ASSUME AuthAssumption, AuthTyped, NEW kind \in Auth!Kinds, Auth!Post(kind),
           kind = "resend" => v9 \in Addresses
    PROVE  /\ CallsTyped' /\ Cardinality(AuthDone') >= Cardinality(AuthDone)
           /\ Cardinality(AuthDone') \in Nat
  <1> DEFINE new == [kind |-> kind, state |-> "sent", email |-> v9, visit |-> v8,
                     again |-> v9 \in v15 \cap v1, mailed |-> FALSE]
  <1>1. v6 + 1 \in Auth!CallIds /\ v5' = [v5 EXCEPT ![v6 + 1] = new]
    BY DEF Auth!Post, AuthTyped, AuthInv, CallsInv, Auth!CallIds, AuthAssumption,
       Auth!BoundAssumption
  <1>2. v5[v6 + 1].state = "none"
    <2>1. v6 \in Nat
      BY DEF AuthTyped, AuthInv, CallsInv
    <2>2. v6 + 1 > v6
      BY <2>1
    <2> QED
      BY <1>1, <2>2 DEF AuthTyped, AuthInv, CallsInv, Auth!NoCall
  <1>3. new.state = "sent" /\ new.kind = kind /\ new.email = v9
    OBVIOUS
  <1> HIDE DEF new
  <1> QED
    BY <1>1, <1>2, <1>3, CallTyped

LEMMA SubmitTyped ==
    ASSUME AuthAssumption, AuthTyped, NEW kind \in Auth!Kinds, NEW other \in BOOLEAN,
           Auth!Submit(kind, other), kind = "resend" => v7 = "verify"
    PROVE  AuthMore'
  <1>1. UNCHANGED <<v2, v3, v7, v8, v9, v10, v15>>
    BY DEF Auth!Submit, Auth!server
  <1>2. v12' \in Auth!Notice /\ v11' \in BOOLEAN
    BY TypedFacts DEF Auth!Submit, Auth!Accepted, Auth!Rejected
  <1>3. CASE Auth!Accepted(kind)
    <2>1. Auth!Post(kind) /\ v9 # BlankInput
      BY <1>3 DEF Auth!Accepted
    <2>2. kind = "resend" => v9 \in Addresses
      BY <2>1, TypedFacts
    <2> QED
      BY <1>1, <1>2, <2>1, <2>2, PostTyped, StayTyped, TypedFacts
  <1>4. CASE Auth!Rejected
    <2>1. CallsTyped' /\ AuthDone' = AuthDone
      BY <1>4, TypedFacts DEF CallsTyped, AuthDone, Auth!Rejected
    <2> QED
      BY <1>1, <1>2, <2>1, StayTyped, TypedFacts
  <1> QED
    BY <1>3, <1>4 DEF Auth!Submit

LEMMA FormsTyped ==
    ASSUME AuthAssumption, AuthTyped,
           \/ Auth!Login \/ Auth!Verify \/ Auth!Resend \/ Auth!RequestStep \/ Auth!ConfirmStep
           \/ Auth!GoogleSignIn
    PROVE  AuthMore'
  <1>1. {"login", "google", "verify", "resend", "request", "confirm"} = Auth!Kinds
    BY DEF Auth!Kinds
  <1>2. CASE Auth!GoogleSignIn
    <2>1. Auth!Post("google") /\ UNCHANGED <<v2, v3, v7, v8, v9, v10, v11, v12, v15>>
      BY <1>2 DEF Auth!GoogleSignIn, Auth!server, Auth!ui
    <2>2. /\ CallsTyped' /\ Cardinality(AuthDone') >= Cardinality(AuthDone)
          /\ Cardinality(AuthDone') \in Nat
      BY <1>1, <2>1, PostTyped
    <2> QED
      BY <2>1, <2>2, StayTyped, TypedFacts
  <1>3. ASSUME NEW kind \in Auth!Kinds, NEW other \in BOOLEAN, Auth!Submit(kind, other),
               kind = "resend" => v7 = "verify"
        PROVE  AuthMore'
    BY <1>3, SubmitTyped
  <1> QED
    BY <1>1, <1>2, <1>3 DEF Auth!Login, Auth!Verify, Auth!Resend, Auth!RequestStep,
       Auth!ConfirmStep

LEMMA ServeTyped ==
    ASSUME AuthAssumption, AuthTyped, NEW c \in Auth!CallIds, Auth!Serve(c)
    PROVE  AuthMore'
  <1>1. v5[c] \in AuthCall /\ v5[c].state = "sent"
        /\ UNCHANGED <<v7, v8, v9, v10, v11, v12, v15>>
    BY TypedFacts DEF Auth!Serve, Auth!ui
  <1>2. v2' \subseteq Addresses /\ v3' \subseteq Addresses
    <2>1. \/ v2' = v2 /\ v3' = v3
          \/ /\ v5[c].kind \in {"verify", "confirm"} => v5[c].email \in v1
             /\ v2' = IF v5[c].kind \in {"verify", "confirm"} THEN v2 \cup {v5[c].email} ELSE v2
             /\ v3' = IF v5[c].kind = "confirm" THEN v3 \cup {v5[c].email} ELSE v3
      BY DEF Auth!Serve, Auth!server
    <2> QED
      BY <2>1, TypedFacts
  <1>3. PICK new \in AuthCall :
          /\ v5' = [v5 EXCEPT ![c] = new] /\ new.state # "done" /\ new.kind = v5[c].kind
          /\ new.email = v5[c].email
          /\ new.state = "unverified" => v5[c].email \in v1
    <2>1. CASE v5' = [v5 EXCEPT ![c].state = "failed"]
      <3> DEFINE new == [v5[c] EXCEPT !.state = "failed"]
      <3>1. /\ v5' = [v5 EXCEPT ![c] = new] /\ new \in AuthCall /\ new.state = "failed"
            /\ new.kind = v5[c].kind /\ new.email = v5[c].email
        BY <1>1, <2>1 DEF AuthCall
      <3> QED
        BY <3>1
    <2>2. CASE v5[c].email \in v1 /\ v5' = [v5 EXCEPT ![c].state = "unverified"]
      <3> DEFINE new == [v5[c] EXCEPT !.state = "unverified"]
      <3>1. /\ v5' = [v5 EXCEPT ![c] = new] /\ new \in AuthCall
            /\ new.kind = v5[c].kind /\ new.email = v5[c].email /\ new.state = "unverified"
        BY <1>1, <2>2 DEF AuthCall
      <3> QED
        BY <2>2, <3>1
    <2>3. ASSUME NEW m \in BOOLEAN, v5' = [v5 EXCEPT ![c].state = "ok", ![c].mailed = m]
          PROVE  \E new \in AuthCall :
                   /\ v5' = [v5 EXCEPT ![c] = new] /\ new.state # "done"
                   /\ new.kind = v5[c].kind /\ new.email = v5[c].email
                   /\ new.state = "unverified" => v5[c].email \in v1
      <3> DEFINE old == [v5[c] EXCEPT !.state = "ok"]
                 new == [old EXCEPT !.mailed = m]
      <3>1. v5' = [v5 EXCEPT ![c] = new]
        BY <2>3
      <3>2. old \in AuthCall /\ old.kind = v5[c].kind /\ old.email = v5[c].email
            /\ old.state = "ok"
        BY <1>1 DEF AuthCall
      <3> HIDE DEF old
      <3>3. new \in AuthCall /\ new.kind = v5[c].kind /\ new.email = v5[c].email
            /\ new.state = "ok"
        BY <3>2 DEF AuthCall
      <3> HIDE DEF new
      <3> QED
        BY <3>1, <3>3
    <2>4. \/ v5' = [v5 EXCEPT ![c].state = "failed"]
          \/ v5[c].email \in v1 /\ v5' = [v5 EXCEPT ![c].state = "unverified"]
          \/ \E m \in BOOLEAN : v5' = [v5 EXCEPT ![c].state = "ok", ![c].mailed = m]
      BY DEF Auth!Serve
    <2> QED
      BY <2>1, <2>2, <2>3, <2>4
  <1>4. v5[c].kind = "resend" => v5[c].email \in Addresses
    BY TypedFacts DEF CallsTyped
  <1>5. /\ CallsTyped' /\ Cardinality(AuthDone') >= Cardinality(AuthDone)
        /\ Cardinality(AuthDone') \in Nat
    BY <1>1, <1>3, <1>4, CallTyped, TypedFacts
  <1> QED
    BY <1>1, <1>2, <1>5, StayTyped, TypedFacts

LEMMA AnswerTyped ==
    ASSUME AuthAssumption, AuthTyped, NEW c \in Auth!CallIds, Auth!Answer(c)
    PROVE  AuthMore'
  <1>1. v5[c].state \in {"ok", "unverified", "failed"} /\ Auth!Close(c)
    BY DEF Auth!Answer, Auth!Fails, Auth!SignedIn, Auth!Confirmed, Auth!Resent, Auth!Requested
  <1>2. /\ UNCHANGED <<v1, v2, v3, v4, v6>> /\ CallsTyped'
        /\ Cardinality(AuthDone') = Cardinality(AuthDone) + 1
        /\ Cardinality(AuthDone') \in Nat
    BY <1>1, CloseTyped
  <1>3. Cardinality(AuthDone') >= Cardinality(AuthDone)
    BY <1>2, DoneCount
  <1>4. v8 + 1 <= Visits + Cardinality(AuthDone')
    <2>1. v8 \in Nat /\ Visits \in Nat /\ v8 <= Visits + Cardinality(AuthDone)
      BY DEF AuthTyped, AuthInv, CallsInv, AuthMore, AuthAssumption, Auth!BoundAssumption
    <2> QED
      BY <1>2, <2>1, DoneCount
  <1>5. v5[c] \in AuthCall /\ v5[c].email \in Auth!Texts
    BY TypedFacts DEF AuthCall
  <1>6. /\ v5[c].state = "unverified" => v5[c].email \in Addresses
        /\ v5[c].kind = "resend" => v5[c].email \in Addresses
    BY TypedFacts DEF CallsTyped
  <1>7. ASSUME NEW p \in Auth!Pages, NEW e \in Auth!Texts, NEW n \in Auth!Notice,
               Auth!Mount(p, e, n), p = "verify" => e \in Addresses \cup {BlankInput}
        PROVE  AuthMore'
    BY <1>2, <1>4, <1>7, MountTyped, TypedFacts
  <1>8. ASSUME UNCHANGED <<v7, v8, v9>>, v15' \subseteq Addresses, v10' \in {"email", "code"},
               v11' \in BOOLEAN, v12' \in Auth!Notice
        PROVE  AuthMore'
    BY <1>2, <1>3, <1>8, StayTyped, TypedFacts
  <1>9. CASE UNCHANGED Auth!ui
    BY <1>8, <1>9, TypedFacts DEF Auth!ui
  <1>10. CASE Auth!Fails(c)
    <2>1. UNCHANGED <<v7, v8, v9, v10, v12, v15>>
      BY <1>10 DEF Auth!Fails, Auth!ui, Auth!Settle
    <2>2. v11' \in BOOLEAN
      BY <1>10, TypedFacts DEF Auth!Fails, Auth!ui, Auth!Settle
    <2> QED
      BY <1>8, <2>1, <2>2, TypedFacts
  <1>11. CASE Auth!SignedIn(c)
    <2>1. \/ UNCHANGED Auth!ui
          \/ Auth!Mount("home", BlankInput, Auth!Silent)
          \/ v5[c].state = "unverified" /\ Auth!Mount("verify", v5[c].email, Auth!Silent)
      BY <1>11 DEF Auth!SignedIn, Auth!Navigate
    <2>2. "home" \in Auth!Pages /\ "verify" \in Auth!Pages
      BY DEF Auth!Pages
    <2> QED
      BY <1>5, <1>6, <1>7, <1>9, <2>1, <2>2, TypedFacts
  <1>12. CASE Auth!Confirmed(c)
    <2>1. \/ UNCHANGED Auth!ui
          \/ \E a \in {"verified", "reset"} :
               Auth!Mount("login", v5[c].email, Auth!Say(a, v5[c].email))
      BY <1>12 DEF Auth!Confirmed, Auth!AnsweredEmail
    <2>2. "login" \in Auth!Pages
      BY DEF Auth!Pages
    <2>3. \A a \in {"verified", "reset"} : Auth!Say(a, v5[c].email) \in Auth!Notice
      BY <1>5, TypedFacts
    <2> QED
      BY <1>5, <1>7, <1>9, <2>1, <2>2, <2>3
  <1>13. CASE Auth!Resent(c)
    <2>1. \/ UNCHANGED Auth!ui
          \/ /\ v12' = Auth!Say("resent", v5[c].email) /\ v15' = v15 \cup {v5[c].email}
             /\ UNCHANGED <<v7, v8, v9, v10, v11>>
      BY <1>13 DEF Auth!Resent
    <2>2. v5[c].email \in Addresses /\ Auth!Say("resent", v5[c].email) \in Auth!Notice
      BY <1>5, <1>6, <1>13, TypedFacts DEF Auth!Resent
    <2> QED
      BY <1>8, <1>9, <2>1, <2>2, TypedFacts
  <1>14. CASE Auth!Requested(c)
    <2>1. UNCHANGED <<v7, v8, v9, v11, v12, v15>> /\ v10' \in {v10, "code"}
      BY <1>14 DEF Auth!Requested
    <2> QED
      BY <1>8, <2>1, TypedFacts
  <1> QED
    BY <1>10, <1>11, <1>12, <1>13, <1>14 DEF Auth!Answer

LEMMA AuthTypedStep == ASSUME AuthAssumption, AuthTyped, Auth!Next PROVE AuthTyped'
  <1>1. AuthInv'
    BY AuthStep DEF AuthTyped
  <1> QED
    BY <1>1, PlacesTyped, QuietTyped, FormsTyped, ServeTyped, AnswerTyped DEF Auth!Next, AuthTyped

LEMMA AuthTypedStays == ASSUME AuthTyped, UNCHANGED vars PROVE AuthTyped'
  <1>1. AuthInv'
    BY AuthStays DEF AuthTyped
  <1>2. AuthMore'
    BY DEF vars, AuthTyped, AuthMore, CallsTyped, PageTyped, AuthDone
  <1> QED
    BY <1>1, <1>2 DEF AuthTyped

-----------------------------------------------------------------------------
(* The application form *)

EditCall ==
    [state : {"none", "sent", "ok", "failed", "done"}, to : Apps \cup {New},
     of : Editor!Origins, mount : Nat, early : BOOLEAN, warned : BOOLEAN]

(* Whose data a form, or what was made of it, has.                         *)
OfItsOwn(to, of, warned, early) == to \in Apps => of = to \/ warned \/ early

(* What is read for the address in front of the user is its application.   *)
ReadIsOfAddress ==
    \A n \in Editor!LoadIds :
        n = v16 /\ v3 # Away /\ v8[n].state # "none" => v8[n].app = v3 /\ v3 \in Apps

(* ApplicationFormPage: the form is not there before the application it is *)
(* for has been read, or the page has said that it could not be, unless    *)
(* the address changed under it; a message is under a field of the data it *)
(* was about.                                                              *)
EditorInv ==
    /\ v3 \in Editor!Routes /\ v4 \in Nat /\ v9 \in Editor!Origins
    /\ v5 \in BOOLEAN /\ v6 \in BOOLEAN
    /\ v7 \in BOOLEAN
    /\ v10 \in [Editor!Fields -> BOOLEAN]
    /\ v11 \subseteq Editor!Fields
    /\ v14 \in [Editor!CallIds -> EditCall]
    /\ v15 \in Nat
    /\ v16 \in Nat /\ v8 \in [Editor!LoadIds -> Editor!Load]
    /\ ReadIsOfAddress
    /\ ~v5 /\ v3 # Away /\ Editor!Reading => v7
    /\ ~v5 /\ v7 => v11 = {}
    /\ ~v7 => OfItsOwn(v3, v9, v6, v5 /\ Editor!Reading)
    /\ \A c \in Editor!CallIds : OfItsOwn(v14[c].to, v14[c].of, v14[c].warned, v14[c].early)
    /\ Editor!UpdateIsOfLoaded
    /\ Editor!ErrorsAreTrue

LEMMA EditorInit == ASSUME Editor!NamesAssumption, Editor!Init PROVE EditorInv
  <1>1. /\ v2 = {} /\ v3 = Away /\ v4 = 0 /\ v9 = Profile /\ v16 = 0
        /\ v10 = [f \in Editor!Fields |-> FALSE] /\ v11 = {} /\ v15 = 0
        /\ v14 = [c \in Editor!CallIds |-> Editor!NoCall]
        /\ v8 = [n \in Editor!LoadIds |-> Editor!NoLoad]
    BY DEF Editor!Init
  <1>2. v5 = FALSE /\ v6 = FALSE /\ v7 = FALSE
    BY DEF Editor!Init
  <1>3. Away \in Editor!Routes /\ Away \notin Apps /\ New \notin Apps /\ Profile \in Editor!Origins
    BY DEF Editor!NamesAssumption, Editor!Routes, Editor!Origins
  <1>4. Editor!NoCall \in EditCall /\ Editor!NoCall.to = New
    BY <1>3 DEF Editor!NoCall, EditCall
  <1>5. \A c \in Editor!CallIds : v14[c] = Editor!NoCall
    BY <1>1
  <1>6. v14 \in [Editor!CallIds -> EditCall]
    BY <1>1, <1>4
  <1>7. \A c \in Editor!CallIds : OfItsOwn(v14[c].to, v14[c].of, v14[c].warned, v14[c].early)
    BY <1>3, <1>4, <1>5 DEF OfItsOwn
  <1>8. Editor!UpdateIsOfLoaded /\ Editor!ErrorsAreTrue
    BY <1>1 DEF Editor!UpdateIsOfLoaded, Editor!ErrorsAreTrue, Editor!Marked
  <1>9. OfItsOwn(v3, v9, v6, v5 /\ Editor!Reading)
    BY <1>1, <1>3 DEF OfItsOwn
  <1>10. v4 \in Nat /\ v15 \in Nat /\ v16 \in Nat
    BY <1>1
  <1>11. v8 \in [Editor!LoadIds -> Editor!Load] /\ ReadIsOfAddress
    BY <1>1 DEF Editor!Load, Editor!NoLoad, ReadIsOfAddress
  <1> QED
    BY <1>1, <1>2, <1>3, <1>6, <1>7, <1>8, <1>9, <1>10, <1>11 DEF EditorInv

(* The effect's new run: it reads the application of the address, if any.  *)
LEMMA ReadKeeps ==
    ASSUME Editor!NamesAssumption, EditorInv, NEW r \in Editor!Routes, r # Away,
           Editor!Read(r), v16' = v16 + 1, v3' = r
    PROVE  /\ v16' \in Nat /\ v8' \in [Editor!LoadIds -> Editor!Load]
           /\ ReadIsOfAddress'
           /\ Editor!Reading' => v3' \in Apps
  <1>1. v16 \in Nat /\ v8 \in [Editor!LoadIds -> Editor!Load]
    BY DEF EditorInv
  <1> DEFINE new == IF r = New THEN Editor!NoLoad ELSE [state |-> "sent", app |-> r]
  <1>2. /\ new \in Editor!Load
        /\ new.state # "none" => new.app = r /\ r \in Apps
    BY DEF Editor!Load, Editor!NoLoad, Editor!Routes
  <1>3. v8' = [v8 EXCEPT ![v16 + 1] = new]
    BY DEF Editor!Read
  <1> HIDE DEF new
  <1>4. v8' \in [Editor!LoadIds -> Editor!Load] /\ v16' \in Nat
    <2>1. ASSUME NEW n, NEW l \in Editor!Load, v8' = [v8 EXCEPT ![n] = l]
          PROVE  v8' \in [Editor!LoadIds -> Editor!Load]
      BY <1>1, <2>1
    <2>2. v16' \in Nat
      BY <1>1
    <2> QED
      BY <1>2, <1>3, <2>1, <2>2
  <1>5. \A n \in Editor!LoadIds : n = v16' => v8'[n] = new
    BY <1>1, <1>3
  <1>6. ReadIsOfAddress'
    BY <1>2, <1>5 DEF ReadIsOfAddress
  <1>7. Editor!Reading' => v3' \in Apps
    BY <1>2, <1>5 DEF Editor!Reading
  <1> QED
    BY <1>4, <1>6, <1>7

(* A page that opens, or closes: it has no messages.                       *)
LEMMA CleanKeeps ==
    ASSUME EditorInv, UNCHANGED v2,
           v3' \in Editor!Routes, v4' \in Nat, v9' \in Editor!Origins, v5' \in BOOLEAN,
           v6' \in BOOLEAN, v7' \in BOOLEAN, v10' \in [Editor!Fields -> BOOLEAN], v11' = {},
           v16' \in Nat, v8' \in [Editor!LoadIds -> Editor!Load], ReadIsOfAddress',
           v3' # Away /\ Editor!Reading' => v7', ~v7' => v3' \notin Apps,
           v14' \in [Editor!CallIds -> EditCall], v15' \in Nat,
           \A c \in Editor!CallIds :
             OfItsOwn(v14'[c].to, v14'[c].of, v14'[c].warned, v14'[c].early)
    PROVE  EditorInv'
  <1>1. Editor!UpdateIsOfLoaded' /\ Editor!ErrorsAreTrue'
    BY DEF EditorInv, Editor!UpdateIsOfLoaded, Editor!ErrorsAreTrue, Editor!Marked
  <1>2. ~v7' => OfItsOwn(v3', v9', v6', v5' /\ Editor!Reading')
    BY DEF OfItsOwn
  <1> QED
    BY <1>1, <1>2 DEF EditorInv

LEMMA OpenKeepsForm ==
    ASSUME Editor!NamesAssumption, EditorInv, NEW r \in Editor!Routes, Editor!Open(r)
    PROVE  EditorInv'
  <1>1. /\ v3' = r /\ r # Away /\ v4' = v4 + 1 /\ v9' = Profile
        /\ v10' \in [Editor!Fields -> BOOLEAN] /\ v11' = {}
        /\ Editor!Read(r) /\ v16' = v16 + 1 /\ UNCHANGED <<v2, v14, v15>>
    BY DEF Editor!Open, Editor!server
  <1>2. v5' = FALSE /\ v6' = FALSE /\ v7' = (r # New)
    BY DEF Editor!Open
  <1>3. v4' \in Nat
    BY <1>1 DEF EditorInv
  <1>4. v5' \in BOOLEAN /\ v6' \in BOOLEAN /\ v7' \in BOOLEAN
    BY <1>2
  <1>5. (v3' \in Apps <=> v7') /\ v9' \in Editor!Origins
    BY <1>1, <1>2 DEF Editor!NamesAssumption, Editor!Origins, Editor!Routes
  <1>6. /\ v16' \in Nat /\ v8' \in [Editor!LoadIds -> Editor!Load] /\ ReadIsOfAddress'
        /\ Editor!Reading' => v7'
    BY <1>1, <1>5, ReadKeeps
  <1> QED
    BY <1>1, <1>3, <1>4, <1>5, <1>6, CleanKeeps DEF EditorInv

LEMMA UnmountKeeps ==
    ASSUME Editor!NamesAssumption, EditorInv, Editor!Unmount, UNCHANGED <<v2, v15, v16>>,
           v14' \in [Editor!CallIds -> EditCall],
           \A c \in Editor!CallIds :
             OfItsOwn(v14'[c].to, v14'[c].of, v14'[c].warned, v14'[c].early)
    PROVE  EditorInv'
  <1>1. v3' = Away /\ v11' = {} /\ UNCHANGED <<v4, v5, v6, v8, v9, v10>>
    BY DEF Editor!Unmount
  <1>2. v7' = FALSE
    BY DEF Editor!Unmount
  <1>3. v5' \in BOOLEAN /\ v6' \in BOOLEAN /\ v7' \in BOOLEAN
    BY <1>1, <1>2 DEF EditorInv
  <1>4. v3' \notin Apps /\ v3' \in Editor!Routes
    BY <1>1 DEF Editor!NamesAssumption, Editor!Routes
  <1>5. v4' \in Nat /\ v9' \in Editor!Origins /\ v10' \in [Editor!Fields -> BOOLEAN] /\ v15' \in Nat
    BY <1>1 DEF EditorInv
  <1>6. v16' \in Nat /\ v8' \in [Editor!LoadIds -> Editor!Load] /\ ReadIsOfAddress'
    BY <1>1 DEF EditorInv, ReadIsOfAddress
  <1> QED
    BY <1>1, <1>3, <1>4, <1>5, <1>6, CleanKeeps

LEMMA MoveKeeps ==
    ASSUME Editor!NamesAssumption, Editor!BoundAssumption, EditorInv,
           NEW r \in Editor!Routes, Editor!Move(r)
    PROVE  EditorInv'
  <1>1. /\ v3' = r /\ r # Away /\ UNCHANGED <<v2, v4, v7, v9, v10, v11, v14, v15>>
        /\ Editor!Read(r) /\ v16' = v16 + 1
    BY DEF Editor!Move, Editor!server, Editor!fields
  <1>2. v5' = TRUE /\ v6' = FALSE
    BY DEF Editor!Move
  <1>3. v5' \in BOOLEAN /\ v6' \in BOOLEAN
    BY <1>2
  <1>4. /\ v16' \in Nat /\ v8' \in [Editor!LoadIds -> Editor!Load] /\ ReadIsOfAddress'
    BY <1>1, ReadKeeps
  <1>5. v3' \in Apps => Editor!Reading'
    <2>1. v16 \in Nat /\ v16 < Turns /\ v8 \in [Editor!LoadIds -> Editor!Load]
      BY DEF EditorInv, Editor!Move
    <2>2. ASSUME r \in Apps
          PROVE  v8' = [v8 EXCEPT ![v16 + 1] = [state |-> "sent", app |-> r]]
      BY <1>1, <2>2 DEF Editor!Read, Editor!NamesAssumption
    <2>3. v16 + 1 \in Editor!LoadIds
      BY <2>1 DEF Editor!LoadIds, Editor!BoundAssumption
    <2> QED
      BY <1>1, <2>1, <2>2, <2>3 DEF Editor!Reading
  <1>6. Editor!UpdateIsOfLoaded' /\ Editor!ErrorsAreTrue'
    BY <1>1, <1>2 DEF EditorInv, Editor!UpdateIsOfLoaded, Editor!ErrorsAreTrue
  <1>7. OfItsOwn(v3', v9', v6', v5' /\ Editor!Reading')
    BY <1>2, <1>5 DEF OfItsOwn
  <1> QED
    BY <1>1, <1>2, <1>3, <1>4, <1>6, <1>7 DEF EditorInv

(* The page stays, its form and its messages change.                       *)
LEMMA FormKeeps ==
    ASSUME EditorInv, UNCHANGED <<v2, v3, v4, v5, v6, v7, v8, v9, v14, v15, v16>>,
           v10' \in [Editor!Fields -> BOOLEAN], v11' \subseteq Editor!Fields,
           ~v7, \A f \in v11' : ~v10'[f] \/ (f \in v11 /\ v10'[f] = v10[f])
    PROVE  EditorInv'
  <1>1. Editor!UpdateIsOfLoaded' /\ Editor!ErrorsAreTrue'
    BY DEF EditorInv, Editor!UpdateIsOfLoaded, Editor!ErrorsAreTrue, Editor!Marked
  <1> QED
    BY <1>1 DEF EditorInv, OfItsOwn, ReadIsOfAddress, Editor!Reading

LEMMA TypeKeepsForm ==
    ASSUME EditorInv, NEW f \in Editor!Fields, NEW ok \in BOOLEAN, Editor!Type(f, ok)
    PROVE  EditorInv'
  <1>1. /\ UNCHANGED <<v2, v3, v4, v5, v6, v7, v8, v9, v14, v15, v16>>
        /\ v10' = [v10 EXCEPT ![f] = ok] /\ v11' = v11 \ {f} /\ ~v7
    BY DEF Editor!Type, Editor!FormShown, Editor!server, Editor!place, Editor!bounds
  <1>2. /\ v10' \in [Editor!Fields -> BOOLEAN] /\ v11' \subseteq Editor!Fields
        /\ \A g \in v11' : g \in v11 /\ v10'[g] = v10[g]
    BY <1>1 DEF EditorInv
  <1> QED
    BY <1>1, <1>2, FormKeeps

LEMMA BlurKeepsForm ==
    ASSUME EditorInv, NEW f \in Editor!Fields, Editor!Blur(f)
    PROVE  EditorInv'
  <1>1. /\ UNCHANGED <<v2, v3, v4, v5, v6, v7, v8, v9, v10, v14, v15, v16>>
        /\ v11' = (IF v10[f] THEN v11 \ {f} ELSE v11 \cup {f}) /\ ~v7
    BY DEF Editor!Blur, Editor!FormShown, Editor!server, Editor!place, Editor!bounds
  <1>2. /\ v10' \in [Editor!Fields -> BOOLEAN] /\ v11' \subseteq Editor!Fields
        /\ \A g \in v11' : ~v10'[g] \/ (g \in v11 /\ v10'[g] = v10[g])
    BY <1>1 DEF EditorInv
  <1> QED
    BY <1>1, <1>2, FormKeeps

LEMMA SubmitKeepsForm ==
    ASSUME Editor!NamesAssumption, EditorInv, Editor!Submit PROVE EditorInv'
  <1> DEFINE early == v5 /\ Editor!Reading
  <1> DEFINE new == [state |-> "sent", to |-> v3, of |-> v9, mount |-> v4, early |-> early,
                     warned |-> v6]
  <1>1. /\ UNCHANGED <<v2, v3, v4, v5, v6, v7, v8, v9, v10, v16>> /\ ~v7 /\ v3 # Away
        /\ \/ v11' = Editor!Invalid /\ UNCHANGED <<v14, v15>>
           \/ v15' = v15 + 1 /\ v11' = v11 /\ v14' = [v14 EXCEPT ![v15 + 1] = new]
    BY DEF Editor!Submit, Editor!Pressable, Editor!FormShown, Editor!server, Editor!place,
       Editor!bounds
  <1>2. OfItsOwn(v3, v9, v6, early)
    BY <1>1 DEF EditorInv
  <1>3. early \in BOOLEAN
    BY Zenon DEF EditorInv, Editor!Reading
  <1> HIDE DEF early
  <1>4. CASE v11' = Editor!Invalid /\ UNCHANGED <<v14, v15>>
    <2>1. v11' \subseteq Editor!Fields /\ \A f \in v11' : ~v10'[f]
      BY <1>1, <1>4 DEF Editor!Invalid
    <2>2. v10' \in [Editor!Fields -> BOOLEAN]
      BY <1>1 DEF EditorInv
    <2> QED
      BY <1>1, <1>4, <2>1, <2>2, FormKeeps
  <1>5. CASE v15' = v15 + 1 /\ v11' = v11 /\ v14' = [v14 EXCEPT ![v15 + 1] = new]
    <2>1. v3 \in Apps \cup {New}
      BY <1>1 DEF EditorInv, Editor!Routes
    <2>2. new \in EditCall
      BY <1>3, <2>1, Zenon DEF EditCall, EditorInv
    <2>3. OfItsOwn(new.to, new.of, new.warned, new.early)
      <3>1. new.to = v3 /\ new.of = v9 /\ new.warned = v6 /\ new.early = early
        BY Zenon
      <3> QED
        BY <1>2, <3>1, Zenon
    <2> HIDE DEF new
    <2>4. v14' \in [Editor!CallIds -> EditCall] /\ \A c \in Editor!CallIds : v14'[c] \in {v14[c], new}
      BY <1>5, <2>2 DEF EditorInv
    <2>5. \A c \in Editor!CallIds :
            OfItsOwn(v14'[c].to, v14'[c].of, v14'[c].warned, v14'[c].early)
      BY <2>3, <2>4 DEF EditorInv
    <2>6. v15' \in Nat
      BY <1>5 DEF EditorInv
    <2>7. Editor!UpdateIsOfLoaded' /\ Editor!ErrorsAreTrue'
      BY <1>1, <1>5 DEF EditorInv, Editor!UpdateIsOfLoaded, Editor!ErrorsAreTrue, Editor!Marked
    <2> QED
      BY <1>1, <1>5, <2>4, <2>5, <2>6, <2>7 DEF EditorInv, OfItsOwn, ReadIsOfAddress, Editor!Reading
  <1> QED
    BY <1>1, <1>4, <1>5

(* An answer is on its way: which application was asked for stays.         *)
LEMMA LoadKeeps ==
    ASSUME EditorInv, NEW n \in Editor!LoadIds, Editor!ServeLoad(n) PROVE EditorInv'
  <1>1. /\ UNCHANGED <<v2, v3, v4, v5, v6, v7, v9, v10, v11, v14, v15, v16>>
        /\ v8[n].state # "none"
        /\ \E s \in {"ok", "locked", "failed"} : v8' = [v8 EXCEPT ![n].state = s]
    BY DEF Editor!ServeLoad, Editor!server, Editor!place, Editor!fields
  <1>2. v8 \in [Editor!LoadIds -> Editor!Load]
    BY DEF EditorInv
  <1>3. /\ v8' \in [Editor!LoadIds -> Editor!Load]
        /\ \A m \in Editor!LoadIds :
             v8'[m].app = v8[m].app /\ (v8'[m].state # "none" <=> v8[m].state # "none")
    BY <1>1, <1>2 DEF Editor!Load
  <1>4. ReadIsOfAddress' /\ (Editor!Reading' <=> Editor!Reading)
    BY <1>1, <1>3 DEF EditorInv, ReadIsOfAddress, Editor!Reading
  <1>5. Editor!UpdateIsOfLoaded' /\ Editor!ErrorsAreTrue'
    BY <1>1 DEF EditorInv, Editor!UpdateIsOfLoaded, Editor!ErrorsAreTrue, Editor!Marked
  <1> QED
    BY <1>1, <1>3, <1>4, <1>5 DEF EditorInv, OfItsOwn

LEMMA ReceiveKeeps ==
    ASSUME Editor!NamesAssumption, EditorInv, NEW n \in Editor!LoadIds, Editor!ReceiveLoad(n)
    PROVE  EditorInv'
  <1>1. /\ v8[n].state # "none" /\ v8' = [v8 EXCEPT ![n] = Editor!NoLoad]
        /\ UNCHANGED <<v2, v3, v4, v5, v11, v14, v15, v16>>
    BY DEF Editor!ReceiveLoad, Editor!server, Editor!bounds
  <1>2. v8 \in [Editor!LoadIds -> Editor!Load] /\ Editor!NoLoad \in Editor!Load
    BY DEF EditorInv, Editor!Load, Editor!NoLoad
  <1>3. /\ v8' \in [Editor!LoadIds -> Editor!Load]
        /\ v8'[n].state = "none"
        /\ \A m \in Editor!LoadIds : m # n => v8'[m] = v8[m]
    BY <1>1, <1>2 DEF Editor!NoLoad
  <1>4. ReadIsOfAddress'
    BY <1>1, <1>3 DEF EditorInv, ReadIsOfAddress
  <1>5. CASE Editor!Cancelled(n)
    <2>1. UNCHANGED <<v6, v7, v9, v10>>
      BY <1>5 DEF Editor!ReceiveLoad
    <2>2. v3 # Away => (Editor!Reading' <=> Editor!Reading)
      BY <1>1, <1>3, <1>5 DEF Editor!Cancelled, Editor!Reading
    <2>3. v3 = Away => v3 \notin Apps
      BY DEF Editor!NamesAssumption
    <2>4. Editor!UpdateIsOfLoaded' /\ Editor!ErrorsAreTrue'
      BY <1>1, <2>1 DEF EditorInv, Editor!UpdateIsOfLoaded, Editor!ErrorsAreTrue, Editor!Marked
    <2>5. /\ ~v5' /\ v3' # Away /\ Editor!Reading' => v7'
          /\ ~v7' => OfItsOwn(v3', v9', v6', v5' /\ Editor!Reading')
      BY <1>1, <2>1, <2>2, <2>3 DEF EditorInv, OfItsOwn
    <2> QED
      BY <1>1, <1>3, <1>4, <2>1, <2>4, <2>5 DEF EditorInv
  <1>6. CASE ~Editor!Cancelled(n)
    <2>1. n = v16 /\ v3 # Away /\ v8[n].app = v3 /\ v3 \in Apps
      BY <1>1, <1>6 DEF Editor!Cancelled, EditorInv, ReadIsOfAddress
    <2>2. v7' = FALSE
      BY <1>6 DEF Editor!ReceiveLoad, Editor!Loaded
    <2>3. \/ v9' = v8[n].app /\ v10' \in [Editor!Fields -> BOOLEAN] /\ v6' = v6
          \/ v6' = TRUE /\ UNCHANGED <<v9, v10>>
      BY <1>6 DEF Editor!ReceiveLoad
    <2>4. Editor!Reading /\ ~Editor!Reading'
      BY <1>1, <1>3, <2>1 DEF Editor!Reading
    <2>5. ~v5 => v11 = {}
      BY <2>1, <2>4 DEF EditorInv
    <2>6. Editor!ErrorsAreTrue' /\ Editor!UpdateIsOfLoaded'
      BY <1>1, <2>5 DEF EditorInv, Editor!ErrorsAreTrue, Editor!Marked, Editor!UpdateIsOfLoaded
    <2>7. OfItsOwn(v3', v9', v6', v5' /\ Editor!Reading')
      BY <1>1, <2>1, <2>3 DEF OfItsOwn
    <2>8. v6' \in BOOLEAN /\ v7' \in BOOLEAN /\ v10' \in [Editor!Fields -> BOOLEAN]
      BY <2>2, <2>3 DEF EditorInv
    <2>9. v9' \in Editor!Origins
      BY <2>1, <2>3 DEF EditorInv, Editor!Origins
    <2> QED
      BY <1>1, <1>3, <1>4, <2>2, <2>4, <2>5, <2>6, <2>7, <2>8, <2>9 DEF EditorInv
  <1> QED
    BY <1>5, <1>6

(* The saves: what they carry stays.                                       *)
LEMMA SaveState ==
    ASSUME EditorInv, NEW c \in Editor!CallIds, NEW s \in {"ok", "failed", "done"},
           v14' = [v14 EXCEPT ![c].state = s]
    PROVE  /\ v14' \in [Editor!CallIds -> EditCall]
           /\ \A d \in Editor!CallIds :
                OfItsOwn(v14'[d].to, v14'[d].of, v14'[d].warned, v14'[d].early)
  <1>1. v14 \in [Editor!CallIds -> EditCall]
    BY DEF EditorInv
  <1>2. /\ v14' \in [Editor!CallIds -> EditCall]
        /\ \A d \in Editor!CallIds :
             /\ v14'[d].to = v14[d].to /\ v14'[d].of = v14[d].of
             /\ v14'[d].warned = v14[d].warned /\ v14'[d].early = v14[d].early
    BY <1>1 DEF EditCall
  <1> QED
    BY <1>2 DEF EditorInv

LEMMA ServeKeepsForm ==
    ASSUME EditorInv, NEW c \in Editor!CallIds, NEW s \in {"ok", "failed", "done"},
           v14' = [v14 EXCEPT ![c].state = s],
           UNCHANGED <<v3, v4, v5, v6, v7, v8, v9, v10, v11, v15, v16>>,
           v2' \in {v2, v2 \cup {Editor!Write(v14[c])}}
    PROVE  EditorInv'
  <1>1. /\ v14' \in [Editor!CallIds -> EditCall]
        /\ \A d \in Editor!CallIds :
             OfItsOwn(v14'[d].to, v14'[d].of, v14'[d].warned, v14'[d].early)
    BY SaveState
  <1> DEFINE w == Editor!Write(v14[c])
  <1>2. w.to = v14[c].to /\ w.of = v14[c].of /\ w.warned = v14[c].warned /\ w.early = v14[c].early
    BY DEF Editor!Write
  <1>3. w.to \in Apps => w.of = w.to \/ w.warned \/ w.early
    BY <1>2 DEF EditorInv, OfItsOwn
  <1> HIDE DEF w
  <1>4. \A x \in v2' : x \in v2 \/ x = w
    BY DEF w
  <1>5. Editor!UpdateIsOfLoaded'
    BY <1>3, <1>4 DEF EditorInv, Editor!UpdateIsOfLoaded
  <1>6. Editor!ErrorsAreTrue'
    BY DEF EditorInv, Editor!ErrorsAreTrue, Editor!Marked
  <1> QED
    BY <1>1, <1>5, <1>6 DEF EditorInv, OfItsOwn, ReadIsOfAddress, Editor!Reading

LEMMA EditorStep ==
    ASSUME Editor!NamesAssumption, Editor!BoundAssumption, EditorInv, Editor!Next
    PROVE  EditorInv'
  <1>1. ASSUME NEW r \in Editor!Routes, Editor!Open(r) PROVE EditorInv'
    BY <1>1, OpenKeepsForm
  <1>2. ASSUME NEW r \in Editor!Routes, Editor!Move(r) PROVE EditorInv'
    BY <1>2, MoveKeeps
  <1>3. CASE Editor!Leave
    <2>1. UNCHANGED <<v2, v14, v15, v16>> /\ Editor!Unmount
      BY <1>3 DEF Editor!Leave, Editor!server, Editor!bounds
    <2> QED
      BY <2>1, UnmountKeeps DEF EditorInv
  <1>4. ASSUME NEW n \in Editor!LoadIds, Editor!ServeLoad(n) PROVE EditorInv'
    BY <1>4, LoadKeeps
  <1>5. ASSUME NEW n \in Editor!LoadIds, Editor!ReceiveLoad(n) PROVE EditorInv'
    BY <1>5, ReceiveKeeps
  <1>6. ASSUME NEW f \in Editor!Fields, NEW ok \in BOOLEAN, Editor!Type(f, ok) PROVE EditorInv'
    BY <1>6, TypeKeepsForm
  <1>7. ASSUME NEW f \in Given.editor.blurs, Editor!Blur(f) PROVE EditorInv'
    BY <1>7, BlurKeepsForm DEF Editor!Fields
  <1>8. CASE Editor!Submit
    BY <1>8, SubmitKeepsForm
  <1>9. ASSUME NEW c \in Editor!CallIds, Editor!ServeSave(c) PROVE EditorInv'
    BY <1>9, ServeKeepsForm DEF Editor!ServeSave, Editor!place, Editor!fields, Editor!bounds
  <1>10. ASSUME NEW c \in Editor!CallIds, Editor!Saved(c) PROVE EditorInv'
    <2>1. v14' = [v14 EXCEPT ![c].state = "done"] /\ UNCHANGED <<v2, v15, v16>>
      BY <1>10 DEF Editor!Saved, Editor!server, Editor!bounds
    <2>2. CASE UNCHANGED <<v3, v4, v5, v6, v7, v8, v9, v10, v11>>
      BY <2>1, <2>2, ServeKeepsForm
    <2>3. CASE Editor!Unmount
      <3>1. /\ v14' \in [Editor!CallIds -> EditCall]
            /\ \A d \in Editor!CallIds :
                 OfItsOwn(v14'[d].to, v14'[d].of, v14'[d].warned, v14'[d].early)
        BY <2>1, SaveState
      <3> QED
        BY <2>1, <2>3, <3>1, UnmountKeeps
    <2> QED
      BY <1>10, <2>2, <2>3 DEF Editor!Saved, Editor!place, Editor!fields, Editor!bounds
  <1>11. ASSUME NEW c \in Editor!CallIds, Editor!Refused(c) PROVE EditorInv'
    BY <1>11, ServeKeepsForm DEF Editor!Refused, Editor!place, Editor!fields, Editor!server,
       Editor!bounds
  <1>12. ASSUME NEW c \in Editor!CallIds, Editor!LoseSave(c) PROVE EditorInv'
    BY <1>12, ServeKeepsForm DEF Editor!LoseSave, Editor!place, Editor!fields, Editor!server
  <1>13. ASSUME NEW a \in Apps, Editor!Flip(a) PROVE EditorInv'
    <2>1. UNCHANGED <<v2, v3, v4, v5, v6, v7, v8, v9, v10, v11, v14, v15, v16>>
      BY <1>13 DEF Editor!Flip, Editor!place, Editor!fields, Editor!bounds
    <2> QED
      BY <2>1 DEF EditorInv, OfItsOwn, ReadIsOfAddress, Editor!Reading, Editor!UpdateIsOfLoaded,
         Editor!ErrorsAreTrue, Editor!Marked
  <1> QED
    BY <1>1, <1>2, <1>3, <1>4, <1>5, <1>6, <1>7, <1>8, <1>9, <1>10, <1>11, <1>12, <1>13
    DEF Editor!Next, Editor!CallStep

LEMMA EditorStays == ASSUME EditorInv, UNCHANGED vars PROVE EditorInv'
  BY DEF vars, EditorInv, ReadIsOfAddress, Editor!Reading, Editor!UpdateIsOfLoaded,
    Editor!ErrorsAreTrue, Editor!Marked

(* The types of the form: a call is of a mounting that has been.           *)
EditorTyped == Editor!TypeOK /\ v4 <= v16

LEMMA EditorTypedInit ==
    ASSUME Editor!NamesAssumption, Editor!BoundAssumption, Editor!Init
    PROVE  Editor!TypeOK /\ v4 <= v16
  <1>1. /\ v2 = {} /\ v3 = Away /\ v4 = 0 /\ v9 = Profile
        /\ v8 = [n \in Editor!LoadIds |-> Editor!NoLoad]
        /\ v10 = [f \in Editor!Fields |-> FALSE] /\ v11 = {} /\ v15 = 0
        /\ v14 = [c \in Editor!CallIds |-> Editor!NoCall] /\ v16 = 0 /\ v17 = 0
    BY DEF Editor!Init
  <1>2. /\ v5 \in BOOLEAN /\ v6 \in BOOLEAN /\ v7 \in BOOLEAN /\ v12 \in BOOLEAN
        /\ v13 \in BOOLEAN /\ v1 \in [Apps -> BOOLEAN] /\ v10 \in [Editor!Fields -> BOOLEAN]
    BY <1>1, Zenon DEF Editor!Init
  <1>3. Editor!NoCall \in Editor!Call
    BY DEF Editor!NoCall, Editor!Call, Editor!Origins, Editor!BoundAssumption
  <1>4. v14 \in [Editor!CallIds -> Editor!Call]
    BY <1>1, <1>3
  <1>5. /\ v4 \in 0..Turns /\ v15 \in 0..FormSaves /\ v16 \in 0..Turns
        /\ v17 \in 0..Given.editor.faults /\ v4 <= v16
    BY <1>1 DEF Editor!BoundAssumption
  <1>6. /\ v3 \in Editor!Routes /\ v9 \in Editor!Origins /\ v8 \in [Editor!LoadIds -> Editor!Load]
        /\ \A n \in Editor!LoadIds : v8[n].state # "none" => v8[n].app \in Apps
    BY <1>1 DEF Editor!Routes, Editor!Origins, Editor!Load, Editor!NoLoad
  <1> QED
    BY <1>1, <1>2, <1>4, <1>5, <1>6 DEF Editor!TypeOK

LEMMA EditorTypedStep ==
    ASSUME Editor!NamesAssumption, Editor!BoundAssumption, Editor!TypeOK, v4 <= v16, Editor!Next
    PROVE  (Editor!TypeOK /\ v4 <= v16)'
  <1>1. /\ v5 \in BOOLEAN /\ v6 \in BOOLEAN /\ v7 \in BOOLEAN /\ v12 \in BOOLEAN
        /\ v13 \in BOOLEAN /\ v1 \in [Apps -> BOOLEAN]
        /\ v10 \in [Editor!Fields -> BOOLEAN]
    BY DEF Editor!TypeOK
  <1>2. /\ v2 \subseteq Editor!Saves /\ v3 \in Editor!Routes
        /\ v8 \in [Editor!LoadIds -> Editor!Load]
        /\ \A n \in Editor!LoadIds : v8[n].state # "none" => v8[n].app \in Apps
        /\ v9 \in Editor!Origins /\ v11 \subseteq Editor!Fields
    BY DEF Editor!TypeOK
  <1>3. /\ v4 \in 0..Turns /\ v15 \in 0..FormSaves /\ v16 \in 0..Turns
        /\ v17 \in 0..Given.editor.faults /\ v14 \in [Editor!CallIds -> Editor!Call]
        /\ Turns \in Nat /\ FormSaves \in Nat /\ Given.editor.faults \in Nat
    BY DEF Editor!TypeOK, Editor!BoundAssumption
  <1>4. /\ v5' \in BOOLEAN /\ v6' \in BOOLEAN /\ v7' \in BOOLEAN /\ v12' \in BOOLEAN
        /\ v13' \in BOOLEAN
    BY <1>1, Zenon DEF Editor!Next, Editor!Open, Editor!Move, Editor!Leave, Editor!Unmount,
       Editor!ServeLoad, Editor!ReceiveLoad, Editor!Loaded, Editor!Type, Editor!Blur,
       Editor!Submit, Editor!CallStep, Editor!ServeSave, Editor!Saved, Editor!Refused,
       Editor!LoseSave, Editor!Flip, Editor!server, Editor!place, Editor!fields, Editor!bounds
  <1>5. v1' \in [Apps -> BOOLEAN]
    <2>1. ASSUME NEW a \in Apps, Editor!Flip(a) PROVE v1' \in [Apps -> BOOLEAN]
      BY <1>1, <2>1, Zenon DEF Editor!Flip
    <2> QED
      BY <1>1, <2>1 DEF Editor!Next, Editor!Open, Editor!Move, Editor!Leave,
         Editor!ServeLoad, Editor!ReceiveLoad, Editor!Type, Editor!Blur, Editor!Submit,
         Editor!CallStep, Editor!ServeSave, Editor!Saved, Editor!Refused, Editor!LoseSave,
         Editor!server
  <1>6. v10' \in [Editor!Fields -> BOOLEAN]
    <2>1. ASSUME NEW f \in Editor!Fields, NEW ok \in BOOLEAN, Editor!Type(f, ok)
          PROVE  v10' \in [Editor!Fields -> BOOLEAN]
      BY <1>1, <2>1, Zenon DEF Editor!Type
    <2> QED
      BY <1>1, <2>1 DEF Editor!Next, Editor!Open, Editor!Move, Editor!Leave, Editor!Unmount,
         Editor!ServeLoad, Editor!ReceiveLoad, Editor!Blur, Editor!Submit,
         Editor!CallStep, Editor!ServeSave, Editor!Saved, Editor!Refused, Editor!LoseSave,
         Editor!Flip, Editor!fields
  <1>7. v3' \in Editor!Routes
    BY <1>2 DEF Editor!Routes, Editor!Next, Editor!Open, Editor!Move,
       Editor!Leave, Editor!Unmount,
       Editor!ServeLoad, Editor!ReceiveLoad, Editor!Type, Editor!Blur, Editor!Submit,
       Editor!CallStep, Editor!ServeSave, Editor!Saved, Editor!Refused, Editor!LoseSave,
       Editor!Flip, Editor!place
  <1>8. v9' \in Editor!Origins
    BY <1>2 DEF Editor!Origins, Editor!Load, Editor!Next, Editor!Open, Editor!Move,
       Editor!Leave, Editor!Unmount,
       Editor!ServeLoad, Editor!ReceiveLoad, Editor!Type, Editor!Blur, Editor!Submit,
       Editor!CallStep, Editor!ServeSave, Editor!Saved, Editor!Refused, Editor!LoseSave,
       Editor!Flip, Editor!fields
  <1>9. v11' \subseteq Editor!Fields
    BY <1>2 DEF Editor!Fields, Editor!Next, Editor!Open, Editor!Move,
       Editor!Leave, Editor!Unmount, Editor!Invalid,
       Editor!ServeLoad, Editor!ReceiveLoad, Editor!Type, Editor!Blur, Editor!Submit,
       Editor!CallStep, Editor!ServeSave, Editor!Saved, Editor!Refused, Editor!LoseSave,
       Editor!Flip, Editor!fields
  <1>10. v4' \in 0..Turns /\ v16' \in 0..Turns /\ v4' <= v16'
    <2>1. \/ v4' = v4 /\ v16' = v16
          \/ v16 < Turns /\ v16' = v16 + 1 /\ v4' \in {v4, v4 + 1}
      BY DEF Editor!Next, Editor!Open, Editor!Move,
         Editor!Leave, Editor!Unmount,
         Editor!ServeLoad, Editor!ReceiveLoad, Editor!Type, Editor!Blur, Editor!Submit,
         Editor!CallStep, Editor!ServeSave, Editor!Saved, Editor!Refused, Editor!LoseSave,
         Editor!Flip, Editor!place, Editor!bounds
    <2> QED
      BY <1>3, <2>1
  <1>11. v17' \in 0..Given.editor.faults
    <2>1. ASSUME NEW n \in Editor!LoadIds, Editor!ServeLoad(n)
          PROVE  v17' \in 0..Given.editor.faults
      BY <1>3, <2>1 DEF Editor!ServeLoad
    <2>2. ASSUME NEW c \in Editor!CallIds, Editor!LoseSave(c)
          PROVE  v17' \in 0..Given.editor.faults
      BY <1>3, <2>2 DEF Editor!LoseSave
    <2>3. \/ v17' = v17
          \/ \E n \in Editor!LoadIds : Editor!ServeLoad(n)
          \/ \E c \in Editor!CallIds : Editor!LoseSave(c)
      BY DEF Editor!Next, Editor!Open, Editor!Move, Editor!Leave,
         Editor!ReceiveLoad, Editor!Type, Editor!Blur, Editor!Submit,
         Editor!CallStep, Editor!ServeSave, Editor!Saved, Editor!Refused,
         Editor!Flip, Editor!bounds
    <2> QED
      BY <1>3, <2>1, <2>2, <2>3
  <1>12. v14' \in [Editor!CallIds -> Editor!Call] /\ v15' \in 0..FormSaves
    <2>1. CASE Editor!Submit
      <3> DEFINE early == v5 /\ Editor!Reading
      <3> DEFINE new == [state |-> "sent", to |-> v3, of |-> v9, mount |-> v4,
                         early |-> early, warned |-> v6]
      <3>1. \/ v14' = v14 /\ v15' = v15
            \/ v15 < FormSaves /\ v15' = v15 + 1 /\ v14' = [v14 EXCEPT ![v15 + 1] = new]
        BY <2>1 DEF Editor!Submit
      <3>2. v3 \in Apps \cup {New}
        BY <1>2, <2>1 DEF Editor!Submit, Editor!Pressable, Editor!FormShown, Editor!Routes
      <3>3. new \in Editor!Call
        <4>1. v4 \in 0..Turns
          BY <1>3
        <4>2. early \in BOOLEAN
          BY <1>1, Zenon DEF Editor!Reading
        <4> HIDE DEF early
        <4> QED
          BY <1>1, <1>2, <3>2, <4>1, <4>2, Zenon DEF Editor!Call
      <3> HIDE DEF new
      <3> QED
        BY <1>3, <3>1, <3>3
    <2>2. ASSUME NEW c \in Editor!CallIds, Editor!CallStep(c) \/ Editor!LoseSave(c)
          PROVE  v14' \in [Editor!CallIds -> Editor!Call] /\ v15' = v15
      <3>1. \E s \in {"ok", "failed", "done"} : v14' = [v14 EXCEPT ![c].state = s]
        BY <2>2, Zenon DEF Editor!CallStep, Editor!ServeSave, Editor!Saved, Editor!Refused,
           Editor!LoseSave
      <3>2. v15' = v15
        BY <2>2 DEF Editor!CallStep, Editor!ServeSave, Editor!Saved, Editor!Refused,
           Editor!LoseSave
      <3> QED
        BY <1>3, <3>1, <3>2 DEF Editor!Call
    <2>3. \/ v14' = v14 /\ v15' = v15
          \/ Editor!Submit
          \/ \E c \in Editor!CallIds : Editor!CallStep(c) \/ Editor!LoseSave(c)
      BY DEF Editor!Next, Editor!Open, Editor!Move, Editor!Leave,
         Editor!ServeLoad, Editor!ReceiveLoad, Editor!Type, Editor!Blur, Editor!Flip
    <2> QED
      BY <1>3, <2>1, <2>2, <2>3
  <1>13. v2' \subseteq Editor!Saves
    <2>1. ASSUME NEW c \in Editor!CallIds PROVE Editor!Write(v14[c]) \in Editor!Saves
      <3>1. v14[c] \in Editor!Call
        BY <1>3
      <3> QED
        BY <3>1 DEF Editor!Write, Editor!Saves, Editor!Call
    <2>2. v2' = v2 \/ \E c \in Editor!CallIds : v2' = v2 \cup {Editor!Write(v14[c])}
      BY DEF Editor!Next, Editor!Open, Editor!Move, Editor!Leave,
         Editor!ServeLoad, Editor!ReceiveLoad, Editor!Type, Editor!Blur, Editor!Submit,
         Editor!CallStep, Editor!ServeSave, Editor!Saved, Editor!Refused, Editor!LoseSave,
         Editor!Flip, Editor!server
    <2> QED
      BY <1>2, <2>1, <2>2
  <1>14. /\ v8' \in [Editor!LoadIds -> Editor!Load]
         /\ \A n \in Editor!LoadIds : v8'[n].state # "none" => v8'[n].app \in Apps
    <2>1. ASSUME NEW n, NEW l \in Editor!Load, l.state # "none" => l.app \in Apps,
                 v8' = [v8 EXCEPT ![n] = l]
          PROVE  /\ v8' \in [Editor!LoadIds -> Editor!Load]
                 /\ \A m \in Editor!LoadIds : v8'[m].state # "none" => v8'[m].app \in Apps
      BY <1>2, <2>1
    <2>2. ASSUME NEW r \in Editor!Routes, r # Away, Editor!Read(r)
          PROVE  /\ v8' \in [Editor!LoadIds -> Editor!Load]
                 /\ \A m \in Editor!LoadIds : v8'[m].state # "none" => v8'[m].app \in Apps
      <3> DEFINE l == IF r = New THEN Editor!NoLoad ELSE [state |-> "sent", app |-> r]
      <3>1. l \in Editor!Load /\ (l.state # "none" => l.app \in Apps)
        BY <2>2 DEF Editor!Load, Editor!NoLoad, Editor!Routes
      <3>2. v8' = [v8 EXCEPT ![v16 + 1] = l]
        BY <2>2 DEF Editor!Read
      <3> HIDE DEF l
      <3> QED
        BY <2>1, <3>1, <3>2
    <2>3. ASSUME NEW n \in Editor!LoadIds, Editor!ServeLoad(n)
          PROVE  /\ v8' \in [Editor!LoadIds -> Editor!Load]
                 /\ \A m \in Editor!LoadIds : v8'[m].state # "none" => v8'[m].app \in Apps
      <3>1. v8[n].state = "sent"
            /\ \E t \in {"ok", "locked", "failed"} : v8' = [v8 EXCEPT ![n].state = t]
        BY <2>3 DEF Editor!ServeLoad
      <3> QED
        BY <1>2, <3>1 DEF Editor!Load
    <2>4. ASSUME NEW n \in Editor!LoadIds, Editor!ReceiveLoad(n)
          PROVE  /\ v8' \in [Editor!LoadIds -> Editor!Load]
                 /\ \A m \in Editor!LoadIds : v8'[m].state # "none" => v8'[m].app \in Apps
      <3>1. Editor!NoLoad \in Editor!Load /\ Editor!NoLoad.state = "none"
        BY DEF Editor!Load, Editor!NoLoad
      <3> QED
        BY <2>1, <2>4, <3>1 DEF Editor!ReceiveLoad
    <2>5. \/ v8' = v8
          \/ \E r \in Editor!Routes : r # Away /\ Editor!Read(r)
          \/ \E n \in Editor!LoadIds : Editor!ServeLoad(n) \/ Editor!ReceiveLoad(n)
      BY DEF Editor!Next, Editor!Open, Editor!Move, Editor!Leave, Editor!Unmount,
         Editor!Type, Editor!Blur, Editor!Submit, Editor!CallStep, Editor!ServeSave,
         Editor!Saved, Editor!Refused, Editor!LoseSave, Editor!Flip
    <2> QED
      BY <1>2, <2>2, <2>3, <2>4, <2>5
  <1> QED
    BY <1>4, <1>5, <1>6, <1>7, <1>8, <1>9, <1>10, <1>11, <1>12, <1>13, <1>14 DEF Editor!TypeOK

LEMMA EditorTypedStays ==
    ASSUME Editor!TypeOK, v4 <= v16, UNCHANGED vars PROVE (Editor!TypeOK /\ v4 <= v16)'
  BY DEF vars, Editor!TypeOK

-----------------------------------------------------------------------------
(* Registration *)

(* RegisterPage: what a register() call carries, and what it may be        *)
(* answered.                                                               *)
RegisterInv ==
    /\ v7 \in BOOLEAN
    /\ v8 = [state |-> v8.state, form |-> v8.form, objections |-> v8.objections]
    /\ v8.objections \subseteq {"email", "phone", "password", "first_name"}
    /\ Wizard!RegisteredIsValid

LEMMA RegisterInit == ASSUME Wizard!Init PROVE RegisterInv
  BY DEF Wizard!Init, RegisterInv, Wizard!NoCall, Wizard!RegisteredIsValid

(* The call goes on, with what it carries. *)
LEMMA CallKeepsForm ==
    ASSUME RegisterInv, v8.state # "none", v8'.form = v8.form, v7' = v7,
           v8' = [state |-> v8'.state, form |-> v8'.form, objections |-> v8'.objections],
           v8'.objections \subseteq {"email", "phone", "password", "first_name"}
    PROVE  RegisterInv'
  BY DEF RegisterInv, Wizard!RegisteredIsValid, Wizard!Invalid

(* The step of each field, and of the first of some. *)
LEMMA StepsOfFields ==
    ASSUME NEW o \in SUBSET {"email", "phone", "password", "first_name"}, o # {}
    PROVE  /\ Wizard!ObjectionStep(o) \in 1..3
           /\ \E f \in o : f \in Wizard!STEPS[Wizard!ObjectionStep(o)]
           /\ \A i \in 1..(Wizard!ObjectionStep(o) - 1) : \A f \in Wizard!STEPS[i] : f \notin o
  <1>1. \A f \in {"email", "phone", "password", "first_name"} :
          Wizard!StepOf(f) = IF f = "first_name" THEN 2 ELSE 1
    <2> SUFFICES ASSUME NEW f \in {"email", "phone", "password", "first_name"}
                 PROVE  Wizard!StepOf(f) = IF f = "first_name" THEN 2 ELSE 1
      OBVIOUS
    <2>1. DOMAIN Wizard!STEPS = {1, 2, 3}
      BY DEF Wizard!STEPS
    <2>2. \A i \in {1, 2, 3} : f \in Wizard!STEPS[i] <=> i = IF f = "first_name" THEN 2 ELSE 1
      BY DEF Wizard!STEPS
    <2> QED
      BY <2>1, <2>2 DEF Wizard!StepOf
  <1> DEFINE S == {Wizard!StepOf(f) : f \in o}
  <1>2. Wizard!ObjectionStep(o) = CHOOSE x \in S : \A y \in S : x <= y
    BY DEF Wizard!ObjectionStep, Wizard!Min
  <1>0. ASSUME NEW T \in SUBSET Nat, NEW n \in T, \A y \in T : n <= y
        PROVE  (CHOOSE x \in T : \A y \in T : x <= y) = n
    <2> DEFINE c == CHOOSE x \in T : \A y \in T : x <= y
    <2>1. c \in T /\ \A y \in T : c <= y
      <3>1. \E x \in T : \A y \in T : x <= y
        BY <1>0
      <3> QED
        BY <3>1, Zenon
    <2> HIDE DEF c
    <2>2. c = n
      BY <1>0, <2>1
    <2> QED
      BY <2>2 DEF c
  <1>3. CASE o = {"first_name"}
    <2>1. S = {2}
      BY <1>1, <1>3
    <2>2. Wizard!ObjectionStep(o) = 2
      <3> HIDE DEF S
      <3> QED
        BY <1>0, <1>2, <2>1
    <2> QED
      BY <1>3, <2>2 DEF Wizard!STEPS
  <1>4. CASE o # {"first_name"}
    <2>1. PICK f \in o : f # "first_name"
      BY <1>4
    <2>2. 1 \in S /\ S \subseteq {1, 2}
      BY <1>1, <2>1
    <2>3. Wizard!ObjectionStep(o) = 1
      <3> HIDE DEF S
      <3> QED
        BY <1>0, <1>2, <2>2
    <2>4. f \in {"email", "phone", "password"}
      BY <2>1
    <2> QED
      BY <2>1, <2>3, <2>4 DEF Wizard!STEPS
  <1> QED
    BY <1>3, <1>4

LEMMA RegisterStep == ASSUME RegisterInv, Wizard!NextState PROVE RegisterInv'
  <1>1. CASE v8' = v8 /\ v7' = v7
    BY <1>1 DEF RegisterInv, Wizard!RegisteredIsValid, Wizard!Invalid
  <1>2. CASE v8' = Wizard!NoCall /\ v7' \in BOOLEAN
    BY <1>2 DEF RegisterInv, Wizard!RegisteredIsValid, Wizard!NoCall
  <1>3. CASE Wizard!Create
    <2>1. /\ v7' = TRUE /\ v8'.form = v1 /\ v8'.objections = {}
          /\ \A i \in DOMAIN Wizard!STEPS : Wizard!StepProblems(v1, i) = {}
      BY <1>3 DEF Wizard!Create, Wizard!MayCreate, Wizard!canRegister, Wizard!NoCall
    <2>5. /\ \A f \in Wizard!FieldKey : \E i \in DOMAIN Wizard!STEPS : f \in Wizard!STEPS[i]
          /\ 1 \in DOMAIN Wizard!STEPS
      BY DEF Wizard!STEPS, Wizard!FieldKey
    <2>2. \A f \in Wizard!FieldKey : ~Wizard!Invalid(v1, f)
      BY <2>1, <2>5, Zenon DEF Wizard!StepProblems
    <2>3. v1["email"] # "" \/ v1["phone"] # ""
      BY <2>1, <2>5, Zenon DEF Wizard!StepProblems
    <2>6. v8' = [state |-> v8'.state, form |-> v8'.form, objections |-> v8'.objections]
      BY <1>3 DEF Wizard!Create, Wizard!NoCall
    <2>4. Wizard!RegisteredIsValid'
      BY <2>1, <2>2, <2>3 DEF Wizard!RegisteredIsValid, Wizard!Invalid
    <2> QED
      BY <2>1, <2>4, <2>6 DEF RegisterInv
  <1>4. CASE Wizard!Serve
    <2>1. v8 = [state |-> v8.state, form |-> v8.form, objections |-> v8.objections]
          /\ v8.objections \subseteq {"email", "phone", "password", "first_name"}
      BY DEF RegisterInv
    <2>2. /\ v8.state # "none" /\ v8'.form = v8.form /\ v7' = v7
          /\ v8' = [state |-> v8'.state, form |-> v8'.form, objections |-> v8'.objections]
          /\ v8'.objections \subseteq {"email", "phone", "password", "first_name"}
      BY <1>4, <2>1 DEF Wizard!Serve
    <2> QED
      BY <2>2, CallKeepsForm
  <1> QED
    BY <1>1, <1>2, <1>3, <1>4
    DEF Wizard!NextState, Wizard!Edit, Wizard!Enter, Wizard!Set, Wizard!Blur,
        Wizard!GoToStep, Wizard!Back, Wizard!Next, Wizard!Answer, Wizard!Created,
        Wizard!Refused, Wizard!Failed, Wizard!Google

LEMMA RefusalMeant ==
    ASSUME RegisterInv, Wizard!NextState
    PROVE  Wizard!RefusalIsShown
  <1>1. CASE v7' = v7 \/ v7' = TRUE
    BY <1>1 DEF Wizard!RefusalIsShown, RegisterInv
  <1>2. CASE Wizard!Created
    BY <1>2 DEF Wizard!Created, Wizard!RefusalIsShown
  <1>3. CASE Wizard!Failed
    BY <1>3 DEF Wizard!Failed, Wizard!RefusalIsShown
  <1>4. CASE Wizard!Refused
    <2> DEFINE o == v8.objections
    <2>1. /\ v3' = v3 /\ v4' = Wizard!ObjectionStep(o)
          /\ v2' = [f \in Wizard!FieldKey |-> IF f \in o THEN "server" ELSE "nobody"]
          /\ o \in SUBSET {"email", "phone", "password", "first_name"} /\ o # {}
      BY <1>4 DEF Wizard!Refused, Wizard!MoveTo, Wizard!Nobody, RegisterInv
    <2>2. /\ v4' \in 1..3
          /\ \E f \in o : f \in Wizard!STEPS[v4']
          /\ \A i \in 1..(v4' - 1) : \A f \in Wizard!STEPS[i] : f \notin o
      BY <2>1, StepsOfFields
    <2>3. \A i \in 1..3 : Wizard!STEPS[i] \subseteq Wizard!FieldKey
      BY DEF Wizard!STEPS, Wizard!FieldKey
    <2>7. \A n \in 1..3 : \A i \in 1..(n - 1) : i \in 1..3
      OBVIOUS
    <2>4. \A i \in 1..(v4' - 1) : i \in 1..3
      BY <2>2, <2>7, Zenon
    <2> HIDE DEF o
    <2>5. \E f \in Wizard!STEPS[v4'] : v2'[f] = "server"
      BY <2>1, <2>2, <2>3
    <2>6. \A i \in 1..(v4' - 1) : \A f \in Wizard!STEPS[i] : v2'[f] = "nobody"
      BY <2>1, <2>2, <2>3, <2>4
    <2> QED
      BY <2>5, <2>6 DEF Wizard!RefusalIsShown, Wizard!Nobody
  <1> QED
    BY <1>1, <1>2, <1>3, <1>4
    DEF Wizard!NextState, Wizard!Edit, Wizard!Enter, Wizard!Set, Wizard!Blur,
        Wizard!GoToStep, Wizard!Back, Wizard!Next, Wizard!Answer, Wizard!Create, Wizard!Serve,
        Wizard!Google

(* Errors of validators on this step and the later ones: no step shows     *)
(* what an earlier visit of it left.                                       *)
ErrorsInv ==
    /\ v1 = [f \in Wizard!FieldKey |-> v1[f]]
    /\ v2 = [f \in Wizard!FieldKey |-> v2[f]]
    /\ v3 \in BOOLEAN
    /\ v4 \in 1..3
    /\ v2["confirm_password"] = "validator" => v3
    /\ \A i \in 1..3 : i >= v4 =>
         \A f \in Wizard!STEPS[i] : v2[f] = "validator" =>
           Wizard!Invalid(v1, f) \/ (f = "confirm_password" /\ v5 = "password")

LEMMA WizardFields ==
    /\ DOMAIN Wizard!STEPS = 1..3 /\ Wizard!Last = 3
    /\ \A i \in 1..3 : Wizard!STEPS[i] \subseteq Wizard!FieldKey
    /\ {"email", "password", "confirm_password", "first_name"} \subseteq Wizard!FieldKey
  BY DEF Wizard!STEPS, Wizard!FieldKey, Wizard!Last

LEMMA ErrorsInit == ASSUME Wizard!Init PROVE ErrorsInv
  <1>1. /\ v1 = [f \in Wizard!FieldKey |-> ""] /\ v2 = [f \in Wizard!FieldKey |-> "nobody"]
        /\ v3 = FALSE /\ v4 = 1
    BY DEF Wizard!Init, Wizard!INITIAL, Wizard!NoErrors, Wizard!Nobody
  <1>2. \A f \in Wizard!FieldKey : v2[f] = "nobody"
    BY <1>1
  <1>3. v2["confirm_password"] # "validator"
    BY <1>2, WizardFields
  <1>4. \A i \in 1..3 : \A f \in Wizard!STEPS[i] : v2[f] # "validator"
    BY <1>2, WizardFields
  <1>5. v4 \in 1..3
    <2>1. v4 = 1
      BY <1>1
    <2> QED
      BY <2>1
  <1>7. v3 \in BOOLEAN
    BY <1>1
  <1>6. v1 = [f \in Wizard!FieldKey |-> v1[f]] /\ v2 = [f \in Wizard!FieldKey |-> v2[f]]
    BY <1>1
  <1> QED
    BY <1>3, <1>4, <1>5, <1>6, <1>7 DEF ErrorsInv

(* Another step, without errors: the form stays.                           *)
LEMMA NoErrorsKeep ==
    ASSUME ErrorsInv, UNCHANGED <<v1, v3>>, v4' \in 1..3,
           v2' = [f \in Wizard!FieldKey |-> v2'[f]],
           \A f \in Wizard!FieldKey : v2'[f] # "validator"
    PROVE  ErrorsInv'
  BY WizardFields DEF ErrorsInv

LEMMA SetKeeps ==
    ASSUME ErrorsInv, NEW f \in Wizard!FieldKey, NEW v, Wizard!Set(f, v) PROVE ErrorsInv'
  <1>1. /\ v5 = f /\ v5' = v5 /\ v3' = v3 /\ v4' = v4
        /\ v1' = [v1 EXCEPT ![f] = v] /\ v2' = [v2 EXCEPT ![f] = "nobody"]
    BY DEF Wizard!Set, Wizard!Nobody
  <1>2. v1 = [g \in Wizard!FieldKey |-> v1[g]] /\ v2 = [g \in Wizard!FieldKey |-> v2[g]]
    BY DEF ErrorsInv
  <1>3. /\ v1' = [g \in Wizard!FieldKey |-> v1'[g]] /\ v2' = [g \in Wizard!FieldKey |-> v2'[g]]
        /\ v2'[f] = "nobody"
        /\ \A g \in Wizard!FieldKey : g # f => v1'[g] = v1[g] /\ v2'[g] = v2[g]
    BY <1>1, <1>2
  <1>4. ASSUME NEW g \in Wizard!FieldKey, v2'[g] = "validator",
               Wizard!Invalid(v1, g) \/ (g = "confirm_password" /\ v5 = "password")
        PROVE  Wizard!Invalid(v1', g) \/ (g = "confirm_password" /\ v5' = "password")
    <2>1. g # f
      BY <1>3, <1>4
    <2>2. v1'[g] = v1[g]
      BY <1>3, <2>1
    <2>3. CASE g = "confirm_password" /\ f = "password"
      BY <1>1, <2>3
    <2>4. CASE g = "confirm_password" /\ f # "password"
      <3>1. v1'["password"] = v1["password"]
        BY <1>3, <2>4, WizardFields
      <3> QED
        BY <1>1, <1>4, <2>2, <2>4, <3>1 DEF Wizard!Invalid
    <2>5. CASE g # "confirm_password"
      BY <1>4, <2>2, <2>5 DEF Wizard!Invalid
    <2> QED
      BY <2>3, <2>4, <2>5
  <1>5. v2'["confirm_password"] = "validator" => v2["confirm_password"] = "validator"
    BY <1>3, WizardFields
  <1>6. \A g \in Wizard!FieldKey : v2'[g] = "validator" => v2[g] = "validator"
    BY <1>3
  <1>7. \A i \in 1..3 : i >= v4' =>
         \A g \in Wizard!STEPS[i] : v2'[g] = "validator" =>
           Wizard!Invalid(v1', g) \/ (g = "confirm_password" /\ v5' = "password")
    BY <1>1, <1>4, <1>6, WizardFields DEF ErrorsInv
  <1> QED
    BY <1>1, <1>3, <1>5, <1>7 DEF ErrorsInv, Wizard!Invalid

LEMMA BlurKeeps == ASSUME ErrorsInv, Wizard!Blur PROVE ErrorsInv'
  <1>1. v5' = "none" /\ v4' = v4
    BY DEF Wizard!Blur, Wizard!NoField
  <1>2. CASE v5 \notin Wizard!Blurs
    <2>1. UNCHANGED <<v1, v2, v3>> /\ v5 # "password"
      BY <1>2 DEF Wizard!Blur, Wizard!Blurs
    <2> QED
      BY <1>1, <2>1 DEF ErrorsInv
  <1>3. CASE v5 \in Wizard!Blurs
    <2> DEFINE g == IF v5 = "first_name" THEN [v1 EXCEPT ![v5] = Wizard!Capitalised(@)] ELSE v1
    <2>1. /\ v1' = g /\ v2' = Wizard!BlurErrors(v5, g)
          /\ v3' = (v3 \/ v5 = "confirm_password")
          /\ v5 \in {"email", "password", "confirm_password", "first_name"}
      BY <1>3 DEF Wizard!Blur, Wizard!Blurs
    <2>2. /\ v1 = [f \in Wizard!FieldKey |-> v1[f]] /\ v2 = [f \in Wizard!FieldKey |-> v2[f]]
          /\ v3 \in BOOLEAN
      BY DEF ErrorsInv
    <2>3. /\ v1' = [f \in Wizard!FieldKey |-> v1'[f]]
          /\ \A f \in Wizard!FieldKey : f # v5 \/ v5 # "first_name" => v1'[f] = v1[f]
      BY <2>1, <2>2
    <2> HIDE DEF g
    <2>4. /\ v2' = [f \in Wizard!FieldKey |-> v2'[f]]
          /\ v2'[v5] = Wizard!Verdict(v1', v5)
          /\ \A f \in Wizard!FieldKey : f # v5 =>
               \/ v2'[f] = v2[f] /\ ~(v5 = "password" /\ v3 /\ f = "confirm_password")
               \/ v5 = "password" /\ v3 /\ f = "confirm_password" /\ v2'[f] = Wizard!Verdict(v1', f)
      <3>1. CASE v5 = "password" /\ v3
        <4>1. v2' = [v2 EXCEPT !["password"] = Wizard!Verdict(v1', "password"),
                               !["confirm_password"] = Wizard!Verdict(v1', "confirm_password")]
          BY <2>1, <3>1 DEF Wizard!BlurErrors
        <4> QED
          BY <2>2, <3>1, <4>1, WizardFields
      <3>2. CASE ~(v5 = "password" /\ v3)
        <4>1. v2' = [v2 EXCEPT ![v5] = Wizard!Verdict(v1', v5)]
          BY <2>1, <3>2 DEF Wizard!BlurErrors
        <4> QED
          BY <2>1, <2>2, <3>2, <4>1, WizardFields
      <3> QED
        BY <3>1, <3>2
    <2>5. \A f : Wizard!Verdict(v1', f) = "validator" => Wizard!Invalid(v1', f)
      BY DEF Wizard!Verdict, Wizard!Nobody
    <2>6. \A f \in Wizard!FieldKey : f # v5 => (Wizard!Invalid(v1, f) <=> Wizard!Invalid(v1', f))
      <3> SUFFICES ASSUME NEW f \in Wizard!FieldKey, f # v5
                   PROVE  Wizard!Invalid(v1, f) <=> Wizard!Invalid(v1', f)
        OBVIOUS
      <3>1. v1'[f] = v1[f] /\ v1'["password"] = v1["password"]
        BY <2>3, WizardFields
      <3> QED
        BY <3>1 DEF Wizard!Invalid
    <2>7. v2'["confirm_password"] = "validator" => v3'
      BY <2>1, <2>2, <2>4, WizardFields DEF ErrorsInv
    <2>8. ASSUME NEW f \in Wizard!FieldKey, v2'[f] = "validator",
                 v2[f] = "validator" =>
                   Wizard!Invalid(v1, f) \/ (f = "confirm_password" /\ v5 = "password")
          PROVE  Wizard!Invalid(v1', f)
      <3>1. CASE f = v5
        BY <2>4, <2>5, <2>8, <3>1
      <3>2. CASE f # v5 /\ v2'[f] = v2[f] /\ ~(v5 = "password" /\ v3 /\ f = "confirm_password")
        <4>1. ~(f = "confirm_password" /\ v5 = "password")
          BY <2>8, <3>2 DEF ErrorsInv
        <4> QED
          BY <2>6, <2>8, <3>2, <4>1
      <3>3. CASE v2'[f] = Wizard!Verdict(v1', f)
        BY <2>5, <2>8, <3>3
      <3> QED
        BY <2>4, <3>1, <3>2, <3>3
    <2>9. \A i \in 1..3 : i >= v4' =>
           \A f \in Wizard!STEPS[i] : v2'[f] = "validator" =>
             Wizard!Invalid(v1', f) \/ (f = "confirm_password" /\ v5' = "password")
      BY <1>1, <2>8, WizardFields DEF ErrorsInv
    <2>10. v3' \in BOOLEAN
      BY <2>1, <2>2
    <2> QED
      BY <1>1, <2>3, <2>4, <2>7, <2>9, <2>10 DEF ErrorsInv, Wizard!Invalid
  <1> QED
    BY <1>2, <1>3

LEMMA ErrorsStep == ASSUME ErrorsInv, RegisterInv, Wizard!NextState PROVE ErrorsInv'
  <1>1. ASSUME NEW f \in Wizard!FieldKey, Wizard!Enter(f) PROVE ErrorsInv'
    <2>1. UNCHANGED <<v1, v2, v3, v4>> /\ v5 = "none"
      BY <1>1 DEF Wizard!Enter, Wizard!NoField
    <2> QED
      BY <2>1 DEF ErrorsInv
  <1>2. ASSUME NEW f \in Wizard!FieldKey, NEW v, Wizard!Set(f, v) PROVE ErrorsInv'
    BY <1>2, SetKeeps
  <1>3. CASE Wizard!Blur
    BY <1>3, BlurKeeps
  <1>4. ASSUME NEW i \in 1..3, Wizard!ShowStep(i), UNCHANGED <<v1, v3>> PROVE ErrorsInv'
    <2>1. v4' = i /\ v2' = [f \in Wizard!FieldKey |-> "nobody"]
      BY <1>4 DEF Wizard!ShowStep, Wizard!MoveTo, Wizard!NoErrors, Wizard!Nobody
    <2>2. v2' = [f \in Wizard!FieldKey |-> v2'[f]] /\ \A f \in Wizard!FieldKey : v2'[f] # "validator"
      BY <2>1
    <2> QED
      BY <1>4, <2>1, <2>2, NoErrorsKeep
  <1>5. ASSUME NEW i \in DOMAIN Wizard!STEPS, Wizard!GoToStep(i) PROVE ErrorsInv'
    BY <1>4, <1>5, WizardFields DEF Wizard!GoToStep
  <1>6. CASE Wizard!Back
    <2>1. Wizard!ShowStep(v4 - 1) /\ v4 > 1 /\ UNCHANGED <<v1, v3>> /\ v4 \in 1..3
      BY <1>6 DEF Wizard!Back, ErrorsInv
    <2>2. v4 - 1 \in 1..3
      BY <2>1
    <2> QED
      BY <1>4, <2>1, <2>2
  <1>7. CASE Wizard!Next
    <2>1. v4' = v4 + 1 /\ v4 < 3 /\ v4 \in 1..3 /\ UNCHANGED <<v1, v2, v3>>
      BY <1>7, WizardFields DEF Wizard!Next, Wizard!MoveTo, ErrorsInv
    <2>2. \A i \in 1..3 : i >= v4' => i >= v4 /\ i # 1
      BY <2>1
    <2>3. \A i \in 1..3 : i # 1 => "confirm_password" \notin Wizard!STEPS[i]
      BY DEF Wizard!STEPS
    <2>4. v4' \in 1..3
      BY <2>1
    <2> QED
      BY <2>1, <2>2, <2>3, <2>4 DEF ErrorsInv
  <1>8. CASE UNCHANGED <<v1, v2, v3, v4, v5>>
    BY <1>8 DEF ErrorsInv
  <1>9. CASE Wizard!Refused
    <2> DEFINE o == v8.objections
    <2>1. /\ v4' = Wizard!ObjectionStep(o) /\ UNCHANGED <<v1, v3>>
          /\ v2' = [f \in Wizard!FieldKey |-> IF f \in o THEN "server" ELSE "nobody"]
          /\ o \in SUBSET {"email", "phone", "password", "first_name"} /\ o # {}
      BY <1>9 DEF Wizard!Refused, Wizard!MoveTo, Wizard!Nobody, RegisterInv
    <2>2. v4' \in 1..3
      BY <2>1, StepsOfFields
    <2>3. v2' = [f \in Wizard!FieldKey |-> v2'[f]] /\ \A f \in Wizard!FieldKey : v2'[f] # "validator"
      BY <2>1
    <2> QED
      BY <2>1, <2>2, <2>3, NoErrorsKeep
  <1> QED
    BY <1>1, <1>2, <1>3, <1>5, <1>6, <1>7, <1>8, <1>9
    DEF Wizard!NextState, Wizard!Edit, Wizard!Create, Wizard!Serve, Wizard!Answer,
        Wizard!Created, Wizard!Failed, Wizard!Google

(* The registration wizard. *)
WizardInv == RegisterInv /\ ErrorsInv

LEMMA WizardInit == ASSUME Wizard!Init PROVE WizardInv
  BY RegisterInit, ErrorsInit DEF WizardInv

LEMMA WizardStep == ASSUME WizardInv, Wizard!NextState PROVE WizardInv'
  BY RegisterStep, ErrorsStep DEF WizardInv

LEMMA WizardMeant == ASSUME WizardInv, Wizard!NextState PROVE Wizard!RefusalIsShown
  BY RefusalMeant DEF WizardInv

LEMMA WizardHolds ==
    ASSUME WizardInv PROVE Wizard!RegisteredIsValid /\ Wizard!ShownErrorsAreTrue
  <1>1. \A i \in 1..3 : i >= i
    OBVIOUS
  <1> QED
    BY <1>1 DEF WizardInv, RegisterInv, ErrorsInv, Wizard!ShownErrorsAreTrue

LEMMA WizardStays == ASSUME WizardInv, UNCHANGED vars PROVE WizardInv'
  BY DEF vars,
    WizardInv, RegisterInv, ErrorsInv, Wizard!RegisteredIsValid

(* The types of the pages and of every answer they have shown.             *)
WizardTyped == WizardInv /\ Wizard!TypeOK

WizardTexts == {"Ann"} \cup UNION {Forms[f] : f \in Wizard!FieldKey}

LEMMA WizardTypedInit ==
    ASSUME Wizard!ValuesAssumption, Wizard!SubmitsAssumption, Wizard!Init PROVE WizardTyped
  <1>1. WizardInv
    BY WizardInit
  <1>2. v1 \in [Wizard!FieldKey -> WizardTexts]
    <2>1. "email" \in Wizard!FieldKey /\ "" \in Forms["email"]
      BY DEF Wizard!ValuesAssumption, Wizard!FieldKey
    <2>2. "" \in WizardTexts
      BY <2>1, Zenon DEF WizardTexts
    <2>3. v1 = [f \in Wizard!FieldKey |-> ""]
      BY DEF Wizard!Init, Wizard!INITIAL
    <2> HIDE DEF WizardTexts
    <2> QED
      BY <2>2, <2>3, Zenon
  <1>3. /\ v2 \in [Wizard!FieldKey -> {Wizard!Nobody, "validator", "server"}]
        /\ v3 \in BOOLEAN /\ v6 \in BOOLEAN /\ v7 \in BOOLEAN
    BY Zenon DEF Wizard!Init, Wizard!NoErrors
  <1>4. /\ v5 \in Wizard!FieldKey \cup {Wizard!NoField}
        /\ v9 \in {"register", "verify-email", "login", "home"}
        /\ v8.state \in Wizard!Outcomes /\ v8.objections \subseteq Wizard!FieldKey
    BY DEF Wizard!Init, Wizard!AutoFocus, Wizard!FieldKey, Wizard!NoCall, Wizard!Outcomes
  <1>5. v10 \in 0..Submits
    BY DEF Wizard!Init, Wizard!SubmitsAssumption
  <1>6. v4 \in DOMAIN Wizard!STEPS
    BY <1>1, WizardFields DEF WizardInv, ErrorsInv
  <1> QED
    BY <1>1, <1>2, <1>3, <1>4, <1>5, <1>6 DEF WizardTyped, Wizard!TypeOK, WizardTexts

LEMMA WizardTypedStep ==
    ASSUME Wizard!ValuesAssumption, Wizard!SubmitsAssumption, WizardTyped, Wizard!NextState
    PROVE  WizardTyped'
  <1>1. WizardInv /\ WizardInv'
    BY WizardStep DEF WizardTyped
  <1>2. /\ v1 \in [Wizard!FieldKey -> WizardTexts]
        /\ v2 \in [Wizard!FieldKey -> {Wizard!Nobody, "validator", "server"}]
        /\ v5 \in Wizard!FieldKey \cup {Wizard!NoField} /\ v6 \in BOOLEAN
        /\ v8.state \in Wizard!Outcomes
        /\ v9 \in {"register", "verify-email", "login", "home"}
        /\ v10 \in 0..Submits /\ Submits \in Nat
    BY DEF WizardTyped, Wizard!TypeOK, WizardTexts, Wizard!SubmitsAssumption
  <1>3. v1' \in [Wizard!FieldKey -> WizardTexts]
    <2>1. ASSUME NEW f \in Wizard!FieldKey, NEW v \in Forms[f], Wizard!Set(f, v)
          PROVE  v1' \in [Wizard!FieldKey -> WizardTexts]
      <3>1. v \in WizardTexts /\ v1' = [v1 EXCEPT ![f] = v]
        BY <2>1, Zenon DEF WizardTexts, Wizard!Set
      <3> HIDE DEF WizardTexts
      <3> QED
        BY <1>2, <3>1
    <2>2. CASE Wizard!Blur
      <3>1. v1' = v1 \/ v1' = [v1 EXCEPT !["first_name"] = Wizard!Capitalised(v1["first_name"])]
        BY <2>2 DEF Wizard!Blur
      <3>2. v1["first_name"] \in WizardTexts
        BY <1>2, WizardFields, Zenon
      <3>4. "Ann" \in WizardTexts
        BY Zenon DEF WizardTexts
      <3>3. Wizard!Capitalised(v1["first_name"]) \in WizardTexts
        <4> HIDE DEF WizardTexts
        <4> QED
          BY <3>2, <3>4 DEF Wizard!Capitalised
      <3> HIDE DEF WizardTexts
      <3> QED
        BY <1>2, <3>1, <3>3
    <2>3. v1' = v1 \/ Wizard!Blur
          \/ \E f \in Wizard!FieldKey : \E v \in Forms[f] : Wizard!Set(f, v)
      BY DEF Wizard!NextState, Wizard!Edit, Wizard!Enter, Wizard!GoToStep, Wizard!Back,
         Wizard!Next, Wizard!Create, Wizard!Serve, Wizard!Answer, Wizard!Created,
         Wizard!Refused, Wizard!Failed, Wizard!Google
    <2> QED
      BY <1>2, <2>1, <2>2, <2>3
  <1>4. v2' \in [Wizard!FieldKey -> {Wizard!Nobody, "validator", "server"}]
    <2> DEFINE Whose == {Wizard!Nobody, "validator", "server"}
    <2>1. CASE Wizard!Blur
      <3>1. \A g, f : Wizard!Verdict(g, f) \in Whose
        BY DEF Wizard!Verdict
      <3>2. v2 \in [Wizard!FieldKey -> Whose]
        BY <1>2
      <3>3. \/ v2' = v2
            \/ \E g, f : v2' = [v2 EXCEPT ![f] = Wizard!Verdict(g, f)]
            \/ \E g, f : v2' = [v2 EXCEPT ![f] = Wizard!Verdict(g, f),
                              !["confirm_password"] = Wizard!Verdict(g, "confirm_password")]
        BY <2>1, Zenon DEF Wizard!Blur, Wizard!BlurErrors
      <3> HIDE DEF Whose, Wizard!Verdict
      <3> QED
        BY <3>1, <3>2, <3>3 DEF Whose
    <2>2. \/ v2' = v2 \/ v2' = Wizard!NoErrors \/ Wizard!Blur
          \/ \E f : v2' = [v2 EXCEPT ![f] = Wizard!Nobody]
          \/ \E o : v2' = [f \in Wizard!FieldKey |-> IF f \in o THEN "server" ELSE Wizard!Nobody]
      BY Zenon DEF Wizard!NextState, Wizard!Edit, Wizard!Enter, Wizard!Set, Wizard!GoToStep,
         Wizard!Back, Wizard!ShowStep, Wizard!Next, Wizard!Create, Wizard!Serve,
         Wizard!Answer, Wizard!Created, Wizard!Refused, Wizard!Failed, Wizard!Google
    <2> QED
      BY <1>2, <2>1, <2>2 DEF Wizard!NoErrors
  <1>5. v6' \in BOOLEAN
    BY <1>2, Zenon DEF Wizard!NextState, Wizard!Edit, Wizard!Enter, Wizard!Set, Wizard!Blur,
       Wizard!GoToStep, Wizard!Back, Wizard!ShowStep, Wizard!Next, Wizard!Create, Wizard!Serve,
       Wizard!Answer, Wizard!Created, Wizard!Refused, Wizard!Failed, Wizard!Google
  <1>6. v5' \in Wizard!FieldKey \cup {Wizard!NoField}
    <2>1. \A i : Wizard!AutoFocus(i) \in Wizard!FieldKey
      BY DEF Wizard!AutoFocus, Wizard!FieldKey
    <2>2. \/ v5' = v5 \/ v5' \in Wizard!FieldKey \/ v5' = Wizard!NoField
          \/ \E i : v5' = Wizard!AutoFocus(i)
      BY Zenon DEF Wizard!NextState, Wizard!Edit, Wizard!Enter, Wizard!Set, Wizard!Blur,
         Wizard!GoToStep, Wizard!Back, Wizard!ShowStep, Wizard!MoveTo, Wizard!Next,
         Wizard!Create, Wizard!Serve, Wizard!Answer, Wizard!Created, Wizard!Refused,
         Wizard!Failed, Wizard!Google
    <2> QED
      BY <1>2, <2>1, <2>2
  <1>7. v8'.state \in Wizard!Outcomes /\ v9' \in {"register", "verify-email", "login", "home"}
    <2>1. v8 = [state |-> v8.state, form |-> v8.form, objections |-> v8.objections]
      BY <1>1 DEF WizardInv, RegisterInv
    <2>2. CASE Wizard!Create \/ Wizard!Serve
      BY <1>2, <2>1, <2>2 DEF Wizard!Create, Wizard!Serve, Wizard!NoCall, Wizard!Outcomes
    <2>3. v8' = v8 \/ v8' = Wizard!NoCall \/ Wizard!Create \/ Wizard!Serve
      BY DEF Wizard!NextState, Wizard!Edit, Wizard!Enter, Wizard!Set, Wizard!Blur,
         Wizard!GoToStep, Wizard!Back, Wizard!Next, Wizard!Answer, Wizard!Created,
         Wizard!Refused, Wizard!Failed, Wizard!Google
    <2>4. v9' \in {v9, "verify-email", "login", "home"}
      BY Zenon DEF Wizard!NextState, Wizard!Edit, Wizard!Enter, Wizard!Set, Wizard!Blur,
         Wizard!GoToStep, Wizard!Back, Wizard!Next, Wizard!Create, Wizard!Serve,
         Wizard!Answer, Wizard!Created, Wizard!Refused, Wizard!Failed, Wizard!Google
    <2> QED
      BY <1>2, <2>2, <2>3, <2>4 DEF Wizard!NoCall, Wizard!Outcomes
  <1>8. v10' \in 0..Submits
    <2>1. CASE Wizard!Create
      BY <1>2, <2>1 DEF Wizard!Create
    <2>2. v10' = v10 \/ Wizard!Create
      BY DEF Wizard!NextState, Wizard!Edit, Wizard!Enter, Wizard!Set, Wizard!Blur,
         Wizard!GoToStep, Wizard!Back, Wizard!Next, Wizard!Serve,
         Wizard!Answer, Wizard!Created, Wizard!Refused, Wizard!Failed, Wizard!Google
    <2> QED
      BY <1>2, <2>1, <2>2
  <1>9. /\ v3' \in BOOLEAN /\ v7' \in BOOLEAN /\ v4' \in DOMAIN Wizard!STEPS
        /\ v8'.objections \subseteq Wizard!FieldKey
    BY <1>1, WizardFields, Zenon DEF WizardInv, ErrorsInv, RegisterInv, Wizard!FieldKey
  <1> QED
    BY <1>1, <1>3, <1>4, <1>5, <1>6, <1>7, <1>8, <1>9 DEF WizardTyped, Wizard!TypeOK, WizardTexts

LEMMA WizardTypedStays == ASSUME WizardTyped, UNCHANGED vars PROVE WizardTyped'
  BY WizardStays DEF vars, WizardTyped, Wizard!TypeOK

-----------------------------------------------------------------------------
(* A reviewer's page *)

ReviewAssumption == Reviewer!NamesAssumption /\ Reviewer!BoundAssumption

(* ReviewDetailPage: the newest load is for the address, nothing is shown  *)
(* until its application has come, and an answer is of what it was asked   *)
(* for.                                                                    *)
ReviewInv ==
    /\ Reviewer!TypeOK
    /\ v3 <= v15
    /\ v2 = Queue => /\ v4 = Reviewer!Nothing
                     /\ \A i \in Reviewer!LoadIds : v11[i].state = "none"
    /\ v2 # Queue => v12 \in Reviewer!LoadIds /\ v11[v12].of = v2
    /\ \A i \in Reviewer!LoadIds :
         /\ v11[i].state # "none" => v11[i].of \in Dossiers
         /\ v11[i].state = "ok" => v11[i].answer.of = v11[i].of
    /\ v2 # Queue /\ v11[v12].state \in {"sent", "ok", "failed"} => v4 = Reviewer!Nothing
    /\ Reviewer!ShownIsOfAddress
    /\ Reviewer!TrailIsOfAddress

States == {"none", "sent", "ok", "failed", "auditing", "auditOk", "auditFailed", "done"}

\* What ReviewInv says, by the variables it says it of.
PageTypes ==
    /\ v2 \in Dossiers \cup {Queue}
    /\ v4 \in Reviewer!Shown /\ v5 \in Dossiers \cup {NoApp} /\ v6 \in BOOLEAN
    /\ v11 \in [Reviewer!LoadIds -> Reviewer!Load] /\ v12 \in 0..Given.reviewer.loads

OtherTypes ==
    /\ v1 \in [Dossiers -> Reviewer!Dossier]
    /\ v3 \in 0..(Turns + Given.reviewer.calls)
    /\ v7 \in Reviewer!Decisions /\ v8 \in BOOLEAN
    /\ v9 \in {"none", "load", "notes", "review"} /\ v10 \in BOOLEAN
    /\ v13 \in [Reviewer!CallIds -> Reviewer!Call] /\ v14 \in 0..Given.reviewer.calls
    /\ v15 \in 0..Turns /\ v16 \in 0..Lost
    /\ v3 <= v15

PageFacts ==
    /\ v2 = Queue => /\ v4 = Reviewer!Nothing
                     /\ \A i \in Reviewer!LoadIds : v11[i].state = "none"
    /\ v2 # Queue => v12 \in Reviewer!LoadIds /\ v11[v12].of = v2
    /\ \A i \in Reviewer!LoadIds :
         /\ v11[i].state # "none" => v11[i].of \in Dossiers
         /\ v11[i].state = "ok" => v11[i].answer.of = v11[i].of
    /\ v2 # Queue /\ v11[v12].state \in {"sent", "ok", "failed"} => v4 = Reviewer!Nothing
    /\ Reviewer!ShownIsOfAddress
    /\ Reviewer!TrailIsOfAddress

LEMMA ReviewParts ==
    /\ ReviewInv <=> PageTypes /\ OtherTypes /\ PageFacts
    /\ ReviewInv' <=> PageTypes' /\ OtherTypes' /\ PageFacts'
  BY DEF ReviewInv, PageTypes, OtherTypes, PageFacts, Reviewer!TypeOK

LEMMA NothingShown ==
    ASSUME ReviewAssumption
    PROVE  /\ Reviewer!Nothing \in Reviewer!Shown /\ Reviewer!Nothing.of = NoApp
           /\ Reviewer!NoLoad \in Reviewer!Load /\ Reviewer!NoLoad.state = "none"
           /\ NoApp \notin Dossiers /\ Queue \notin Dossiers /\ Queue # NoApp
           /\ Given.reviewer.loads \in Nat \ {0}
  <1>1. Lost \in Nat /\ ReviewRounds \in Nat /\ Given.reviewer.loads \in Nat \ {0}
    BY DEF ReviewAssumption, Reviewer!BoundAssumption
  <1>2. Reviewer!Nothing \in Reviewer!Shown /\ Reviewer!Nothing.of = NoApp
    BY <1>1 DEF Reviewer!Nothing, Reviewer!Shown, Reviewer!Statuses, Reviewer!Rounds
  <1>3. Reviewer!NoLoad \in Reviewer!Load /\ Reviewer!NoLoad.state = "none"
    <2> HIDE DEF Reviewer!Nothing, Reviewer!Shown
    <2> QED
      BY <1>2 DEF Reviewer!NoLoad, Reviewer!Load
  <1> QED
    BY <1>1, <1>2, <1>3 DEF ReviewAssumption, Reviewer!NamesAssumption

(* A load() goes on to its next state, and nothing else of it changes. *)
LEMMA LoadGoesOn ==
    ASSUME PageTypes, NEW i \in Reviewer!LoadIds, NEW s \in States,
           v11' = [v11 EXCEPT ![i].state = s]
    PROVE  /\ v11' \in [Reviewer!LoadIds -> Reviewer!Load]
           /\ v11'[i].state = s /\ v11'[i].of = v11[i].of /\ v11'[i].answer = v11[i].answer
           /\ \A j \in Reviewer!LoadIds \ {i} : v11'[j] = v11[j]
  <1>1. v11 \in [Reviewer!LoadIds -> Reviewer!Load] /\ v11[i] \in Reviewer!Load
    BY DEF PageTypes
  <1>2. /\ [v11[i] EXCEPT !.state = s] \in Reviewer!Load
        /\ [v11[i] EXCEPT !.state = s].state = s
        /\ [v11[i] EXCEPT !.state = s].of = v11[i].of
        /\ [v11[i] EXCEPT !.state = s].answer = v11[i].answer
    <2> HIDE DEF Reviewer!Shown
    <2> QED
      BY <1>1 DEF Reviewer!Load, States
  <1>3. v11'[i] = [v11[i] EXCEPT !.state = s]
    BY <1>1
  <1>4. \A j \in Reviewer!LoadIds \ {i} : v11'[j] = v11[j]
    BY <1>1
  <1> HIDE DEF Reviewer!Load
  <1> QED
    BY <1>1, <1>2, <1>3, <1>4

(* A page that has just been opened, or has just gone. *)
LEMMA BlankPage ==
    ASSUME ReviewAssumption, Reviewer!Blank
    PROVE  /\ v4' = Reviewer!Nothing /\ v5' = NoApp /\ v6' = FALSE
           /\ v7' \in Reviewer!Decisions /\ v8' \in BOOLEAN
           /\ v9' \in {"none", "load", "notes", "review"} /\ v10' \in BOOLEAN
           /\ Reviewer!ShownIsOfAddress' /\ Reviewer!TrailIsOfAddress'
           /\ v4' \in Reviewer!Shown /\ v5' \in Dossiers \cup {NoApp} /\ v6' \in BOOLEAN
  BY NothingShown
  DEF Reviewer!Blank, Reviewer!Decisions, Reviewer!ShownIsOfAddress, Reviewer!TrailIsOfAddress

LEMMA UnmountedPage ==
    ASSUME ReviewAssumption, Reviewer!Unmount
    PROVE  PageTypes' /\ PageFacts' /\ v3' = v3
  <1>1. /\ v2' = Queue /\ v12' = 0 /\ v3' = v3
        /\ v11' = [i \in Reviewer!LoadIds |-> Reviewer!NoLoad]
        /\ Reviewer!Blank
    BY DEF Reviewer!Unmount
  <1>2. /\ v11' \in [Reviewer!LoadIds -> Reviewer!Load]
        /\ \A i \in Reviewer!LoadIds : v11'[i].state = "none"
    BY <1>1, NothingShown
  <1>3. v12' \in 0..Given.reviewer.loads
    BY <1>1, NothingShown
  <1> QED
    BY <1>1, <1>2, <1>3, BlankPage DEF PageTypes, PageFacts

LEMMA ReviewInit ==
    ASSUME ReviewAssumption, Reviewer!Init
    PROVE  ReviewInv
  <1>1. /\ v2 = Queue /\ v4 = Reviewer!Nothing /\ v5 = NoApp /\ v6 = FALSE /\ v12 = 0
        /\ v11 = [i \in Reviewer!LoadIds |-> Reviewer!NoLoad]
    BY DEF Reviewer!Init
  <1>2. /\ v11 \in [Reviewer!LoadIds -> Reviewer!Load]
        /\ \A i \in Reviewer!LoadIds : v11[i].state = "none"
    BY <1>1, NothingShown
  <1>3. v12 \in 0..Given.reviewer.loads
    BY <1>1, NothingShown
  <1>4. PageTypes /\ PageFacts
    BY <1>1, <1>2, <1>3, NothingShown
    DEF PageTypes, PageFacts, Reviewer!ShownIsOfAddress, Reviewer!TrailIsOfAddress
  <1>5. /\ Turns \in Nat /\ Given.reviewer.calls \in Nat /\ Lost \in Nat /\ ReviewRounds \in Nat
    BY DEF ReviewAssumption, Reviewer!BoundAssumption
  <1>6. v1 \in [Dossiers -> Reviewer!Dossier]
    <2>1. [status |-> "submitted", round |-> 0] \in Reviewer!Dossier
      BY <1>5 DEF Reviewer!Dossier, Reviewer!Statuses, Reviewer!Rounds
    <2> QED
      BY <2>1 DEF Reviewer!Init
  <1>7. v13 \in [Reviewer!CallIds -> Reviewer!Call]
    <2>1. Reviewer!NoCall \in Reviewer!Call
      BY <1>5 DEF Reviewer!NoCall, Reviewer!Call, Reviewer!Decisions
    <2> QED
      BY <2>1 DEF Reviewer!Init
  <1>8. v8 \in BOOLEAN /\ v10 \in BOOLEAN /\ v7 \in Reviewer!Decisions
        /\ v9 \in {"none", "load", "notes", "review"}
    BY DEF Reviewer!Init, Reviewer!Decisions
  <1>9. /\ v3 \in 0..(Turns + Given.reviewer.calls) /\ v14 \in 0..Given.reviewer.calls
        /\ v15 \in 0..Turns /\ v16 \in 0..Lost /\ v3 <= v15
    BY <1>5 DEF Reviewer!Init
  <1> QED
    BY <1>4, <1>6, <1>7, <1>8, <1>9, ReviewParts DEF OtherTypes

(* The effect on id, or the first mount, with request number n. *)
LEMMA LoadBegins ==
    ASSUME ReviewAssumption, PageTypes, NEW a \in Dossiers, NEW n \in Reviewer!LoadIds,
           v2' = a, v4' = Reviewer!Nothing, v12' = n,
           v5' \in Dossiers \cup {NoApp}, v6' \in BOOLEAN,
           v11' \in [Reviewer!LoadIds -> Reviewer!Load],
           v11'[n].of = a,
           \A i \in Reviewer!LoadIds :
             /\ v11'[i].state # "none" => v11'[i].of \in Dossiers
             /\ v11'[i].state = "ok" => v11'[i].answer.of = v11'[i].of
    PROVE  PageTypes' /\ PageFacts'
  <1>1. v12' \in 0..Given.reviewer.loads
    BY NothingShown DEF Reviewer!LoadIds
  <1> QED
    BY <1>1, NothingShown
    DEF PageTypes, PageFacts, Reviewer!ShownIsOfAddress, Reviewer!TrailIsOfAddress

LEMMA FreshLoad ==
    ASSUME ReviewAssumption, NEW a \in Dossiers
    PROVE  LET fresh == [Reviewer!NoLoad EXCEPT !.state = "sent", !.of = a]
           IN  fresh \in Reviewer!Load /\ fresh.of = a /\ fresh.state = "sent"
  <1> HIDE DEF Reviewer!Nothing, Reviewer!Shown
  <1>1. Reviewer!Nothing \in Reviewer!Shown
    BY NothingShown
  <1> QED
    BY <1>1 DEF Reviewer!NoLoad, Reviewer!Load

(* What no step of a load or of the address touches. *)
LEMMA OthersStay ==
    ASSUME ReviewAssumption, OtherTypes,
           v1' = v1, v13' = v13, v14' = v14,
           v3' \in Nat, v3' <= v15', v15' \in 0..Turns, v16' \in 0..Lost,
           v7' \in Reviewer!Decisions, v8' \in BOOLEAN,
           v9' \in {"none", "load", "notes", "review"}, v10' \in BOOLEAN
    PROVE  OtherTypes'
  <1>1. Turns \in Nat /\ Given.reviewer.calls \in Nat
    BY DEF ReviewAssumption, Reviewer!BoundAssumption
  <1>4. v3' \in 0..(Turns + Given.reviewer.calls)
    BY <1>1
  <1>5. /\ v1' \in [Dossiers -> Reviewer!Dossier]
        /\ v13' \in [Reviewer!CallIds -> Reviewer!Call] /\ v14' \in 0..Given.reviewer.calls
    BY DEF OtherTypes, Reviewer!Dossier, Reviewer!Call
  <1> QED
    BY <1>4, <1>5 DEF OtherTypes

\* The bounds, as numbers.
LEMMA ReviewCounters ==
    ASSUME ReviewAssumption, OtherTypes
    PROVE  /\ v3 \in Nat /\ v3 <= v15 /\ v15 \in 0..Turns /\ v16 \in 0..Lost
           /\ v14 \in 0..Given.reviewer.calls
           /\ Turns \in Nat /\ Given.reviewer.calls \in Nat /\ Lost \in Nat
           /\ v15 < Turns => v15 + 1 \in 0..Turns /\ v3 + 1 <= v15 + 1 /\ v3 <= v15 + 1
           /\ v16 < Lost => v16 + 1 \in 0..Lost
  BY DEF ReviewAssumption, Reviewer!BoundAssumption, OtherTypes

LEMMA ReviewOpened ==
    ASSUME ReviewAssumption, ReviewInv, NEW a \in Dossiers, Reviewer!Open(a)
    PROVE  ReviewInv'
  <1>1. PageTypes /\ OtherTypes /\ PageFacts
    BY ReviewParts
  <1>2. /\ v2' = a /\ v12' = 1 /\ v11' = Reviewer!FirstLoad(a) /\ Reviewer!Blank
        /\ v15 < Turns /\ v15' = v15 + 1 /\ v3' = v3 + 1
        /\ v1' = v1 /\ v13' = v13 /\ v14' = v14 /\ v16' = v16
    BY DEF Reviewer!Open
  <1> DEFINE fresh == [Reviewer!NoLoad EXCEPT !.state = "sent", !.of = a]
  <1>3. fresh \in Reviewer!Load /\ fresh.of = a /\ fresh.state = "sent"
    BY FreshLoad
  <1>4. v11' = [i \in Reviewer!LoadIds |-> IF i = 1 THEN fresh ELSE Reviewer!NoLoad]
    BY <1>2 DEF Reviewer!FirstLoad
  <1> HIDE DEF fresh
  <1>5. 1 \in Reviewer!LoadIds
    BY NothingShown DEF Reviewer!LoadIds
  <1>6. /\ v11' \in [Reviewer!LoadIds -> Reviewer!Load] /\ v11'[1].of = a
        /\ \A i \in Reviewer!LoadIds :
             v11'[i].state # "ok" /\ (v11'[i].state # "none" => v11'[i].of \in Dossiers)
    BY <1>3, <1>4, <1>5, NothingShown
  <1>7. PageTypes' /\ PageFacts'
    BY <1>1, <1>2, <1>5, <1>6, BlankPage, LoadBegins
  <1>8. OtherTypes'
    <2>1. v3' \in Nat /\ v3' <= v15' /\ v15' \in 0..Turns /\ v16' \in 0..Lost
      BY <1>1, <1>2, ReviewCounters
    <2> QED
      BY <1>1, <1>2, <2>1, BlankPage, OthersStay
  <1> QED
    BY <1>7, <1>8, ReviewParts

LEMMA ReviewMoved ==
    ASSUME ReviewAssumption, ReviewInv, NEW a \in Dossiers, Reviewer!Move(a)
    PROVE  ReviewInv'
  <1>1. PageTypes /\ OtherTypes /\ PageFacts
    BY ReviewParts
  <1> DEFINE fresh == [Reviewer!NoLoad EXCEPT !.state = "sent", !.of = a]
  <1>2. /\ v2' = a /\ v12' = v12 + 1 /\ v11' = [v11 EXCEPT ![v12 + 1] = fresh]
        /\ v2 \in Dossiers /\ v12 < Given.reviewer.loads
        /\ v15 < Turns /\ v15' = v15 + 1 /\ v3' = v3 /\ v4' = Reviewer!Nothing
        /\ v9' = "none"
        /\ v1' = v1 /\ v13' = v13 /\ v14' = v14 /\ v16' = v16
        /\ v5' = v5 /\ v6' = v6 /\ v7' = v7 /\ v8' = v8 /\ v10' = v10
    BY DEF Reviewer!Move, Reviewer!entered
  <1>3. fresh \in Reviewer!Load /\ fresh.of = a /\ fresh.state = "sent"
    BY FreshLoad
  <1> HIDE DEF fresh
  <1>4. v12 + 1 \in Reviewer!LoadIds
    BY <1>1, <1>2, NothingShown DEF PageTypes, Reviewer!LoadIds
  <1>5. /\ v11' \in [Reviewer!LoadIds -> Reviewer!Load] /\ v11'[v12 + 1] = fresh
        /\ \A i \in Reviewer!LoadIds : i # v12 + 1 => v11'[i] = v11[i]
    BY <1>1, <1>2, <1>3, <1>4 DEF PageTypes
  <1>6. \A i \in Reviewer!LoadIds :
          /\ v11'[i].state # "none" => v11'[i].of \in Dossiers
          /\ v11'[i].state = "ok" => v11'[i].answer.of = v11'[i].of
    BY <1>1, <1>3, <1>5 DEF PageFacts
  <1>7. PageTypes' /\ PageFacts'
    <2>1. v5' \in Dossiers \cup {NoApp} /\ v6' \in BOOLEAN
      BY <1>1, <1>2 DEF PageTypes
    <2> QED
      BY <1>1, <1>2, <1>3, <1>4, <1>5, <1>6, <2>1, LoadBegins
  <1>8. OtherTypes'
    <2>1. v7' \in Reviewer!Decisions /\ v8' \in BOOLEAN /\ v10' \in BOOLEAN
      BY <1>1, <1>2 DEF OtherTypes
    <2>2. v3' \in Nat /\ v3' <= v15' /\ v15' \in 0..Turns /\ v16' \in 0..Lost
      BY <1>1, <1>2, ReviewCounters
    <2> QED
      BY <1>1, <1>2, <2>1, <2>2, OthersStay
  <1> QED
    BY <1>7, <1>8, ReviewParts

LEMMA ReviewServed ==
    ASSUME ReviewAssumption, ReviewInv, NEW i \in Reviewer!LoadIds,
           Reviewer!Serve(i) \/ Reviewer!Fail(i)
    PROVE  ReviewInv'
  <1>1. PageTypes /\ OtherTypes /\ PageFacts
    BY ReviewParts
  <1>2. /\ v1' = v1 /\ v2' = v2 /\ v3' = v3 /\ v4' = v4 /\ v5' = v5 /\ v6' = v6
        /\ v7' = v7 /\ v8' = v8 /\ v9' = v9 /\ v10' = v10 /\ v12' = v12 /\ v13' = v13
        /\ v14' = v14 /\ v15' = v15
    BY DEF Reviewer!Serve, Reviewer!Fail, Reviewer!shown, Reviewer!entered, Reviewer!bounds
  <1>8. v16' = v16 \/ (v16 < Lost /\ v16' = v16 + 1)
    BY DEF Reviewer!Serve, Reviewer!Fail, Reviewer!bounds
  <1>3. /\ v11 \in [Reviewer!LoadIds -> Reviewer!Load] /\ v11[i] \in Reviewer!Load
        /\ v1 \in [Dossiers -> Reviewer!Dossier]
    BY <1>1 DEF PageTypes, OtherTypes
  <1>4. /\ v11' \in [Reviewer!LoadIds -> Reviewer!Load] /\ v11'[i].of = v11[i].of
        /\ \A j \in Reviewer!LoadIds \ {i} : v11'[j] = v11[j]
        /\ v11'[i].state = "ok" => v11'[i].answer.of = v11'[i].of
        /\ \/ v11[i].state = "sent" /\ v11'[i].state \in {"ok", "failed"}
           \/ v11[i].state = "auditing" /\ v11'[i].state \in {"auditOk", "auditFailed"}
    <2>1. CASE /\ v11[i].state = "sent"
               /\ v11' = [v11 EXCEPT ![i].state = "ok",
                                     ![i].answer = Reviewer!Snapshot(v11[i].of)]
      <3>1. v11[i].of \in Dossiers
        BY <1>1, <2>1 DEF PageFacts
      <3> QED
        <4>1. /\ Reviewer!Snapshot(v11[i].of) \in Reviewer!Shown
              /\ Reviewer!Snapshot(v11[i].of).of = v11[i].of
          BY <1>3, <3>1 DEF Reviewer!Snapshot, Reviewer!Shown, Reviewer!Dossier
        <4> DEFINE answered == [v11[i] EXCEPT !.state = "ok",
                                              !.answer = Reviewer!Snapshot(v11[i].of)]
        <4> HIDE DEF Reviewer!Snapshot, Reviewer!Shown
        <4>2. /\ answered \in Reviewer!Load /\ answered.state = "ok"
              /\ answered.of = v11[i].of /\ answered.answer.of = answered.of
          BY <1>3, <4>1 DEF Reviewer!Load
        <4>3. v11' = [v11 EXCEPT ![i] = answered]
          BY <1>3, <2>1
        <4> HIDE DEF answered, Reviewer!Load
        <4> QED
          BY <1>3, <2>1, <4>2, <4>3
    <2>2. ASSUME NEW s \in {"failed", "auditOk", "auditFailed"},
                 v11' = [v11 EXCEPT ![i].state = s],
                 IF s = "failed" THEN v11[i].state = "sent" ELSE v11[i].state = "auditing"
          PROVE  /\ v11' \in [Reviewer!LoadIds -> Reviewer!Load] /\ v11'[i].of = v11[i].of
                 /\ \A j \in Reviewer!LoadIds \ {i} : v11'[j] = v11[j]
                 /\ v11'[i].state = "ok" => v11'[i].answer.of = v11'[i].of
                 /\ \/ v11[i].state = "sent" /\ v11'[i].state \in {"ok", "failed"}
                    \/ v11[i].state = "auditing" /\ v11'[i].state \in {"auditOk", "auditFailed"}
      BY <1>1, <2>2, LoadGoesOn DEF States
    <2> QED
      BY <2>1, <2>2 DEF Reviewer!Serve, Reviewer!Fail
  <1>5. PageTypes'
    BY <1>1, <1>2, <1>4 DEF PageTypes, Reviewer!Shown
  <1>6. PageFacts'
    BY <1>1, <1>2, <1>3, <1>4
    DEF PageTypes, PageFacts, Reviewer!ShownIsOfAddress, Reviewer!TrailIsOfAddress,
        Reviewer!Nothing
  <1>7. OtherTypes'
    <2>1. v7' \in Reviewer!Decisions /\ v8' \in BOOLEAN /\ v10' \in BOOLEAN
          /\ v9' \in {"none", "load", "notes", "review"}
      BY <1>1, <1>2 DEF OtherTypes
    <2>2. v3' \in Nat /\ v3' <= v15' /\ v15' \in 0..Turns /\ v16' \in 0..Lost
      BY <1>1, <1>2, <1>8, ReviewCounters
    <2> QED
      BY <1>1, <1>2, <2>1, <2>2, OthersStay
  <1> QED
    BY <1>5, <1>6, <1>7, ReviewParts

\* One of the loads goes on, and nothing else changes but what is shown of it.
LEMMA ReviewReceived ==
    ASSUME ReviewAssumption, ReviewInv, NEW i \in Reviewer!LoadIds,
           Reviewer!ReceiveApp(i) \/ Reviewer!ReceiveError(i) \/ Reviewer!ReceiveTrail(i)
    PROVE  ReviewInv'
  <1>1. PageTypes /\ OtherTypes /\ PageFacts
    BY ReviewParts
  <1>2. /\ v1' = v1 /\ v2' = v2 /\ v3' = v3 /\ v7' = v7 /\ v8' = v8 /\ v10' = v10
        /\ v12' = v12 /\ v13' = v13 /\ v14' = v14 /\ v15' = v15 /\ v16' = v16
        /\ v9' \in {v9, "load"}
    BY DEF Reviewer!ReceiveApp, Reviewer!ReceiveError, Reviewer!ReceiveTrail,
           Reviewer!shown, Reviewer!entered, Reviewer!bounds
  <1>3. /\ v11 \in [Reviewer!LoadIds -> Reviewer!Load] /\ v11[i] \in Reviewer!Load
        /\ v11[i].answer \in Reviewer!Shown
    BY <1>1 DEF PageTypes, Reviewer!Load
  <1>4. OtherTypes'
    <2>1. v7' \in Reviewer!Decisions /\ v8' \in BOOLEAN /\ v10' \in BOOLEAN
          /\ v9' \in {"none", "load", "notes", "review"}
      BY <1>1, <1>2 DEF OtherTypes
    <2>2. v3' \in Nat /\ v3' <= v15' /\ v15' \in 0..Turns /\ v16' \in 0..Lost
      BY <1>1, <1>2, ReviewCounters
    <2> QED
      BY <1>1, <1>2, <2>1, <2>2, OthersStay
  <1>5. ASSUME Reviewer!ReceiveApp(i)
        PROVE  PageTypes' /\ PageFacts'
    <2>1. CASE i = v12
      <3>1. /\ v11[i].state = "ok" /\ v4' = v11[i].answer /\ v6' = FALSE /\ v5' = v5
            /\ v11' = [v11 EXCEPT ![i].state = "auditing"]
        BY <1>5, <2>1 DEF Reviewer!ReceiveApp, Reviewer!Newest
      <3>2. /\ v11' \in [Reviewer!LoadIds -> Reviewer!Load]
            /\ v11'[i].state = "auditing" /\ v11'[i].of = v11[i].of
            /\ v11'[i].answer = v11[i].answer
            /\ \A j \in Reviewer!LoadIds \ {i} : v11'[j] = v11[j]
        BY <1>1, <3>1, LoadGoesOn DEF States
      <3>3. PageTypes'
        BY <1>1, <1>2, <1>3, <3>1, <3>2 DEF PageTypes
      <3>4. v2 # Queue
        BY <1>1, <2>1, <3>1, NothingShown DEF PageFacts, PageTypes
      <3>5. v11[i].answer.of = v2
        BY <1>1, <2>1, <3>1, <3>4 DEF PageFacts
      <3> QED
        BY <1>1, <1>2, <2>1, <3>1, <3>2, <3>3, <3>4, <3>5
        DEF PageFacts, Reviewer!ShownIsOfAddress, Reviewer!TrailIsOfAddress
    <2>2. CASE i # v12
      <3>1. /\ v4' = v4 /\ v6' = v6 /\ v5' = v5
            /\ v11' = [v11 EXCEPT ![i].state = "done"]
        BY <1>5, <2>2 DEF Reviewer!ReceiveApp, Reviewer!Newest
      <3>2. /\ v11' \in [Reviewer!LoadIds -> Reviewer!Load]
            /\ v11'[i].state = "done" /\ v11'[i].of = v11[i].of
            /\ v11'[i].answer = v11[i].answer
            /\ \A j \in Reviewer!LoadIds \ {i} : v11'[j] = v11[j]
        BY <1>1, <3>1, LoadGoesOn DEF States
      <3>3. PageTypes'
        BY <1>1, <1>2, <1>3, <3>1, <3>2 DEF PageTypes, Reviewer!Shown
      <3>5. v11[i].state # "none"
        BY <1>5 DEF Reviewer!ReceiveApp
      <3> QED
        BY <1>1, <1>2, <2>2, <3>1, <3>2, <3>3, <3>5
        DEF PageFacts, Reviewer!ShownIsOfAddress, Reviewer!TrailIsOfAddress, Reviewer!Nothing
    <2> QED
      BY <2>1, <2>2
  <1>6. ASSUME Reviewer!ReceiveError(i)
        PROVE  PageTypes' /\ PageFacts'
    <2>1. /\ v11[i].state = "failed" /\ v4' = v4 /\ v6' = v6 /\ v5' = v5
          /\ v11' = [v11 EXCEPT ![i].state = "done"]
      BY <1>6 DEF Reviewer!ReceiveError, Reviewer!shown
    <2>2. /\ v11' \in [Reviewer!LoadIds -> Reviewer!Load]
          /\ v11'[i].state = "done" /\ v11'[i].of = v11[i].of
          /\ v11'[i].answer = v11[i].answer
          /\ \A j \in Reviewer!LoadIds \ {i} : v11'[j] = v11[j]
      BY <1>1, <2>1, LoadGoesOn DEF States
    <2>3. PageTypes'
      BY <1>1, <1>2, <1>3, <2>1, <2>2 DEF PageTypes, Reviewer!Shown
    <2>4. i = v12 /\ v2 # Queue => v4 = Reviewer!Nothing
      BY <1>1, <2>1 DEF PageFacts
    <2> QED
      BY <1>1, <1>2, <2>1, <2>2, <2>3, <2>4
      DEF PageFacts, Reviewer!ShownIsOfAddress, Reviewer!TrailIsOfAddress, Reviewer!Nothing
  <1>7. ASSUME Reviewer!ReceiveTrail(i)
        PROVE  PageTypes' /\ PageFacts'
    <2>1. /\ v11[i].state \in {"auditOk", "auditFailed"} /\ v4' = v4
          /\ v5' = IF i = v12 /\ v11[i].state = "auditOk" THEN v11[i].of ELSE v5
          /\ v6' = (v6 \/ (i = v12 /\ v11[i].state = "auditFailed"))
          /\ v11' = [v11 EXCEPT ![i].state = "done"]
      BY <1>7 DEF Reviewer!ReceiveTrail, Reviewer!Newest
    <2>2. /\ v11' \in [Reviewer!LoadIds -> Reviewer!Load]
          /\ v11'[i].state = "done" /\ v11'[i].of = v11[i].of
          /\ v11'[i].answer = v11[i].answer
          /\ \A j \in Reviewer!LoadIds \ {i} : v11'[j] = v11[j]
      BY <1>1, <2>1, LoadGoesOn DEF States
    <2>3. v11[i].of \in Dossiers
      BY <1>1, <2>1 DEF PageFacts
    <2>4. PageTypes'
      BY <1>1, <1>2, <1>3, <2>1, <2>2, <2>3 DEF PageTypes, Reviewer!Shown
    <2>5. v4 # Reviewer!Nothing => v2 # Queue /\ v4.of = v2
      BY <1>1 DEF PageFacts, Reviewer!ShownIsOfAddress
    <2>6. v4 # Reviewer!Nothing /\ i = v12 /\ v6' = FALSE => v5' = v2
      BY <1>1, <2>1, <2>5 DEF PageFacts, PageTypes
    <2>8. v4 # Reviewer!Nothing /\ i # v12 /\ v11[v12].state = "done" /\ ~v6 => v5 = v2
      BY <1>1 DEF PageFacts, Reviewer!TrailIsOfAddress
    <2>9. v4 # Reviewer!Nothing /\ i # v12 => v11'[v12] = v11[v12]
      BY <1>1, <2>2, <2>5 DEF PageFacts
    <2>10. v4' # Reviewer!Nothing /\ v11'[v12'].state = "done" /\ ~v6' => v5' = v2'
      <3>1. CASE i = v12
        BY <1>2, <2>1, <2>6, <3>1
      <3>2. CASE i # v12
        BY <1>2, <2>1, <2>8, <2>9, <3>2
      <3> QED
        BY <3>1, <3>2
    <2> QED
      BY <1>1, <1>2, <2>1, <2>2, <2>4, <2>5, <2>10
      DEF PageFacts, Reviewer!ShownIsOfAddress, Reviewer!TrailIsOfAddress, Reviewer!Nothing
  <1> QED
    BY <1>4, <1>5, <1>6, <1>7, ReviewParts

\* The server decides, and the applicant resubmits: the page stays.
LEMMA PageStays ==
    ASSUME PageTypes, PageFacts,
           v2' = v2, v4' = v4, v5' = v5, v6' = v6, v11' = v11, v12' = v12
    PROVE  PageTypes' /\ PageFacts'
  BY DEF PageTypes, PageFacts, Reviewer!ShownIsOfAddress, Reviewer!TrailIsOfAddress,
         Reviewer!Nothing, Reviewer!Shown, Reviewer!Load

LEMMA ReviewDecided ==
    ASSUME ReviewAssumption, OtherTypes, NEW a, NEW s \in Reviewer!Statuses,
           v1' = [v1 EXCEPT ![a].status = s]
    PROVE  v1' \in [Dossiers -> Reviewer!Dossier]
  <1>1. v1 \in [Dossiers -> Reviewer!Dossier]
    BY DEF OtherTypes
  <1>2. \A x \in Reviewer!Dossier : [x EXCEPT !.status = s] \in Reviewer!Dossier
    BY DEF Reviewer!Dossier
  <1> HIDE DEF Reviewer!Dossier
  <1> QED
    BY <1>1, <1>2

LEMMA CallGoesOn ==
    ASSUME ReviewAssumption, OtherTypes, NEW c \in Reviewer!CallIds,
           NEW s \in {"none", "sent", "ok", "failed", "done"},
           v13' = [v13 EXCEPT ![c].state = s]
    PROVE  v13' \in [Reviewer!CallIds -> Reviewer!Call]
  <1>1. v13 \in [Reviewer!CallIds -> Reviewer!Call]
    BY DEF OtherTypes
  <1>2. \A x \in Reviewer!Call : [x EXCEPT !.state = s] \in Reviewer!Call
    BY DEF Reviewer!Call
  <1> HIDE DEF Reviewer!Call
  <1> QED
    BY <1>1, <1>2

LEMMA ReviewLeft ==
    ASSUME ReviewAssumption, ReviewInv, Reviewer!Leave
    PROVE  ReviewInv'
  <1>1. PageTypes /\ OtherTypes /\ PageFacts
    BY ReviewParts
  <1>2. /\ Reviewer!Unmount /\ Reviewer!Blank
        /\ v1' = v1 /\ v13' = v13 /\ v14' = v14 /\ v15' = v15 /\ v16' = v16
    BY DEF Reviewer!Leave, Reviewer!Unmount, Reviewer!bounds
  <1>3. PageTypes' /\ PageFacts' /\ v3' = v3
    BY <1>2, UnmountedPage
  <1>4. OtherTypes'
    BY <1>1, <1>2, <1>3, BlankPage, ReviewCounters, OthersStay
  <1> QED
    BY <1>3, <1>4, ReviewParts

LEMMA ReviewEntered ==
    ASSUME ReviewAssumption, ReviewInv,
           NEW d \in Reviewer!Decisions, NEW n \in BOOLEAN, Reviewer!Enter(d, n)
    PROVE  ReviewInv'
  <1>1. PageTypes /\ OtherTypes /\ PageFacts
    BY ReviewParts
  <1>2. /\ v1' = v1 /\ v2' = v2 /\ v3' = v3 /\ v4' = v4 /\ v5' = v5 /\ v6' = v6
        /\ v7' = d /\ v8' = n /\ v9' = v9 /\ v10' = v10 /\ v11' = v11 /\ v12' = v12
        /\ v13' = v13 /\ v14' = v14 /\ v15' = v15 /\ v16' = v16
    BY DEF Reviewer!Enter, Reviewer!shown, Reviewer!bounds
  <1>3. v9' \in {"none", "load", "notes", "review"} /\ v10' \in BOOLEAN
    BY <1>1, <1>2 DEF OtherTypes
  <1>4. v3' \in Nat /\ v3' <= v15' /\ v15' \in 0..Turns /\ v16' \in 0..Lost
    BY <1>1, <1>2, ReviewCounters
  <1> QED
    BY <1>1, <1>2, <1>3, <1>4, PageStays, OthersStay, ReviewParts

LEMMA ReviewSubmitted ==
    ASSUME ReviewAssumption, ReviewInv, Reviewer!Submit
    PROVE  ReviewInv'
  <1>1. PageTypes /\ OtherTypes /\ PageFacts
    BY ReviewParts
  <1>2. /\ v1' = v1 /\ v2' = v2 /\ v3' = v3 /\ v4' = v4 /\ v5' = v5 /\ v6' = v6
        /\ v7' = v7 /\ v8' = v8 /\ v11' = v11 /\ v12' = v12
        /\ v15' = v15 /\ v16' = v16
    BY DEF Reviewer!Submit, Reviewer!shown, Reviewer!entered, Reviewer!bounds
  <1>3. \/ v9' = "notes" /\ v10' = v10 /\ v13' = v13 /\ v14' = v14
        \/ /\ v14 < Given.reviewer.calls /\ v14' = v14 + 1 /\ v10' = TRUE /\ v9' = "none"
           /\ v13' = [v13 EXCEPT ![v14 + 1] =
                        [state |-> "sent", of |-> v2, decision |-> v7, mount |-> v3]]
    BY DEF Reviewer!Submit
  <1>4. PageTypes' /\ PageFacts'
    BY <1>1, <1>2, PageStays
  <1>5. v3' \in Nat /\ v3' <= v15' /\ v15' \in 0..Turns /\ v16' \in 0..Lost
    BY <1>1, <1>2, ReviewCounters
  <1>6. /\ v7' \in Reviewer!Decisions /\ v8' \in BOOLEAN
        /\ v9' \in {"none", "load", "notes", "review"} /\ v10' \in BOOLEAN
    BY <1>1, <1>2, <1>3 DEF OtherTypes
  <1>7. CASE v13' = v13 /\ v14' = v14
    BY <1>1, <1>2, <1>4, <1>5, <1>6, <1>7, OthersStay, ReviewParts
  <1>8. CASE /\ v14 < Given.reviewer.calls /\ v14' = v14 + 1
             /\ v13' = [v13 EXCEPT ![v14 + 1] =
                          [state |-> "sent", of |-> v2, decision |-> v7, mount |-> v3]]
    <2>1. v2 \in Dossiers
      BY <1>1 DEF PageFacts, PageTypes, Reviewer!Submit, Reviewer!FormShown
    <2>2. [state |-> "sent", of |-> v2, decision |-> v7, mount |-> v3] \in Reviewer!Call
      BY <1>1, <2>1 DEF OtherTypes, Reviewer!Call
    <2>3. v14' \in 0..Given.reviewer.calls
      BY <1>1, <1>8, ReviewCounters
    <2>4. v13' \in [Reviewer!CallIds -> Reviewer!Call]
      <3> HIDE DEF Reviewer!Call
      <3> QED
        BY <1>1, <1>8, <2>2 DEF OtherTypes
    <2>5. v3' \in 0..(Turns + Given.reviewer.calls) /\ v1' \in [Dossiers -> Reviewer!Dossier]
      BY <1>1, <1>2 DEF OtherTypes, Reviewer!Dossier
    <2>6. OtherTypes'
      BY <1>5, <1>6, <2>3, <2>4, <2>5 DEF OtherTypes
    <2> QED
      BY <1>4, <2>6, ReviewParts
  <1> QED
    BY <1>3, <1>7, <1>8

LEMMA ReviewAnswered ==
    ASSUME ReviewAssumption, ReviewInv, NEW c \in Reviewer!CallIds, Reviewer!CallStep(c)
    PROVE  ReviewInv'
  <1>1. PageTypes /\ OtherTypes /\ PageFacts
    BY ReviewParts
  <1>2. /\ v14' = v14 /\ v15' = v15
        /\ v16' = v16 \/ (v16 < Lost /\ v16' = v16 + 1)
    BY DEF Reviewer!CallStep, Reviewer!ServeDecision, Reviewer!DecisionTaken,
           Reviewer!DecisionRefused, Reviewer!bounds
  <1>3. v13' \in [Reviewer!CallIds -> Reviewer!Call]
    <2>1. \E s \in {"ok", "failed", "done"} : v13' = [v13 EXCEPT ![c].state = s]
      BY DEF Reviewer!CallStep, Reviewer!ServeDecision, Reviewer!DecisionTaken,
             Reviewer!DecisionRefused
    <2> QED
      BY <1>1, <2>1, CallGoesOn
  <1>4. v1' \in [Dossiers -> Reviewer!Dossier]
    <2>1. CASE v1' = v1
      BY <1>1, <2>1 DEF OtherTypes, Reviewer!Dossier
    <2>2. CASE v1' = [v1 EXCEPT ![v13[c].of].status = Reviewer!Outcome(v13[c].decision)]
      BY <1>1, <2>2, ReviewDecided DEF Reviewer!Outcome, Reviewer!Statuses
    <2> QED
      BY <2>1, <2>2 DEF Reviewer!CallStep, Reviewer!ServeDecision, Reviewer!DecisionTaken,
             Reviewer!DecisionRefused
  <1>5. /\ PageTypes' /\ PageFacts' /\ v3' = v3
        /\ v7' \in Reviewer!Decisions /\ v8' \in BOOLEAN
        /\ v9' \in {"none", "load", "notes", "review"} /\ v10' \in BOOLEAN
    <2>1. CASE Reviewer!Unmount
      BY <2>1, UnmountedPage, BlankPage DEF Reviewer!Unmount
    <2>2. CASE /\ v2' = v2 /\ v3' = v3 /\ v4' = v4 /\ v5' = v5 /\ v6' = v6
               /\ v7' = v7 /\ v8' = v8 /\ v11' = v11 /\ v12' = v12
               /\ v9' \in {v9, "review"} /\ v10' \in {v10, FALSE}
      BY <1>1, <2>2, PageStays DEF OtherTypes
    <2>3. \/ Reviewer!Unmount
          \/ /\ v2' = v2 /\ v3' = v3 /\ v4' = v4 /\ v5' = v5 /\ v6' = v6
             /\ v7' = v7 /\ v8' = v8 /\ v11' = v11 /\ v12' = v12
             /\ v9' \in {v9, "review"} /\ v10' \in {v10, FALSE}
      BY DEF Reviewer!CallStep, Reviewer!ServeDecision, Reviewer!DecisionTaken,
             Reviewer!DecisionRefused, Reviewer!shown, Reviewer!entered
    <2> QED
      BY <2>1, <2>2, <2>3
  <1>6. OtherTypes'
    <2>1. /\ v16' \in 0..Lost /\ v15' \in 0..Turns /\ v14' \in 0..Given.reviewer.calls
          /\ v3' <= v15' /\ v3' \in Nat
      BY <1>1, <1>2, <1>5, ReviewCounters
    <2>2. v3' \in 0..(Turns + Given.reviewer.calls)
      BY <1>1, <1>5 DEF OtherTypes
    <2> QED
      BY <1>3, <1>4, <1>5, <2>1, <2>2 DEF OtherTypes
  <1> QED
    BY <1>5, <1>6, ReviewParts

LEMMA ReviewElsewhere ==
    ASSUME ReviewAssumption, ReviewInv, NEW a \in Dossiers,
           Reviewer!Resubmit(a) \/ \E d \in Reviewer!Decisions : Reviewer!DecideElsewhere(a, d)
    PROVE  ReviewInv'
  <1>1. PageTypes /\ OtherTypes /\ PageFacts
    BY ReviewParts
  <1>2. /\ v2' = v2 /\ v3' = v3 /\ v4' = v4 /\ v5' = v5 /\ v6' = v6 /\ v7' = v7
        /\ v8' = v8 /\ v9' = v9 /\ v10' = v10 /\ v11' = v11 /\ v12' = v12
        /\ v13' = v13 /\ v14' = v14 /\ v15' = v15 /\ v16' = v16
    BY DEF Reviewer!Resubmit, Reviewer!DecideElsewhere, Reviewer!shown, Reviewer!entered,
           Reviewer!bounds
  <1>3. v1' \in [Dossiers -> Reviewer!Dossier]
    <2>1. CASE \E d \in Reviewer!Decisions : Reviewer!DecideElsewhere(a, d)
      BY <1>1, <2>1, ReviewDecided DEF Reviewer!DecideElsewhere, Reviewer!Outcome, Reviewer!Statuses
    <2>2. CASE Reviewer!Resubmit(a)
      <3>1. /\ v1 \in [Dossiers -> Reviewer!Dossier] /\ ReviewRounds \in Nat
            /\ v1[a] \in Reviewer!Dossier
        BY <1>1 DEF OtherTypes, ReviewAssumption, Reviewer!BoundAssumption
      <3> DEFINE again == [v1[a] EXCEPT !.status = "submitted", !.round = @ + 1]
      <3>2. again \in Reviewer!Dossier /\ v1' = [v1 EXCEPT ![a] = again]
        BY <2>2, <3>1 DEF Reviewer!Resubmit, Reviewer!Dossier, Reviewer!Statuses,
                          Reviewer!Rounds
      <3> HIDE DEF again
      <3> QED
        BY <3>1, <3>2
    <2> QED
      BY <2>1, <2>2
  <1>4. PageTypes' /\ PageFacts'
    BY <1>1, <1>2, PageStays
  <1>5. OtherTypes'
    BY <1>1, <1>2, <1>3 DEF OtherTypes, Reviewer!Call
  <1> QED
    BY <1>4, <1>5, ReviewParts

LEMMA ReviewStep ==
    ASSUME ReviewAssumption, ReviewInv, Reviewer!Next
    PROVE  ReviewInv'
  BY ReviewOpened, ReviewMoved, ReviewElsewhere, ReviewLeft, ReviewServed, ReviewReceived, ReviewEntered, ReviewSubmitted, ReviewAnswered
  DEF Reviewer!Next, Reviewer!LoadStep

LEMMA ReviewStays == ASSUME ReviewInv, UNCHANGED vars PROVE ReviewInv'
  BY DEF vars,
    ReviewInv, Reviewer!TypeOK, Reviewer!ShownIsOfAddress,
    Reviewer!TrailIsOfAddress, Reviewer!Call

-----------------------------------------------------------------------------
(* CommandMenu *)

(* CommandMenu: the highlight is a place, and the options are the          *)
(* caller's.                                                               *)
MenuInv ==
    /\ v1 \in Given.menu.lists
    /\ v4 \in BOOLEAN
    /\ v5 \in DOMAIN Given.menu.hits
    /\ v6 \in Nat

LEMMA SmallestExists ==
    ASSUME NEW S \in SUBSET Nat, S # {}
    PROVE  \E k \in S : \A j \in S : k <= j
  <1> DEFINE R == StrictSubsetOrdering(Nat)
             T == {0..k : k \in S}
  <1>1. \A k \in Nat : IsFiniteSet(0..k) /\ 0..k \in SUBSET Nat
    BY FS_Interval
  <1>2. T \subseteq FiniteSubsetsOf(Nat) /\ T # {}
    BY <1>1 DEF FiniteSubsetsOf
  <1>3. IsWellFoundedOn(R, FiniteSubsetsOf(Nat))
    BY FS_StrictSubsetOrderingWellFounded
  <1>4. \E x \in T : \A y \in T : ~(<<y, x>> \in R)
    <2> HIDE DEF R, T
    <2> QED
      BY <1>2, <1>3, WFMin
  <1>5. PICK k \in S : \A j \in S : ~(<<0..j, 0..k>> \in R)
    BY <1>4
  <1>6. ASSUME NEW j \in S, ~(k <= j) PROVE FALSE
    <2>1. 0..j \in SUBSET Nat /\ 0..k \in SUBSET Nat
      BY <1>1
    <2>2. 0..j \subseteq 0..k /\ k \in 0..k /\ k \notin 0..j
      BY <1>6
    <2>3. <<0..j, 0..k>> \in R
      BY <2>1, <2>2 DEF StrictSubsetOrdering
    <2> QED
      BY <1>5, <2>3
  <1> QED
    BY <1>5, <1>6

LEMMA CardinalityIs == \A S : Menu!Cardinality(S) = Cardinality(S)
  BY DEF Menu!Cardinality, Cardinality

(* The places of a list that match are places of it, and without a filter  *)
(* they are all.                                                           *)
LEMMA FoundPlaces ==
    ASSUME Menu!MenuAssumption, NEW list \in Given.menu.lists, NEW q \in DOMAIN Given.menu.hits
    PROVE  /\ Menu!Found(list, q) \subseteq 1..Len(list)
           /\ IsFiniteSet(Menu!Found(list, q))
           /\ Cardinality(Menu!Found(list, q)) \in Nat
           /\ Cardinality(Menu!Found(list, q)) = 0 <=> Menu!Found(list, q) = {}
           /\ Menu!Found(list, q) \subseteq Menu!Found(list, Given.menu.noQuery)
  <1>1. list \in Seq(Given.menu.picks)
    BY DEF Menu!MenuAssumption
  <1>2. DOMAIN list = 1..Len(list) /\ \A i \in 1..Len(list) : list[i] \in Given.menu.picks
    BY <1>1
  <1>3. Menu!Found(list, q) \subseteq 1..Len(list)
    BY <1>2 DEF Menu!Found
  <1>4. IsFiniteSet(1..Len(list))
    BY <1>1, FS_Interval
  <1>5. IsFiniteSet(Menu!Found(list, q))
    BY <1>3, <1>4, FS_Subset
  <1>6. Menu!Found(list, q) \subseteq Menu!Found(list, Given.menu.noQuery)
    BY <1>2 DEF Menu!Found, Menu!MenuAssumption
  <1> QED
    BY <1>3, <1>5, <1>6, FS_CardinalityType, FS_EmptySet

(* Fewer matches come before a match than there are. *)
LEMMA RankBelow ==
    ASSUME NEW S, IsFiniteSet(S), S \subseteq Nat, NEW i \in S
    PROVE  /\ Cardinality({j \in S : j < i}) \in Nat
           /\ Cardinality({j \in S : j < i}) < Cardinality(S)
  <1>1. {j \in S : j < i} \subseteq S \ {i}
    OBVIOUS
  <1>2. IsFiniteSet(S \ {i}) /\ Cardinality(S \ {i}) = Cardinality(S) - 1
    BY FS_RemoveElement
  <1>3. /\ IsFiniteSet({j \in S : j < i})
        /\ Cardinality({j \in S : j < i}) <= Cardinality(S \ {i})
    BY <1>1, <1>2, FS_Subset
  <1> QED
    BY <1>2, <1>3, FS_CardinalityType

(* matches[n] is there for every n below their number. *)
LEMMA RankExists ==
    ASSUME NEW S, IsFiniteSet(S), S \subseteq Nat, NEW n \in Nat, n < Cardinality(S)
    PROVE  \E i \in S : Cardinality({j \in S : j < i}) = n
  <1> DEFINE Rank == [i \in S |-> Cardinality({j \in S : j < i})]
             T == (0..(Cardinality(S) - 1)) \ {n}
  <1>1. SUFFICES ASSUME \A i \in S : Rank[i] # n
                 PROVE  FALSE
    OBVIOUS
  <1>2. Cardinality(S) \in Nat
    BY FS_CardinalityType
  <1>3. /\ IsFiniteSet(0..(Cardinality(S) - 1))
        /\ Cardinality(0..(Cardinality(S) - 1)) = Cardinality(S)
    <2>1. \A c \in Nat : /\ IsFiniteSet(0..(c - 1))
                         /\ Cardinality(0..(c - 1)) = IF 0 > c - 1 THEN 0 ELSE (c - 1) - 0 + 1
      BY FS_Interval
    <2>2. \A c \in Nat : (IF 0 > c - 1 THEN 0 ELSE (c - 1) - 0 + 1) = c
      OBVIOUS
    <2> QED
      BY <1>2, <2>1, <2>2
  <1>4. IsFiniteSet(T) /\ Cardinality(T) = Cardinality(S) - 1
    <2>1. n \in 0..(Cardinality(S) - 1)
      BY <1>2
    <2> QED
      BY <1>2, <1>3, <2>1, FS_RemoveElement
  <1>5. Rank \in [S -> T]
    <2>1. ASSUME NEW i \in S PROVE Rank[i] \in T
      <3>1. Rank[i] \in Nat /\ Rank[i] < Cardinality(S)
        BY RankBelow
      <3> HIDE DEF Rank
      <3> QED
        BY <1>1, <1>2, <3>1
    <2> HIDE DEF T
    <2> QED
      BY <2>1
  <1>6. PICK i, k \in S : i # k /\ Rank[i] = Rank[k]
    <2> HIDE DEF Rank, T
    <2>1. Cardinality(T) < Cardinality(S)
      BY <1>2, <1>4
    <2> QED
      BY <1>4, <1>5, <2>1, FS_PigeonHole
  <1>7. ASSUME NEW x \in S, NEW y \in S, x < y
        PROVE  Rank[x] < Rank[y]
    <2> DEFINE U == {j \in S : j < y}
    <2>1. IsFiniteSet(U) /\ U \subseteq Nat /\ x \in U
      BY <1>7, FS_Subset
    <2>2. {j \in U : j < x} = {j \in S : j < x}
      <3>1. \A j \in S : j < x => j < y
        <4>1. \A a, b, c \in Nat : a < b /\ b < c => a < c
          OBVIOUS
        <4> QED
          BY <1>7, <4>1
      <3> QED
        BY <3>1
    <2>3. Cardinality({j \in U : j < x}) < Cardinality(U)
      <3> HIDE DEF U
      <3> QED
        BY <2>1, RankBelow
    <2> QED
      BY <2>2, <2>3
  <1>8. \A x \in S : Rank[x] \in Nat
    BY RankBelow
  <1>9. i < k \/ k < i
    BY <1>6
  <1> QED
    BY <1>6, <1>7, <1>8, <1>9

LEMMA MenuMatches ==
    ASSUME Menu!MenuAssumption, MenuInv
    PROVE  /\ Menu!Matches \subseteq Nat /\ IsFiniteSet(Menu!Matches)
           /\ Menu!Count \in Nat /\ (Menu!Count = 0 <=> Menu!Matches = {})
  <1>1. Menu!Matches \subseteq 1..Len(v1) /\ IsFiniteSet(Menu!Matches)
        /\ Menu!Count \in Nat /\ (Menu!Count = 0 <=> Menu!Matches = {})
    BY FoundPlaces, CardinalityIs DEF MenuInv, Menu!Matches, Menu!Count
  <1> QED
    BY <1>1

LEMMA MenuInit == ASSUME Menu!MenuAssumption, Menu!Init PROVE MenuInv
  BY DEF Menu!MenuAssumption, Menu!Init, MenuInv

(* openMenu(): the value's index is one of an option. *)
LEMMA ValueIndex ==
    ASSUME Menu!MenuAssumption, MenuInv
    PROVE  LET h == Menu!AtLeast0(Menu!IndexOf(v3))
               all == Menu!Found(v1, Given.menu.noQuery)
           IN  h \in Nat /\ (all = {} \/ h < Cardinality(all))
  <1> DEFINE h == Menu!AtLeast0(Menu!IndexOf(v3))
             all == Menu!Found(v1, Given.menu.noQuery)
  <1>1. /\ IsFiniteSet(all) /\ Cardinality(all) \in Nat
        /\ Cardinality(all) = 0 <=> all = {}
        /\ Menu!Matches \subseteq all
    BY FoundPlaces DEF MenuInv, Menu!Matches, Menu!MenuAssumption
  <1>2. Menu!Matches \subseteq Nat /\ IsFiniteSet(Menu!Matches)
    BY MenuMatches
  <1>3. CASE Menu!Holding(v3) = {}
    <2>1. h = 0
      BY <1>3 DEF Menu!AtLeast0, Menu!IndexOf
    <2> HIDE DEF h, all
    <2>2. all = {} \/ 0 < Cardinality(all)
      BY <1>1
    <2> QED
      BY <2>1, <2>2 DEF h, all
  <1>4. CASE Menu!Holding(v3) # {}
    <2> DEFINE m == Menu!Min(Menu!Holding(v3))
    <2>1. Menu!Holding(v3) \in SUBSET Nat /\ Menu!Holding(v3) \subseteq Menu!Matches
      BY <1>2 DEF Menu!Holding
    <2>2. m \in Menu!Matches
      <3>1. \E k \in Menu!Holding(v3) : \A j \in Menu!Holding(v3) : k <= j
        BY <1>4, <2>1, SmallestExists
      <3>2. m \in Menu!Holding(v3)
        <4> HIDE DEF Menu!Holding
        <4> QED
          BY <3>1, Zenon DEF Menu!Min
      <3> QED
        BY <2>1, <3>2
    <2>3. Menu!Rank(m) \in Nat /\ Menu!Rank(m) < Cardinality(Menu!Matches)
      <3> HIDE DEF m
      <3> QED
        BY <1>2, <2>2, RankBelow, CardinalityIs DEF Menu!Rank
    <2>4. Cardinality(Menu!Matches) <= Cardinality(all) /\ Cardinality(Menu!Matches) \in Nat
      BY <1>1, <1>2, FS_Subset, FS_CardinalityType
    <2>5. h = Menu!Rank(m)
      <3>1. Menu!IndexOf(v3) = Menu!Rank(m)
        BY <1>4 DEF Menu!IndexOf
      <3> HIDE DEF m
      <3> QED
        BY <2>3, <3>1 DEF Menu!AtLeast0
    <2> HIDE DEF h, all, m
    <2>6. h \in Nat /\ h < Cardinality(all)
      BY <1>1, <2>3, <2>4, <2>5
    <2> QED
      BY <2>6 DEF h, all
  <1> QED
    BY <1>3, <1>4

LEMMA MenuStep == ASSUME Menu!MenuAssumption, MenuInv, Menu!Next PROVE MenuInv'
  <1>1. Menu!Count \in Nat /\ (Menu!Count = 0 <=> Menu!Matches = {})
    BY MenuMatches
  <1>2. CASE Menu!OpenMenu
    BY <1>2, ValueIndex DEF Menu!OpenMenu, MenuInv, Menu!props, Menu!MenuAssumption
  <1>3. CASE Menu!CloseMenu \/ Menu!Render
    BY <1>3 DEF Menu!CloseMenu, Menu!Render, MenuInv, Menu!props
  <1>4. ASSUME NEW d \in {1, -1}, Menu!Move(d) PROVE MenuInv'
    <2>1. /\ v6 \in Nat /\ Menu!Count \in Nat \ {0} /\ v6' = (v6 + d + Menu!Count) % Menu!Count
      BY <1>1, <1>4 DEF MenuInv, Menu!Move
    <2>2. v6' \in Nat
      <3> HIDE DEF Menu!Count
      <3> QED
        BY <2>1
    <2> QED
      BY <1>4, <2>2 DEF MenuInv, Menu!Move, Menu!props
  <1>5. CASE Menu!Home \/ Menu!End
    <2>1. v6' \in Nat
      <3> HIDE DEF Menu!Count
      <3> QED
        BY <1>1, <1>5 DEF Menu!Home, Menu!End, Menu!AtLeast0
    <2> QED
      BY <1>5, <2>1 DEF MenuInv, Menu!Home, Menu!End, Menu!props
  <1>6. CASE Menu!Enter
    BY <1>6 DEF Menu!Enter, Menu!Commit, MenuInv
  <1>7. ASSUME NEW q \in DOMAIN Given.menu.hits, Menu!Type(q) PROVE MenuInv'
    BY <1>7 DEF Menu!Type, MenuInv, Menu!props
  <1>8. ASSUME NEW i \in Menu!Places, Menu!Hover(i) \/ Menu!Click(i) PROVE MenuInv'
    <2>1. i \in Nat
      BY DEF Menu!Places
    <2> QED
      BY <1>8, <2>1 DEF Menu!Hover, Menu!Click, Menu!Commit, MenuInv, Menu!props
  <1> QED
    BY <1>2, <1>3, <1>4, <1>5, <1>6, <1>7, <1>8 DEF Menu!Next, Menu!Key

\* matches[n], if there is one, is a match.
LEMMA MatchIsShown ==
    ASSUME Menu!MenuAssumption, MenuInv, NEW n \in Nat, n < Menu!Count
    PROVE  Menu!MatchAt(n) \in {v1[i] : i \in Menu!Matches}
  <1>1. \E i \in Menu!Matches : Menu!Rank(i) = n
    <2>1. n < Cardinality(Menu!Matches)
      BY CardinalityIs DEF Menu!Count
    <2>2. \E i \in Menu!Matches : Cardinality({j \in Menu!Matches : j < i}) = n
      <3> HIDE DEF Menu!Matches
      <3> QED
        BY <2>1, MenuMatches, RankExists
    <2> QED
      BY <2>2, CardinalityIs DEF Menu!Rank
  <1>2. (CHOOSE i \in Menu!Matches : Menu!Rank(i) = n) \in Menu!Matches
    <2> HIDE DEF Menu!Matches, Menu!Rank
    <2> QED
      BY <1>1, Zenon
  <1> QED
    BY <1>2 DEF Menu!MatchAt

LEMMA MenuMeant ==
    ASSUME Menu!MenuAssumption, MenuInv, Menu!Next
    PROVE  Menu!KeysLandOnMatch /\ Menu!PickedIsOffered
  <1>0. /\ Menu!Count \in Nat /\ (Menu!Count = 0 <=> Menu!Matches = {})
        /\ Menu!Count = Cardinality(Menu!Found(v1, v5)) /\ Menu!Matches = Menu!Found(v1, v5)
    BY MenuMatches, CardinalityIs DEF Menu!Count, Menu!Matches
  <1>9. Menu!Found(v1, v5)' = Menu!Found(v1', v5')
    BY DEF Menu!Found
  <1>1. CASE Menu!OpenMenu
    BY <1>1, ValueIndex, CardinalityIs DEF Menu!OpenMenu, Menu!props, Menu!KeysLandOnMatch, Menu!PickedIsOffered
  <1>3. CASE Menu!CloseMenu
    BY <1>3, CardinalityIs DEF Menu!CloseMenu, Menu!KeysLandOnMatch, Menu!PickedIsOffered, Menu!props
  <1>4. CASE Menu!Render
    BY <1>4, CardinalityIs DEF Menu!Render, Menu!KeysLandOnMatch, Menu!PickedIsOffered, MenuInv
  <1>5. ASSUME NEW d \in {1, -1}, Menu!Move(d)
        PROVE  Menu!KeysLandOnMatch /\ Menu!PickedIsOffered
    <2>1. /\ v6 \in Nat /\ Menu!Count \in Nat \ {0} /\ v6' = (v6 + d + Menu!Count) % Menu!Count
          /\ v1' = v1 /\ v3' = v3 /\ v5' = v5
      BY <1>0, <1>5 DEF MenuInv, Menu!Move, Menu!props
    <2>2. v6' < Menu!Count
      <3> HIDE DEF Menu!Count
      <3> QED
        BY <2>1
    <2> QED
      BY <1>0, <2>1, <2>2, CardinalityIs DEF Menu!KeysLandOnMatch, Menu!PickedIsOffered
  <1>6. CASE Menu!Home \/ Menu!End
    <2>1. Menu!Matches = {} \/ v6' < Menu!Count
      <3> HIDE DEF Menu!Count, Menu!Matches
      <3> QED
        BY <1>0, <1>6 DEF Menu!Home, Menu!End, Menu!AtLeast0
    <2>2. v1' = v1 /\ v3' = v3 /\ v5' = v5
      BY <1>6 DEF Menu!Home, Menu!End, Menu!props
    <2> QED
      BY <1>0, <2>1, <2>2, CardinalityIs DEF Menu!KeysLandOnMatch, Menu!PickedIsOffered
  <1>7. CASE Menu!Enter
    <2>1. /\ v4 = TRUE /\ v6 < Menu!Count /\ v3' = Menu!MatchAt(v6) /\ v3' \notin v2
          /\ v4' = FALSE
      BY <1>7 DEF Menu!Enter, Menu!Commit, MenuInv
    <2>2. v6 \in Nat
      BY DEF MenuInv
    <2> QED
      BY <2>1, <2>2, MatchIsShown, CardinalityIs DEF Menu!KeysLandOnMatch, Menu!PickedIsOffered
  <1>8. ASSUME NEW i \in Menu!Places, Menu!Click(i)
        PROVE  Menu!KeysLandOnMatch /\ Menu!PickedIsOffered
    <2>1. /\ v4 = TRUE /\ i < Menu!Count /\ v3' = Menu!MatchAt(i) /\ v3' \notin v2
          /\ v4' = FALSE /\ i \in Nat
      BY <1>8 DEF Menu!Click, Menu!Commit, MenuInv, Menu!Places
    <2> QED
      BY <2>1, MatchIsShown, CardinalityIs DEF Menu!KeysLandOnMatch, Menu!PickedIsOffered
  <1>10. ASSUME NEW i \in Menu!Places, Menu!Hover(i)
         PROVE  Menu!KeysLandOnMatch /\ Menu!PickedIsOffered
    BY <1>0, <1>10, CardinalityIs DEF Menu!Hover, Menu!KeysLandOnMatch, Menu!PickedIsOffered, Menu!props
  <1>11. ASSUME NEW q \in DOMAIN Given.menu.hits, Menu!Type(q)
         PROVE  Menu!KeysLandOnMatch /\ Menu!PickedIsOffered
    <2>1. v6' = 0 /\ v1' = v1 /\ v3' = v3 /\ v5' = q
      BY <1>11 DEF Menu!Type, Menu!props
    <2>2. /\ Cardinality(Menu!Found(v1, q)) \in Nat
          /\ Cardinality(Menu!Found(v1, q)) = 0 <=> Menu!Found(v1, q) = {}
      BY FoundPlaces DEF MenuInv
    <2> QED
      BY <2>1, <2>2, CardinalityIs DEF Menu!KeysLandOnMatch, Menu!PickedIsOffered
  <1> QED
    BY <1>1, <1>3, <1>4, <1>5, <1>6, <1>7, <1>8, <1>10, <1>11 DEF Menu!Next, Menu!Key

LEMMA MenuStays == ASSUME MenuInv, UNCHANGED vars PROVE MenuInv'
  BY DEF vars,
    MenuInv

(* The types of the menu: the highlight is a place of some list.           *)
MenuTyped == MenuInv /\ Menu!TypeOK

LEMMA MenuTypedInit == ASSUME Menu!MenuAssumption, Menu!Init PROVE MenuTyped
  BY MenuInit DEF Menu!MenuAssumption, Menu!Init, MenuTyped, MenuInv, Menu!TypeOK

LEMMA MenuTypedStep == ASSUME Menu!MenuAssumption, MenuTyped, Menu!Next PROVE MenuTyped'
  <1> USE DEF MenuTyped
  <1>1. MenuInv'
    BY MenuStep
  <1>2. v2' \subseteq Given.menu.picks
    BY DEF Menu!TypeOK, Menu!Next, Menu!Key, Menu!OpenMenu, Menu!CloseMenu, Menu!Move, Menu!Home,
       Menu!End, Menu!Enter, Menu!Commit, Menu!Render, Menu!Type, Menu!Hover, Menu!Click, Menu!props
  <1>3. v3' \in Given.menu.picks
    <2>1. \A i \in Menu!Matches : v1[i] \in Given.menu.picks
      <3>1. v1 \in Seq(Given.menu.picks)
        BY DEF Menu!MenuAssumption, MenuInv
      <3> QED
        BY <3>1 DEF Menu!Matches, Menu!Found
    <2>2. Menu!PickedIsOffered
      BY MenuMeant
    <2> QED
      BY <2>1, <2>2 DEF Menu!PickedIsOffered, Menu!TypeOK
  <1>4. \A n \in Nat : n < Menu!Count => n < Len(v1)
    <2>1. v1 \in Seq(Given.menu.picks) /\ Menu!Matches \subseteq 1..Len(v1)
      BY FoundPlaces DEF Menu!MenuAssumption, MenuInv, Menu!Matches
    <2>2. Len(v1) \in Nat /\ IsFiniteSet(1..Len(v1)) /\ Cardinality(1..Len(v1)) = Len(v1)
      <3>1. \A c \in Nat : /\ IsFiniteSet(1..c) /\ Cardinality(1..c) = IF 1 > c THEN 0 ELSE c - 1 + 1
        BY FS_Interval
      <3>2. \A c \in Nat : (IF 1 > c THEN 0 ELSE c - 1 + 1) = c
        OBVIOUS
      <3>3. Len(v1) \in Nat
        BY <2>1
      <3> QED
        BY <3>1, <3>2, <3>3
    <2>3. Menu!Count <= Len(v1) /\ Menu!Count \in Nat
      <3>1. Cardinality(Menu!Matches) <= Cardinality(1..Len(v1))
        <4> HIDE DEF Menu!Matches
        <4> QED
          BY <2>1, <2>2, FS_Subset
      <3> QED
        BY <2>2, <3>1, MenuMatches, CardinalityIs DEF Menu!Count
    <2> HIDE DEF Menu!Count
    <2> QED
      BY <2>2, <2>3
  <1> DEFINE Placed == \E list \in Given.menu.lists : v6 < Len(list)
  <1>5. v6' = 0 \/ v6' = v6 \/ v6' < Menu!Count
    <2>1. Menu!Count \in Nat /\ (Menu!Count = 0 <=> Menu!Matches = {}) /\ v6 \in Nat
      BY MenuMatches DEF MenuInv
    <2>2. CASE Menu!OpenMenu
      <3>1. v6' = Menu!AtLeast0(Menu!IndexOf(v3))
        BY <2>2 DEF Menu!OpenMenu
      <3>2. CASE Menu!Holding(v3) = {}
        BY <3>1, <3>2 DEF Menu!AtLeast0, Menu!IndexOf
      <3>3. CASE Menu!Holding(v3) # {}
        <4> DEFINE m == Menu!Min(Menu!Holding(v3))
        <4>1. Menu!Holding(v3) \in SUBSET Nat /\ Menu!Holding(v3) \subseteq Menu!Matches
          BY MenuMatches DEF Menu!Holding
        <4>2. m \in Menu!Matches
          <5>1. \E k \in Menu!Holding(v3) : \A j \in Menu!Holding(v3) : k <= j
            BY <3>3, <4>1, SmallestExists
          <5>2. m \in Menu!Holding(v3)
            <6> HIDE DEF Menu!Holding
            <6> QED
              BY <5>1, Zenon DEF Menu!Min
          <5> QED
            BY <4>1, <5>2
        <4>3. Menu!Rank(m) \in Nat /\ Menu!Rank(m) < Menu!Count
          <5> HIDE DEF m
          <5> QED
            BY <4>2, RankBelow, MenuMatches, CardinalityIs DEF Menu!Rank, Menu!Count
        <4>4. Menu!IndexOf(v3) = Menu!Rank(m)
          BY <3>3 DEF Menu!IndexOf
        <4> HIDE DEF m
        <4> QED
          BY <3>1, <4>3, <4>4 DEF Menu!AtLeast0
      <3> QED
        BY <3>2, <3>3
    <2>3. ASSUME NEW d \in {1, -1}, Menu!Move(d) PROVE v6' < Menu!Count
      <3>1. Menu!Count \in Nat \ {0} /\ v6' = (v6 + d + Menu!Count) % Menu!Count
        BY <2>1, <2>3 DEF Menu!Move
      <3> HIDE DEF Menu!Count
      <3> QED
        BY <2>1, <3>1
    <2>4. CASE Menu!Home \/ Menu!End
      <3> HIDE DEF Menu!Count
      <3> QED
        BY <2>1, <2>4 DEF Menu!Home, Menu!End, Menu!AtLeast0
    <2> QED
      BY <2>2, <2>3, <2>4 DEF Menu!Next, Menu!Key, Menu!CloseMenu, Menu!Enter, Menu!Commit,
         Menu!Render, Menu!Type, Menu!Hover, Menu!Click
  <1>6. v6' = 0 \/ \E list \in Given.menu.lists : v6' < Len(list)
    BY <1>1, <1>4, <1>5 DEF MenuInv, Menu!TypeOK
  <1> QED
    BY <1>1, <1>2, <1>3, <1>6 DEF MenuInv, Menu!TypeOK

LEMMA MenuTypedStays == ASSUME MenuTyped, UNCHANGED vars PROVE MenuTyped'
  BY MenuStays DEF vars, MenuTyped, Menu!TypeOK

-----------------------------------------------------------------------------
(* A failed call *)

(* What a page says of a failure: the answer is of its cause, its wait of  *)
(* the refusal, and nothing is said before it has come.                    *)
Causes == {"credentials", "unverified", "detail", "text", "fields", "crash", "throttled",
           "edge", "lost"}

AnswerInv ==
    \/ v5 = Failure!NoAnswer
    \/ /\ v5.cause \in Causes
       /\ v5.status = Failure!Status(v5.cause) /\ v5.body = Failure!Body(v5.cause)
       /\ v5.retryAfter \in 0..Given.failure.wait
       /\ v5.retryAfter # Failure!NoRetry => v5.cause = "throttled"

RefusalInv ==
    /\ v7.at \in 0..v1
    /\ v7.until \in v7.at..(v7.at + Given.failure.wait)

WaitInv ==
    v5.cause = "throttled" =>
        /\ v1 + 2 * v5.retryAfter >= v7.until
        /\ v7.at + 2 * v5.retryAfter < v7.until + 2

FailureInv ==
    /\ Failure!TypeOK
    /\ \A c \in Given.failure.counters : v2[c] <= v1 + Given.failure.wait
    /\ v4 \in {"admitted", "refused", "answered"} => v6 = Failure!Quiet
    /\ v4 = "answered" => v5.cause \in Causes
    /\ AnswerInv /\ RefusalInv /\ WaitInv
    /\ Failure!MessageIsOfCause
    /\ Failure!WaitIsExact

LEMMA GreatestExists ==
    ASSUME NEW n \in Nat, NEW S \in SUBSET 0..n, S # {}
    PROVE  \E m \in S : \A x \in S : m >= x
  <1> DEFINE T == {n - x : x \in S}
  <1>0. \A x \in S : x \in Nat /\ x <= n
    OBVIOUS
  <1>1. T \in SUBSET Nat /\ T # {}
    <2>1. \A x \in S : n - x \in Nat
      BY <1>0
    <2>2. PICK x \in S : TRUE
      OBVIOUS
    <2>3. n - x \in T
      OBVIOUS
    <2> QED
      BY <2>1, <2>3
  <1>2. PICK k \in T : \A j \in T : k <= j
    <2> HIDE DEF T
    <2> QED
      BY <1>1, SmallestExists
  <1>3. PICK m \in S : k = n - m
    OBVIOUS
  <1>4. \A x \in S : m >= x
    <2> TAKE x \in S
    <2>1. n - x \in T
      OBVIOUS
    <2>2. n - m <= n - x
      BY <1>2, <1>3, <2>1
    <2>3. m \in Nat /\ x \in Nat
      OBVIOUS
    <2> HIDE DEF T
    <2> QED
      BY <2>2, <2>3
  <1> QED
    BY <1>4

LEMMA LargestExists ==
    ASSUME NEW n \in Nat, NEW S \in SUBSET 0..n, S # {}
    PROVE  Failure!Max(S) \in S
  <1>1. \E x \in S : \A y \in S : x >= y
    BY GreatestExists
  <1> QED
    BY <1>1, Zenon DEF Failure!Max

LEMMA FailureInit == ASSUME Failure!ContractAssumption, Failure!Init PROVE FailureInv
  <1>1. /\ v1 = 0 /\ v2 = [c \in Given.failure.counters |-> 0] /\ v3 \in Failure!Sites
        /\ v4 = "idle" /\ v5 = Failure!NoAnswer /\ v6 = Failure!Quiet
        /\ v7 = [at |-> 0, until |-> 0]
    BY DEF Failure!Init
  <1>2. Given.failure.wait \in Nat \ {0} /\ Given.failure.time \in Nat
    BY DEF Failure!ContractAssumption
  <1>3. Failure!TypeOK
    BY <1>1, <1>2 DEF Failure!TypeOK, Failure!NoAnswer, Failure!Quiet, Failure!Says,
       Failure!NoRetry
  <1>4. Failure!MessageIsOfCause /\ Failure!WaitIsExact
    BY <1>1 DEF Failure!MessageIsOfCause, Failure!WaitIsExact, Failure!Quiet
  <1>5. AnswerInv /\ RefusalInv /\ WaitInv
    BY <1>1, <1>2 DEF AnswerInv, RefusalInv, WaitInv, Failure!NoAnswer
  <1>6. \A c \in Given.failure.counters : v2[c] <= v1 + Given.failure.wait
    BY <1>1, <1>2
  <1> QED
    BY <1>1, <1>3, <1>4, <1>5, <1>6 DEF FailureInv

(* An answer comes while the page says nothing. *)
LEMMA FailureAnswered ==
    ASSUME Failure!ContractAssumption, FailureInv, v4 \in {"admitted", "refused"},
           NEW cause \in Causes, NEW retryAfter \in 0..Given.failure.wait,
           Failure!Answer(cause, retryAfter),
           retryAfter # Failure!NoRetry => cause = "throttled",
           cause = "throttled" => /\ v1 + 2 * retryAfter >= v7.until
                                  /\ v7.at + 2 * retryAfter < v7.until + 2,
           UNCHANGED <<v1, v2, v3, v6, v7>>
    PROVE  FailureInv'
  <1>1. /\ v4' = "answered" /\ v6' = Failure!Quiet
        /\ v5'.cause = cause /\ v5'.status = Failure!Status(cause)
        /\ v5'.body = Failure!Body(cause) /\ v5'.retryAfter = retryAfter
    BY DEF Failure!Answer, FailureInv
  <1>2. AnswerInv'
    BY <1>1 DEF AnswerInv
  <1>3. RefusalInv' /\ WaitInv'
    BY <1>1 DEF FailureInv, RefusalInv, WaitInv
  <1>4. Failure!TypeOK'
    BY <1>1 DEF FailureInv, Failure!TypeOK, Failure!Quiet, Failure!NoRetry
  <1>5. Failure!MessageIsOfCause' /\ Failure!WaitIsExact'
    BY <1>1 DEF Failure!MessageIsOfCause, Failure!WaitIsExact, Failure!Quiet
  <1> QED
    BY <1>1, <1>2, <1>3, <1>4, <1>5 DEF FailureInv

LEMMA FailureStep ==
    ASSUME Failure!ContractAssumption, FailureInv, Failure!Next
    PROVE  FailureInv'
  <1> DEFINE wait == Given.failure.wait
             time == Given.failure.time
  <1>1. wait \in Nat \ {0} /\ time \in Nat /\ v1 \in 0..time
    BY DEF Failure!ContractAssumption, FailureInv, Failure!TypeOK
  <1>2. ASSUME NEW c \in Given.failure.counters, Failure!Exhaust(c) PROVE FailureInv'
    <2>1. PICK d \in 1..wait : v2' = [v2 EXCEPT ![c] = v1 + d]
      BY <1>2 DEF Failure!Exhaust
    <2>2. UNCHANGED <<v1, v3, v4, v5, v6, v7>>
      BY <1>2 DEF Failure!Exhaust
    <2>3. v1 + d \in 0..(time + wait) /\ v1 + d <= v1 + wait
      BY <1>1
    <2>4. v2' \in [Given.failure.counters -> 0..(time + wait)]
      BY <2>1, <2>3 DEF FailureInv, Failure!TypeOK
    <2>5. \A k \in Given.failure.counters : v2'[k] <= v1' + wait
      BY <2>1, <2>2, <2>3 DEF FailureInv, Failure!TypeOK
    <2>6. Failure!TypeOK'
      BY <2>2, <2>4 DEF FailureInv, Failure!TypeOK
    <2>7. AnswerInv' /\ RefusalInv' /\ WaitInv'
      BY <2>2 DEF FailureInv, AnswerInv, RefusalInv, WaitInv
    <2>8. Failure!MessageIsOfCause' /\ Failure!WaitIsExact'
      BY <2>2 DEF FailureInv, Failure!MessageIsOfCause, Failure!WaitIsExact
    <2> QED
      BY <2>2, <2>5, <2>6, <2>7, <2>8 DEF FailureInv
  <1>3. CASE Failure!Call
    <2>1. /\ v5' = Failure!NoAnswer /\ v6' = Failure!Quiet /\ UNCHANGED <<v1, v2, v3>>
          /\ v4' \in {"admitted", "refused"}
      BY <1>3 DEF Failure!Call
    <2>2. RefusalInv'
      <3>1. CASE Failure!Refusing = {}
        BY <1>3, <2>1, <3>1 DEF Failure!Call, FailureInv, RefusalInv
      <3>2. CASE Failure!Refusing # {}
        <4> DEFINE S == {v2[c] : c \in Failure!Refusing}
        <4>1. v7' = [at |-> v1, until |-> Failure!Max(S)]
          BY <1>3, <3>2 DEF Failure!Call
        <4>2. S \in SUBSET 0..(time + wait) /\ S # {}
          BY <3>2 DEF Failure!Refusing, FailureInv, Failure!TypeOK
        <4>3. \A x \in S : x > v1 /\ x <= v1 + wait
          BY DEF Failure!Refusing, FailureInv
        <4>4. time + wait \in Nat
          BY <1>1
        <4>5. Failure!Max(S) \in S
          <5> HIDE DEF S, time, wait
          <5> QED
            BY <4>2, <4>4, LargestExists
        <4> DEFINE m == Failure!Max(S)
        <4>6. m \in 0..(time + wait) /\ m > v1 /\ m <= v1 + wait
          BY <4>2, <4>3, <4>5
        <4> HIDE DEF m
        <4>7. m \in v1..(v1 + wait) /\ v1 \in 0..v1
          BY <1>1, <4>6
        <4>8. v7' = [at |-> v1, until |-> m]
          BY <4>1 DEF m
        <4> QED
          BY <2>1, <4>7, <4>8 DEF RefusalInv
      <3> QED
        BY <3>1, <3>2
    <2>3. Failure!TypeOK'
      BY <1>1, <2>1 DEF FailureInv, Failure!TypeOK, Failure!NoAnswer, Failure!Quiet, Failure!Says,
         Failure!NoRetry
    <2>4. AnswerInv' /\ WaitInv'
      BY <2>1 DEF AnswerInv, WaitInv, Failure!NoAnswer
    <2>5. Failure!MessageIsOfCause' /\ Failure!WaitIsExact'
      BY <2>1 DEF Failure!MessageIsOfCause, Failure!WaitIsExact, Failure!Quiet
    <2> QED
      BY <2>1, <2>2, <2>3, <2>4, <2>5 DEF FailureInv
  <1>4. CASE Failure!Raise
    <2>1. PICK cause \in Failure!Raisable(v3) \cup {"crash"} : Failure!Answer(cause, Failure!NoRetry)
      BY <1>4 DEF Failure!Raise
    <2>2. cause \in Causes /\ cause # "throttled"
      BY DEF Failure!Raisable, Causes
    <2>3. v4 = "admitted" /\ UNCHANGED <<v1, v2, v3, v6, v7>>
      BY <1>4 DEF Failure!Raise
    <2> QED
      BY <1>1, <2>1, <2>2, <2>3, FailureAnswered DEF Failure!NoRetry
  <1>5. CASE Failure!Succeed
    <2>1. v4' = "idle" /\ UNCHANGED <<v1, v2, v3, v5, v6, v7>> /\ v6 = Failure!Quiet
      BY <1>5 DEF Failure!Succeed, FailureInv
    <2>2. Failure!TypeOK'
      BY <2>1 DEF FailureInv, Failure!TypeOK, Failure!Quiet
    <2>3. AnswerInv' /\ RefusalInv' /\ WaitInv'
      BY <2>1 DEF FailureInv, AnswerInv, RefusalInv, WaitInv
    <2>4. Failure!MessageIsOfCause' /\ Failure!WaitIsExact'
      BY <2>1 DEF FailureInv, Failure!MessageIsOfCause, Failure!WaitIsExact
    <2> QED
      BY <2>1, <2>2, <2>3, <2>4 DEF FailureInv
  <1>6. CASE Failure!Refuse
    <2> DEFINE left == Failure!wait(v7.until)
               header == Failure!RetryHeader(left)
    <2>1. /\ v7.at \in 0..v1 /\ v7.until \in v7.at..(v7.at + wait)
      BY DEF FailureInv, RefusalInv
    <2>2. left = IF v7.until < v1 THEN 0 ELSE v7.until - v1
      BY DEF Failure!wait
    <2>3. left \in 0..wait /\ v1 + left >= v7.until /\ v7.at + left <= v7.until
      <3> HIDE DEF left
      <3>1. \A a, n, u \in Nat : a <= n /\ a <= u /\ u <= a + wait =>
              LET l == IF u < n THEN 0 ELSE u - n
              IN  l \in 0..wait /\ n + l >= u /\ a + l <= u
        BY <1>1
      <3>2. v1 \in Nat /\ v7.at \in Nat /\ v7.until \in Nat
            /\ v7.at <= v1 /\ v7.at <= v7.until /\ v7.until <= v7.at + wait
        BY <1>1, <2>1
      <3> QED
        BY <2>2, <3>1, <3>2
    <2>4. header = (left + 1) \div 2
      BY DEF Failure!RetryHeader
    <2>5. header \in 0..wait /\ 2 * header >= left /\ 2 * header <= left + 1
      <3> HIDE DEF header, left
      <3> QED
        BY <1>1, <2>3, <2>4
    <2>6. v1 + 2 * header >= v7.until /\ v7.at + 2 * header < v7.until + 2
      <3> HIDE DEF header, left
      <3> QED
        BY <1>1, <2>1, <2>3, <2>5
    <2>7. v4 = "refused" /\ Failure!Answer("throttled", header) /\ UNCHANGED <<v1, v2, v3, v6, v7>>
      BY <1>6 DEF Failure!Refuse
    <2> HIDE DEF header
    <2> QED
      BY <2>5, <2>6, <2>7, FailureAnswered DEF Causes
  <1>7. CASE Failure!Edge
    <2>1. PICK cause \in {"edge", "lost"} : Failure!Answer(cause, Failure!NoRetry)
      BY <1>7 DEF Failure!Edge
    <2>2. v4 \in {"admitted", "refused"} /\ UNCHANGED <<v1, v2, v3, v6, v7>>
      BY <1>7 DEF Failure!Edge
    <2> QED
      BY <1>1, <2>1, <2>2, FailureAnswered DEF Failure!NoRetry, Causes
  <1>8. CASE Failure!Show
    <2> DEFINE says == CASE v3 = "login" -> Failure!LoginMessage
                         [] v3 = "action" -> Failure!errorMessage
                         [] OTHER -> "fallback"
    <2>1. /\ v6' = [says |-> says, at |-> v1,
                    seconds |-> IF says = "wait" THEN v5.retryAfter ELSE Failure!NoRetry]
          /\ v4' = IF v3 = "login" /\ v5.body = "code" THEN "verify" ELSE "idle"
          /\ UNCHANGED <<v1, v2, v3, v5, v7>>
      BY <1>8 DEF Failure!Show, Failure!retryAfter
    <2>2. v3 \in {"login", "action", "list"}
      BY DEF FailureInv, Failure!TypeOK, Failure!Sites
    <2>3. /\ says \in Failure!Says
          /\ says = "network" => v5.cause = "lost"
          /\ says = "later" => v5.cause \in {"throttled", "edge"}
          /\ says = "wait" => v5.cause = "throttled" /\ v5.retryAfter # Failure!NoRetry
          /\ says = "verify" <=> v3 = "login" /\ v5.body = "code"
          /\ says = "verify" => v5.cause = "unverified"
          /\ says = "reason" => v5.body # "none"
      <3>1. v5.cause \in Causes /\ v4 = "answered"
        BY <1>8 DEF Failure!Show, FailureInv
      <3>2. /\ v5.status = Failure!Status(v5.cause) /\ v5.body = Failure!Body(v5.cause)
            /\ v5.retryAfter # Failure!NoRetry => v5.cause = "throttled"
        BY <3>1 DEF FailureInv, AnswerInv, Failure!NoAnswer, Causes
      <3>3. /\ v5.status \in {0, 400, 401, 403, 429, 500}
            /\ v5.status = 0 <=> v5.cause = "lost"
            /\ v5.status = 429 <=> v5.cause \in {"throttled", "edge"}
            /\ v5.status = 403 <=> v5.cause \in {"unverified", "detail"}
            /\ v5.body = "code" <=> v5.cause = "unverified"
        BY <3>1, <3>2 DEF Causes, Failure!Status, Failure!Body
      <3>4. /\ Failure!errorMessage \in {"network", "later", "wait", "reason", "fallback"}
            /\ Failure!errorMessage = "network" <=> v5.status = 0
            /\ Failure!errorMessage \in {"later", "wait"} => v5.status = 429
            /\ Failure!errorMessage = "wait" => v5.retryAfter # Failure!NoRetry
            /\ Failure!errorMessage = "reason" => v5.body # "none"
        BY <3>3 DEF Failure!errorMessage, Failure!retryAfter
      <3>5. /\ Failure!LoginMessage \in {"verify", Failure!errorMessage, "credentials"}
            /\ Failure!LoginMessage = "verify" <=> v5.body = "code"
        BY <3>3, <3>4 DEF Failure!LoginMessage
      <3>6. says \in {Failure!LoginMessage, Failure!errorMessage, "fallback"}
        BY <2>2
      <3>7. says = "verify" <=> v3 = "login" /\ v5.body = "code"
        BY <2>2, <3>4, <3>5
      <3> HIDE DEF says
      <3> QED
        BY <3>2, <3>3, <3>4, <3>5, <3>6, <3>7 DEF Failure!Says
    <2> HIDE DEF says
    <2>4. /\ v6'.says = says /\ v6'.at = v1
          /\ v6'.seconds = IF says = "wait" THEN v5.retryAfter ELSE Failure!NoRetry
      BY <2>1
    <2>5. v5.retryAfter \in 0..wait /\ 0 \in 0..wait
      BY <1>1 DEF FailureInv, Failure!TypeOK
    <2>6. v6' \in [says : Failure!Says, seconds : 0..wait, at : 0..time]
      BY <1>1, <2>1, <2>3, <2>5 DEF Failure!NoRetry
    <2>7. (v6'.says = "verify") = (v4' = "verify") /\ v4' \in {"idle", "verify"}
      BY <2>1, <2>3, <2>4
    <2>8. (v6'.says = "wait") = (v6'.seconds # Failure!NoRetry)
      BY <2>3, <2>4
    <2>9. Failure!TypeOK'
      BY <2>1, <2>6, <2>7, <2>8 DEF FailureInv, Failure!TypeOK
    <2>10. AnswerInv' /\ RefusalInv' /\ WaitInv'
      BY <2>1 DEF FailureInv, AnswerInv, RefusalInv, WaitInv
    <2>11. Failure!MessageIsOfCause'
      BY <2>1, <2>3, <2>4 DEF Failure!MessageIsOfCause
    <2>12. Failure!WaitIsExact'
      BY <2>1, <2>3, <2>4 DEF Failure!WaitIsExact, FailureInv, WaitInv
    <2> QED
      BY <2>1, <2>7, <2>9, <2>10, <2>11, <2>12 DEF FailureInv
  <1>9. CASE Failure!Pass
    <2>1. v1 < time /\ v1' = v1 + 1 /\ UNCHANGED <<v2, v3, v4, v5, v6, v7>>
      BY <1>9 DEF Failure!Pass
    <2>2. v1' \in 0..time
      BY <1>1, <2>1
    <2>3. Failure!TypeOK'
      BY <2>1, <2>2 DEF FailureInv, Failure!TypeOK
    <2>4. \A c \in Given.failure.counters : v2'[c] <= v1' + wait
      BY <1>1, <2>1 DEF FailureInv, Failure!TypeOK
    <2>5. AnswerInv'
      BY <2>1 DEF FailureInv, AnswerInv
    <2>6. RefusalInv'
      BY <1>1, <2>1 DEF FailureInv, RefusalInv
    <2>7. WaitInv'
      <3>1. v5.retryAfter \in Nat /\ v7.until \in Nat
        BY <1>1 DEF FailureInv, Failure!TypeOK, RefusalInv
      <3> QED
        BY <1>1, <2>1, <3>1 DEF FailureInv, WaitInv
    <2>8. Failure!MessageIsOfCause' /\ Failure!WaitIsExact'
      BY <2>1 DEF FailureInv, Failure!MessageIsOfCause, Failure!WaitIsExact
    <2> QED
      BY <2>1, <2>3, <2>4, <2>5, <2>6, <2>7, <2>8 DEF FailureInv
  <1> QED
    BY <1>2, <1>3, <1>4, <1>5, <1>6, <1>7, <1>8, <1>9 DEF Failure!Next

LEMMA FailureStays == ASSUME FailureInv, UNCHANGED vars PROVE FailureInv'
  BY DEF vars,
    FailureInv, Failure!TypeOK, AnswerInv, RefusalInv, WaitInv,
    Failure!MessageIsOfCause, Failure!WaitIsExact, Failure!retryAfter,
    Failure!NoAnswer

-----------------------------------------------------------------------------
(* A fixed window *)

WindowCounted(b) == {r \in v5 : v3[r].window = b}

(* A request belongs to the window it arrived in, which has begun. *)
WindowBucketInv ==
    \A r \in Given.window.requests : v3[r].at # "idle" =>
        /\ v3[r].window = v3[r].arrived \div Given.window.width
        /\ v3[r].arrived <= v1

(* The row of a window lives as long as the window, and there is none      *)
(* before; while it lasts the counter covers whoever has been admitted.    *)
WindowRowInv ==
    \A b \in Counter!Windows : b >= Counter!WindowNow =>
        /\ v2[b].count > 0 => b = Counter!WindowNow /\ v2[b].expires >= Given.window.width * (b + 1)
        /\ Cardinality(WindowCounted(b)) <= v2[b].count

(* While nothing fails, whoever made a counter start was admitted. *)
WindowStartInv ==
    v4 = 0 => \A b \in Counter!Windows : v2[b].count > 0 =>
        \E r \in Given.window.requests : v3[r].at = "admitted" /\ v3[r].window = b

CounterInv == Counter!TypeOK /\ IsFiniteSet(v5) /\ WindowBucketInv /\ WindowRowInv /\ Counter!WindowLimit
        /\ WindowStartInv /\ Counter!NewWindowAdmits

(* Time. *)

(* The instance counts as the library does. *)
LEMMA WindowCount == \A S : Counter!Cardinality(S) = Cardinality(S)
  BY DEF Counter!Cardinality, Cardinality

LEMMA WindowDivision ==
    ASSUME Counter!WindowAssumption, NEW x \in Nat
    PROVE  /\ x \div Given.window.width \in Nat
           /\ Given.window.width * (x \div Given.window.width) <= x /\ x < Given.window.width * (x \div Given.window.width + 1)
           /\ \A y \in Nat : x <= y => x \div Given.window.width <= y \div Given.window.width
           /\ (x + 1) \div Given.window.width \in {x \div Given.window.width, x \div Given.window.width + 1}
  <1>1. Given.window.width \in Nat \ {0}
    BY DEF Counter!WindowAssumption
  <1>2. x \div Given.window.width \in Nat /\ Given.window.width * (x \div Given.window.width) <= x /\ x < Given.window.width * (x \div Given.window.width) + Given.window.width
    BY <1>1, SMT
  <1>3. Given.window.width * (x \div Given.window.width + 1) = Given.window.width * (x \div Given.window.width) + Given.window.width
    BY <1>1, <1>2, SMT
  <1>4. ASSUME NEW y \in Nat, x <= y PROVE x \div Given.window.width <= y \div Given.window.width
    BY <1>1, <1>4, SMT
  <1>5. (x + 1) \div Given.window.width \in {x \div Given.window.width, x \div Given.window.width + 1}
    BY <1>1, SMT
  <1> QED
    BY <1>2, <1>3, <1>4, <1>5

LEMMA WindowClock ==
    ASSUME Counter!WindowAssumption, Counter!TypeOK
    PROVE  /\ v1 \in Nat /\ Counter!WindowNow \in Nat /\ Counter!WindowNow \in Counter!Windows
           /\ Counter!Windows \subseteq Nat
           /\ v1 < Given.window.width * (Counter!WindowNow + 1)
           /\ v1 + Given.window.width >= Given.window.width * (Counter!WindowNow + 1)
  <1>1. v1 \in Nat /\ Given.window.time \in Nat /\ v1 <= Given.window.time /\ Given.window.width \in Nat \ {0}
    BY DEF Counter!TypeOK, Counter!WindowAssumption
  <1>2. Counter!WindowNow \in Nat /\ Given.window.width * Counter!WindowNow <= v1 /\ v1 < Given.window.width * (Counter!WindowNow + 1)
    BY <1>1, WindowDivision DEF Counter!WindowNow
  <1>3. \A w, k \in Nat : w * (k + 1) = w * k + w
    BY SMT
  <1>4. Given.window.time \div Given.window.width \in Nat /\ Counter!WindowNow <= Given.window.time \div Given.window.width
    BY <1>1, WindowDivision DEF Counter!WindowNow
  <1> HIDE DEF Counter!WindowNow
  <1>5. \A w, k \in Nat : w * k \in Nat
    BY SMT
  <1> QED
    BY <1>1, <1>2, <1>3, <1>4, <1>5 DEF Counter!Windows

(* The row of the window that has begun does not expire before it is over. *)
LEMMA WindowRowLives ==
    ASSUME Counter!WindowAssumption, Counter!TypeOK, WindowRowInv, v2[Counter!WindowNow].count > 0
    PROVE  ~Counter!Expired(Counter!WindowNow)
  <1>1. v2[Counter!WindowNow].expires >= Given.window.width * (Counter!WindowNow + 1) /\ v1 < Given.window.width * (Counter!WindowNow + 1)
    BY WindowClock DEF WindowRowInv
  <1>2. v2[Counter!WindowNow].expires \in Nat /\ Given.window.width * (Counter!WindowNow + 1) \in Nat /\ v1 \in Nat
    <2>1. Given.window.width \in Nat /\ Counter!WindowNow + 1 \in Nat
      BY WindowClock DEF Counter!WindowAssumption
    <2> QED
      BY <2>1, WindowClock DEF Counter!TypeOK
  <1> HIDE DEF Counter!WindowNow
  <1>3. v2[Counter!WindowNow].count \in Nat
    BY WindowClock DEF Counter!TypeOK
  <1> QED
    BY <1>1, <1>2, <1>3 DEF Counter!Expired

(* Types. *)

LEMMA WindowGotoTypes ==
    ASSUME Counter!TypeOK, NEW r \in Given.window.requests, v3[r].at # "admitted",
           NEW at \in {"incr", "again", "admitted", "denied"}, Counter!Goto(r, at)
    PROVE  /\ v3' \in [Given.window.requests -> [at : {"idle", "add", "incr", "again", "admitted", "denied"},
                                         window : Counter!Windows, arrived : 0..Given.window.time]]
           /\ v3'[r].at = at
           /\ v3'[r].window = v3[r].window /\ v3'[r].arrived = v3[r].arrived
           /\ \A q \in Given.window.requests : q # r => v3'[q] = v3[q]
           /\ v5' \subseteq {q \in Given.window.requests : v3'[q].at = "admitted"}
           /\ r \notin v5
           /\ v5' = IF at = "admitted" /\ Counter!WindowNow = v3[r].window
                        THEN v5 \cup {r} ELSE v5
  <1>1. v3[r] \in [at : {"idle", "add", "incr", "again", "admitted", "denied"},
                        window : Counter!Windows, arrived : 0..Given.window.time]
    BY DEF Counter!TypeOK
  <1>2. v3' = [v3 EXCEPT ![r].at = at]
    BY DEF Counter!Goto
  <1>3. /\ v3' \in [Given.window.requests -> [at : {"idle", "add", "incr", "again", "admitted", "denied"},
                                      window : Counter!Windows, arrived : 0..Given.window.time]]
        /\ v3'[r].at = at
        /\ v3'[r].window = v3[r].window /\ v3'[r].arrived = v3[r].arrived
        /\ \A q \in Given.window.requests : q # r => v3'[q] = v3[q]
    BY <1>1, <1>2 DEF Counter!TypeOK
  <1>4. v5' = IF at = "admitted" /\ Counter!WindowNow = v3[r].window
                  THEN v5 \cup {r} ELSE v5
    BY DEF Counter!Goto, Counter!WindowNow
  <1>5. v5 \subseteq {q \in Given.window.requests : v3[q].at = "admitted"}
    BY DEF Counter!TypeOK
  <1> QED
    BY <1>3, <1>4, <1>5

(* What the statements do to the row of their window. *)
WindowCounts(b) ==
    \/ UNCHANGED v2
    \/ Counter!Store(b)
    \/ ~Counter!Expired(b) /\ v2' = [v2 EXCEPT ![b].count = @ + 1]

LEMMA WindowRowTypes ==
    ASSUME Counter!WindowAssumption, Counter!TypeOK, NEW b \in Counter!Windows, WindowCounts(b)
    PROVE  /\ v2' \in [Counter!Windows -> [count : Nat, expires : Nat]]
           /\ \A c \in Counter!Windows : c # b => v2'[c] = v2[c]
           /\ \/ v2'[b] = v2[b]
              \/ /\ Counter!Expired(b)
                 /\ v2'[b].count = 1 /\ v2'[b].expires = v1 + Given.window.width
              \/ /\ ~Counter!Expired(b)
                 /\ v2'[b].count = v2[b].count + 1 /\ v2'[b].expires = v2[b].expires
  <1>1. v2[b] \in [count : Nat, expires : Nat] /\ v1 + Given.window.width \in Nat
    BY DEF Counter!TypeOK, Counter!WindowAssumption
  <1>2. CASE UNCHANGED v2
    BY <1>2 DEF Counter!TypeOK
  <1>3. CASE Counter!Store(b)
    <2>1. v2' = [v2 EXCEPT ![b] = [count |-> 1, expires |-> v1 + Given.window.width]] /\ Counter!Expired(b)
      BY <1>3 DEF Counter!Store
    <2> QED
      BY <1>1, <2>1 DEF Counter!TypeOK
  <1>4. CASE ~Counter!Expired(b) /\ v2' = [v2 EXCEPT ![b].count = @ + 1]
    BY <1>1, <1>4 DEF Counter!TypeOK
  <1> QED
    BY <1>2, <1>3, <1>4 DEF WindowCounts

(* A statement, whichever it is and whether it fails or not. *)

(* Only a statement that stores the row or finds room in it admits; a      *)
(* refusal needs a row that counts, or a fault, and so does a row stored   *)
(* for a request that is not admitted.                                     *)
WindowServes(r, at) ==
    LET b == v3[r].window IN
    /\ v3[r].at \in {"add", "incr", "again"}
    /\ at \in {"incr", "again", "admitted", "denied"}
    /\ Counter!Goto(r, at)
    /\ WindowCounts(b)
    /\ v1' = v1 /\ v4' \in 0..Given.window.faults /\ (v4' = 0 => v4 = 0)
    /\ at = "admitted" =>
         \/ Counter!Store(b)
         \/ ~Counter!Expired(b) /\ v2[b].count + 1 <= Given.window.max /\ v2' = [v2 EXCEPT ![b].count = @ + 1]
    /\ at = "denied" => v4' # 0 \/ ~Counter!Expired(b)
    /\ Counter!Store(b) => at = "admitted" \/ v4' # 0

LEMMA WindowStatements ==
    ASSUME Counter!WindowAssumption, Counter!TypeOK, NEW r \in Given.window.requests, Counter!Serve(r) \/ Counter!Fault(r)
    PROVE  \E at \in {"incr", "again", "admitted", "denied"} : WindowServes(r, at)
  <1> DEFINE b == v3[r].window
  <1>1. /\ v4 \in Nat /\ Given.window.faults \in Nat /\ v4 <= Given.window.faults /\ Given.window.max \in Nat /\ Given.window.max >= 1
        /\ b \in Counter!Windows /\ v2[b] \in [count : Nat, expires : Nat]
        /\ v2 \in [Counter!Windows -> [count : Nat, expires : Nat]]
    BY DEF Counter!TypeOK, Counter!WindowAssumption
  <1>2. Counter!Store(b) => Counter!Expired(b) /\ v2' # v2
    <2> SUFFICES ASSUME Counter!Store(b) PROVE Counter!Expired(b) /\ v2' # v2
      OBVIOUS
    <2>1. Counter!Expired(b) /\ v2'[b] = [count |-> 1, expires |-> v1 + Given.window.width]
      BY <1>1 DEF Counter!Store
    <2>2. v2[b].count = 0 \/ v2[b].expires < v1
      BY <2>1 DEF Counter!Expired
    <2>3. v2[b].count # 1 \/ v2[b].expires # v1 + Given.window.width
      BY <1>1, <2>2 DEF Counter!TypeOK, Counter!WindowAssumption
    <2> QED
      BY <2>1, <2>3
  <1>3. Counter!Verdict(1) = "admitted"
    BY <1>1 DEF Counter!Verdict
  <1>4. CASE Counter!Add(r) /\ Counter!Store(b) /\ Counter!Goto(r, Counter!Verdict(1))
    <2> WindowServes(r, "admitted")
      BY <1>1, <1>3, <1>4 DEF WindowServes, WindowCounts, Counter!Add
    <2> QED
      OBVIOUS
  <1>5. CASE Counter!Add(r) /\ ~Counter!Expired(b) /\ Counter!Goto(r, "incr") /\ UNCHANGED v2
    <2> WindowServes(r, "incr")
      BY <1>1, <1>2, <1>5 DEF WindowServes, WindowCounts, Counter!Add
    <2> QED
      OBVIOUS
  <1>6. CASE Counter!Incr(r) /\ Counter!Expired(b)
    <2> WindowServes(r, "again")
      BY <1>1, <1>2, <1>6 DEF WindowServes, WindowCounts, Counter!Incr
    <2> QED
      OBVIOUS
  <1>7. CASE Counter!Incr(r) /\ ~Counter!Expired(b)
    <2>1. /\ v2' = [v2 EXCEPT ![b].count = @ + 1] /\ Counter!Goto(r, Counter!Verdict(v2[b].count + 1))
          /\ v3[r].at = "incr" /\ v1' = v1 /\ v4' = v4
      BY <1>7 DEF Counter!Incr
    <2>2. ~Counter!Store(b)
      BY <1>2, <1>7
    <2>3. CASE v2[b].count + 1 <= Given.window.max
      <3>1. Counter!Goto(r, "admitted")
        BY <2>1, <2>3 DEF Counter!Verdict
      <3> WindowServes(r, "admitted")
        BY <1>1, <1>7, <2>1, <2>2, <2>3, <3>1 DEF WindowServes, WindowCounts
      <3> QED
        OBVIOUS
    <2>4. CASE ~(v2[b].count + 1 <= Given.window.max)
      <3>1. Counter!Goto(r, "denied")
        BY <2>1, <2>4 DEF Counter!Verdict
      <3> WindowServes(r, "denied")
        BY <1>1, <1>7, <2>1, <2>2, <3>1 DEF WindowServes, WindowCounts
      <3> QED
        OBVIOUS
    <2> QED
      BY <2>3, <2>4
  <1>8. CASE Counter!AddAgain(r) /\ Counter!Store(b) /\ Counter!Goto(r, "admitted")
    <2> WindowServes(r, "admitted")
      BY <1>1, <1>8 DEF WindowServes, WindowCounts, Counter!AddAgain
    <2> QED
      OBVIOUS
  <1>9. CASE Counter!AddAgain(r) /\ ~Counter!Expired(b) /\ Counter!Goto(r, "denied") /\ UNCHANGED v2
    <2> WindowServes(r, "denied")
      BY <1>1, <1>2, <1>9 DEF WindowServes, WindowCounts, Counter!AddAgain
    <2> QED
      OBVIOUS
  <1>10. CASE Counter!Fault(r)
    <2>1. /\ v3[r].at \in {"add", "incr", "again"} /\ v4' \in 0..Given.window.faults /\ v4' # 0
          /\ v1' = v1 /\ Counter!Goto(r, Counter!AfterFault(v3[r].at))
      BY <1>1, <1>10 DEF Counter!Fault
    <2>2. WindowCounts(b)
      BY <1>10 DEF Counter!Fault, WindowCounts
    <2>3. Counter!AfterFault(v3[r].at) \in {"incr", "again", "denied"}
      BY <2>1 DEF Counter!AfterFault
    <2> WindowServes(r, Counter!AfterFault(v3[r].at))
      BY <2>1, <2>2, <2>3 DEF WindowServes
    <2> QED
      BY <2>3
  <1> QED
    BY <1>4, <1>5, <1>6, <1>7, <1>8, <1>9, <1>10 DEF Counter!Serve, Counter!Add, Counter!AddAgain

(* What a statement keeps. *)

LEMMA WindowServedTypes ==
    ASSUME Counter!WindowAssumption, CounterInv, NEW r \in Given.window.requests, NEW at, WindowServes(r, at)
    PROVE  /\ Counter!TypeOK' /\ IsFiniteSet(v5)' /\ WindowBucketInv'
           /\ v3[r].window \in Counter!Windows /\ v3[r].window <= Counter!WindowNow
           /\ v3[r].window = v3[r].arrived \div Given.window.width
           /\ Counter!WindowNow' = Counter!WindowNow
  <1> DEFINE b == v3[r].window
  <1>1. b \in Counter!Windows /\ v3[r].arrived \in Nat
    BY DEF CounterInv, Counter!TypeOK, Counter!WindowAssumption
  <1>2. v3[r].at # "admitted" /\ v3[r].at # "idle"
    BY DEF WindowServes
  <1>3. at \in {"incr", "again", "admitted", "denied"} /\ Counter!Goto(r, at)
    BY DEF WindowServes
  <1>4. /\ v3' \in [Given.window.requests -> [at : {"idle", "add", "incr", "again", "admitted", "denied"},
                                       window : Counter!Windows, arrived : 0..Given.window.time]]
        /\ v3'[r].window = b /\ v3'[r].arrived = v3[r].arrived
        /\ \A q \in Given.window.requests : q # r => v3'[q] = v3[q]
        /\ v5' \subseteq {q \in Given.window.requests : v3'[q].at = "admitted"}
        /\ v5' = v5 \cup {r} \/ v5' = v5
    BY <1>2, <1>3, WindowGotoTypes DEF CounterInv
  <1>5. v2' \in [Counter!Windows -> [count : Nat, expires : Nat]]
    BY <1>1, WindowRowTypes DEF CounterInv, WindowServes
  <1>6. v1' = v1 /\ v4' \in 0..Given.window.faults
    BY DEF WindowServes
  <1>7. Counter!TypeOK'
    BY <1>4, <1>5, <1>6 DEF CounterInv, Counter!TypeOK, Counter!Windows
  <1>8. IsFiniteSet(v5')
    BY <1>4, FS_AddElement DEF CounterInv
  <1>9. b = v3[r].arrived \div Given.window.width /\ v3[r].arrived <= v1
    BY <1>2 DEF CounterInv, WindowBucketInv
  <1>10. WindowBucketInv'
    BY <1>4, <1>6, <1>9 DEF CounterInv, WindowBucketInv
  <1>11. b <= Counter!WindowNow
    BY <1>1, <1>9, WindowDivision, WindowClock DEF CounterInv, Counter!WindowNow
  <1> QED
    BY <1>1, <1>6, <1>7, <1>8, <1>9, <1>10, <1>11 DEF Counter!WindowNow

(* Nobody is counted for the window of a request that is not decided but   *)
(* those that were; the request that is admitted joins the count.          *)
LEMMA WindowServedCounts ==
    ASSUME Counter!WindowAssumption, CounterInv, NEW r \in Given.window.requests, NEW at, WindowServes(r, at),
           NEW c \in Counter!Windows
    PROVE  /\ IsFiniteSet(WindowCounted(c)) /\ Cardinality(WindowCounted(c)) \in Nat
           /\ \/ WindowCounted(c)' = WindowCounted(c)
              \/ /\ at = "admitted" /\ c = v3[r].window /\ c = Counter!WindowNow
                 /\ Cardinality(WindowCounted(c)') = Cardinality(WindowCounted(c)) + 1
  <1>1. v3[r].at # "admitted"
    BY DEF WindowServes
  <1>2. /\ v3'[r].window = v3[r].window
        /\ \A q \in Given.window.requests : q # r => v3'[q] = v3[q]
        /\ r \notin v5
        /\ v5' = IF at = "admitted" /\ Counter!WindowNow = v3[r].window
                     THEN v5 \cup {r} ELSE v5
    BY <1>1, WindowGotoTypes DEF CounterInv, WindowServes
  <1>3. v5 \subseteq Given.window.requests
    BY DEF CounterInv, Counter!TypeOK
  <1>4. IsFiniteSet(WindowCounted(c)) /\ Cardinality(WindowCounted(c)) \in Nat
    BY FS_Subset, FS_CardinalityType DEF CounterInv, WindowCounted
  <1>5. r \notin WindowCounted(c)
    BY <1>2 DEF WindowCounted
  <1>6. CASE at = "admitted" /\ Counter!WindowNow = v3[r].window /\ c = v3[r].window
    <2>1. WindowCounted(c)' = WindowCounted(c) \cup {r}
      BY <1>2, <1>3, <1>6 DEF WindowCounted
    <2>2. Cardinality(WindowCounted(c)') = Cardinality(WindowCounted(c)) + 1
      BY <1>4, <1>5, <2>1, FS_AddElement
    <2> QED
      BY <1>4, <1>6, <2>2
  <1>7. CASE ~(at = "admitted" /\ Counter!WindowNow = v3[r].window /\ c = v3[r].window)
    <2>1. WindowCounted(c)' = WindowCounted(c)
      BY <1>2, <1>3, <1>7 DEF WindowCounted
    <2> QED
      BY <1>4, <2>1
  <1> QED
    BY <1>6, <1>7

LEMMA WindowServedRows ==
    ASSUME Counter!WindowAssumption, CounterInv, NEW r \in Given.window.requests, NEW at, WindowServes(r, at)
    PROVE  WindowRowInv' /\ Counter!WindowLimit'
  <1> DEFINE b == v3[r].window
  <1>1. /\ b \in Counter!Windows /\ b <= Counter!WindowNow /\ Counter!WindowNow' = Counter!WindowNow
        /\ Counter!WindowNow \in Counter!Windows /\ Counter!Windows \subseteq Nat /\ Counter!Windows' = Counter!Windows
        /\ v1 \in Nat /\ Given.window.width \in Nat /\ Given.window.max \in Nat /\ Given.window.max >= 1
        /\ v1 + Given.window.width >= Given.window.width * (Counter!WindowNow + 1)
    <2>1. Counter!Windows' = Counter!Windows
      BY DEF Counter!Windows
    <2>2. v1 \in Nat /\ Given.window.width \in Nat /\ Given.window.max \in Nat /\ Given.window.max >= 1
      BY WindowClock DEF CounterInv, Counter!WindowAssumption
    <2> QED
      BY <2>1, <2>2, WindowServedTypes, WindowClock DEF CounterInv
  <1>2. /\ \A c \in Counter!Windows : c # b => v2'[c] = v2[c]
        /\ \/ v2'[b] = v2[b]
           \/ /\ Counter!Expired(b)
              /\ v2'[b].count = 1 /\ v2'[b].expires = v1 + Given.window.width
           \/ /\ ~Counter!Expired(b)
              /\ v2'[b].count = v2[b].count + 1 /\ v2'[b].expires = v2[b].expires
    BY <1>1, WindowRowTypes DEF CounterInv, WindowServes
  <1>3. \A c \in Counter!Windows : v2[c].count \in Nat /\ v2[c].expires \in Nat
    BY DEF CounterInv, Counter!TypeOK
  <1>4. at = "admitted" =>
          \/ Counter!Expired(b) /\ v2'[b].count = 1
          \/ ~Counter!Expired(b) /\ v2[b].count + 1 <= Given.window.max /\ v2'[b].count = v2[b].count + 1
    <2>1. v2 \in [Counter!Windows -> [count : Nat, expires : Nat]]
      BY DEF CounterInv, Counter!TypeOK
    <2>2. CASE Counter!Store(b)
      <3>1. Counter!Expired(b) /\ v2' = [v2 EXCEPT ![b] = [count |-> 1, expires |-> v1 + Given.window.width]]
        BY <2>2 DEF Counter!Store
      <3> QED
        BY <1>1, <2>1, <3>1
    <2>3. CASE ~Counter!Store(b) /\ at = "admitted"
      <3>1. ~Counter!Expired(b) /\ v2[b].count + 1 <= Given.window.max /\ v2' = [v2 EXCEPT ![b].count = @ + 1]
        BY <2>3 DEF WindowServes
      <3>2. v2[b] \in [count : Nat, expires : Nat]
        BY <1>1, <2>1
      <3> QED
        BY <1>1, <2>1, <3>1, <3>2
    <2> QED
      BY <2>2, <2>3
  <1>5. Counter!Expired(Counter!WindowNow) => v2[Counter!WindowNow].count = 0
    BY <1>1, <1>3, WindowRowLives DEF CounterInv
  <1>6. \A c \in Counter!Windows : c >= Counter!WindowNow =>
          /\ v2[c].count > 0 => c = Counter!WindowNow /\ v2[c].expires >= Given.window.width * (c + 1)
          /\ Cardinality(WindowCounted(c)) <= v2[c].count
    BY DEF CounterInv, WindowRowInv
  <1>7. \A c \in Counter!Windows : Cardinality(WindowCounted(c)) <= Given.window.max
    BY WindowCount DEF CounterInv, Counter!WindowLimit, WindowCounted
  <1>8. \A c \in Counter!Windows :
          /\ Cardinality(WindowCounted(c)) \in Nat
          /\ \/ WindowCounted(c)' = WindowCounted(c)
             \/ /\ at = "admitted" /\ c = b /\ c = Counter!WindowNow
                /\ Cardinality(WindowCounted(c)') = Cardinality(WindowCounted(c)) + 1
    BY WindowServedCounts
  <1>9. ASSUME NEW c \in Counter!Windows, c >= Counter!WindowNow
        PROVE  /\ v2'[c].count > 0 => c = Counter!WindowNow /\ v2'[c].expires >= Given.window.width * (c + 1)
               /\ Cardinality(WindowCounted(c)') <= v2'[c].count
    <2>1. c \in Nat /\ Counter!WindowNow \in Nat /\ b \in Nat
      BY <1>1
    <2> HIDE DEF b, Counter!WindowNow
    <2>2. CASE c # b
      BY <1>2, <1>6, <1>8, <1>9, <2>2
    <2>3. CASE c = b
      <3>1. c = Counter!WindowNow
        BY <1>1, <1>9, <2>1, <2>3
      <3>2. CASE v2'[b] = v2[b]
        <4>1. at # "admitted"
          BY <1>1, <1>3, <1>4, <1>5, <2>3, <3>1, <3>2
        <4> QED
          BY <1>6, <1>8, <1>9, <2>3, <3>2, <4>1
      <3>3. CASE Counter!Expired(b) /\ v2'[b].count = 1 /\ v2'[b].expires = v1 + Given.window.width
        <4>1. Cardinality(WindowCounted(c)) = 0
          BY <1>3, <1>5, <1>6, <1>8, <1>9, <2>3, <3>1, <3>3
        <4>2. Cardinality(WindowCounted(c)') <= 1
          BY <1>8, <4>1
        <4>3. v2'[c].expires >= Given.window.width * (c + 1)
          BY <1>1, <2>3, <3>1, <3>3
        <4> QED
          BY <2>3, <3>1, <3>3, <4>2, <4>3
      <3>4. CASE /\ ~Counter!Expired(b)
                 /\ v2'[b].count = v2[b].count + 1 /\ v2'[b].expires = v2[b].expires
        <4>1. v2[b].count > 0
          BY <1>1, <1>3, <3>4 DEF Counter!Expired
        <4>2. v2'[c].expires >= Given.window.width * (c + 1)
          BY <1>6, <1>9, <2>3, <3>4, <4>1
        <4>3. Cardinality(WindowCounted(c)) <= v2[c].count
          BY <1>6, <1>9
        <4>4. Cardinality(WindowCounted(c)') <= Cardinality(WindowCounted(c)) + 1
          BY <1>8
        <4>5. Cardinality(WindowCounted(c)') <= v2'[c].count
          BY <1>1, <1>3, <1>8, <2>3, <3>4, <4>3, <4>4
        <4> QED
          BY <3>1, <4>2, <4>5
      <3> QED
        BY <1>2, <3>2, <3>3, <3>4
    <2> QED
      BY <2>2, <2>3
  <1>10. WindowRowInv'
    BY <1>1, <1>9 DEF WindowRowInv
  <1>11. ASSUME NEW c \in Counter!Windows PROVE Cardinality(WindowCounted(c)') <= Given.window.max
    <2> HIDE DEF b, Counter!WindowNow
    <2>1. CASE WindowCounted(c)' = WindowCounted(c)
      BY <1>7, <2>1
    <2>2. CASE /\ at = "admitted" /\ c = b /\ c = Counter!WindowNow
               /\ Cardinality(WindowCounted(c)') = Cardinality(WindowCounted(c)) + 1
      <3>1. c \in Nat /\ c >= Counter!WindowNow
        BY <1>1, <2>2
      <3>2. Cardinality(WindowCounted(c)') <= v2'[c].count
        BY <1>9, <3>1
      <3>3. v2'[c].count <= Given.window.max
        BY <1>1, <1>4, <2>2
      <3> QED
        BY <1>1, <1>3, <1>4, <1>8, <2>2, <3>2, <3>3
    <2> QED
      BY <1>8, <2>1, <2>2
  <1>12. Counter!WindowLimit'
    BY <1>1, <1>11, WindowCount DEF Counter!WindowLimit, WindowCounted
  <1> QED
    BY <1>10, <1>12

LEMMA WindowServedStarts ==
    ASSUME Counter!WindowAssumption, CounterInv, NEW r \in Given.window.requests, NEW at, WindowServes(r, at)
    PROVE  WindowStartInv' /\ Counter!NewWindowAdmits'
  <1> DEFINE b == v3[r].window
  <1>1. /\ b \in Counter!Windows /\ Counter!Windows' = Counter!Windows /\ b = v3[r].arrived \div Given.window.width
        /\ Counter!Windows \subseteq Nat
    BY WindowServedTypes, WindowClock DEF CounterInv, Counter!Windows
  <1>2. v3[r].at \in {"add", "incr", "again"}
    BY DEF WindowServes
  <1>3. /\ v3'[r].at = at
        /\ v3'[r].window = b /\ v3'[r].arrived = v3[r].arrived
        /\ \A q \in Given.window.requests : q # r => v3'[q] = v3[q]
    BY <1>2, WindowGotoTypes DEF CounterInv, WindowServes
  <1>4. \A c \in Counter!Windows : v2[c].count \in Nat
    BY DEF CounterInv, Counter!TypeOK
  <1>5. \A c \in Counter!Windows : c # b => v2'[c] = v2[c]
    BY <1>1, WindowRowTypes DEF CounterInv, WindowServes
  <1>6. v4' = 0 => v4 = 0
    BY DEF WindowServes
  <1>7. ASSUME v4 = 0, NEW c \in Counter!Windows, v2[c].count > 0
        PROVE  \E q \in Given.window.requests \ {r} : v3[q].at = "admitted" /\ v3[q].window = c
    BY <1>2, <1>7 DEF CounterInv, WindowStartInv
  <1>8. ASSUME v4' = 0, NEW c \in Counter!Windows, v2'[c].count > 0
        PROVE  \E q \in Given.window.requests : v3'[q].at = "admitted" /\ v3'[q].window = c
    <2>1. CASE v2[c].count > 0
      <3>1. PICK q \in Given.window.requests \ {r} : v3[q].at = "admitted" /\ v3[q].window = c
        BY <1>6, <1>7, <1>8, <2>1
      <3> QED
        BY <1>3, <3>1
    <2>2. CASE ~(v2[c].count > 0)
      <3>1. c = b /\ v2[b].count = 0
        BY <1>1, <1>4, <1>5, <1>8, <2>2
      <3>2. Counter!Expired(b) /\ v2' # v2
        BY <1>8, <2>2, <3>1 DEF Counter!Expired
      <3>3. Counter!Store(b)
        BY <3>2 DEF WindowServes, WindowCounts
      <3>4. at = "admitted"
        BY <1>8, <3>3 DEF WindowServes
      <3> QED
        BY <1>3, <3>1, <3>4
    <2> QED
      BY <2>1, <2>2
  <1>9. WindowStartInv'
    BY <1>1, <1>8 DEF WindowStartInv
  <1>10. ASSUME NEW p \in Given.window.requests, v3'[p].at = "denied", v4' = 0
         PROVE  \E q \in Given.window.requests \ {p} :
                   /\ v3'[q].at # "idle"
                   /\ v3'[q].arrived \div Given.window.width = v3'[p].arrived \div Given.window.width
    <2>1. CASE p = r
      <3>1. ~Counter!Expired(b)
        <4>1. at = "denied"
          BY <1>3, <1>10, <2>1
        <4>2. at = "denied" => v4' # 0 \/ ~Counter!Expired(b)
          BY DEF WindowServes
        <4> QED
          BY <1>10, <4>1, <4>2
      <3>2. v2[b].count > 0
        <4>1. v2[b].count # 0
          BY <3>1 DEF Counter!Expired
        <4>2. v2[b].count \in Nat
          BY <1>1, <1>4
        <4> QED
          BY <4>1, <4>2
      <3>3. PICK q \in Given.window.requests \ {r} : v3[q].at = "admitted" /\ v3[q].window = b
        BY <1>1, <1>6, <1>7, <1>10, <3>2
      <3>4. v3[q].arrived \div Given.window.width = b
        BY <3>3 DEF CounterInv, WindowBucketInv
      <3> QED
        BY <1>1, <1>3, <2>1, <3>3, <3>4
    <2>2. CASE p # r
      <3>1. PICK q \in Given.window.requests \ {p} :
                   /\ v3[q].at # "idle"
                   /\ v3[q].arrived \div Given.window.width = v3[p].arrived \div Given.window.width
        BY <1>3, <1>6, <1>10, <2>2 DEF CounterInv, Counter!NewWindowAdmits
      <3>2. v3'[q].at # "idle" /\ v3'[q].arrived = v3[q].arrived
        <4>1. at # "idle"
          BY DEF WindowServes
        <4> QED
          BY <1>3, <3>1, <4>1
      <3> QED
        BY <1>3, <2>2, <3>1, <3>2
    <2> QED
      BY <2>1, <2>2
  <1>11. Counter!NewWindowAdmits'
    BY <1>10 DEF Counter!NewWindowAdmits
  <1> QED
    BY <1>9, <1>11

LEMMA WindowServedKeeps ==
    ASSUME Counter!WindowAssumption, CounterInv, NEW r \in Given.window.requests, Counter!Serve(r) \/ Counter!Fault(r)
    PROVE  CounterInv'
  <1>1. PICK at : WindowServes(r, at)
    BY WindowStatements DEF CounterInv
  <1> QED
    BY <1>1, WindowServedTypes, WindowServedRows, WindowServedStarts DEF CounterInv

(* The other steps. *)

LEMMA WindowInit ==
    ASSUME Counter!WindowAssumption, Counter!Init
    PROVE  CounterInv
  <1>1. /\ v1 = 0 /\ Given.window.time \in Nat /\ Given.window.faults \in Nat /\ Given.window.max \in Nat
        /\ Given.window.width \in Nat \ {0}
    BY DEF Counter!Init, Counter!WindowAssumption
  <1>2. Given.window.time \div Given.window.width \in Nat
    BY <1>1, WindowDivision
  <1>3. 0 \in Counter!Windows /\ Counter!Windows \subseteq Nat
    BY <1>2 DEF Counter!Windows
  <1>4. Counter!TypeOK
    BY <1>1, <1>3 DEF Counter!Init, Counter!TypeOK, Counter!NoRow
  <1>5. IsFiniteSet(v5) /\ \A b \in Counter!Windows : Cardinality(WindowCounted(b)) = 0
    <2>1. v5 = {}
      BY DEF Counter!Init
    <2>2. \A b \in Counter!Windows : WindowCounted(b) = {}
      BY <2>1 DEF WindowCounted
    <2> QED
      BY <2>1, <2>2, FS_EmptySet
  <1>6. WindowBucketInv /\ Counter!NewWindowAdmits
    BY DEF Counter!Init, WindowBucketInv, Counter!NewWindowAdmits
  <1>7. \A b \in Counter!Windows : v2[b].count = 0
    BY DEF Counter!Init, Counter!NoRow
  <1>8. WindowRowInv /\ WindowStartInv
    BY <1>5, <1>7 DEF WindowRowInv, WindowStartInv
  <1>9. Counter!WindowLimit
    BY <1>1, <1>5, WindowCount DEF Counter!WindowLimit, WindowCounted
  <1> QED
    BY <1>4, <1>5, <1>6, <1>8, <1>9 DEF CounterInv

LEMMA WindowArriveKeeps ==
    ASSUME Counter!WindowAssumption, CounterInv, NEW r \in Given.window.requests, Counter!Arrive(r)
    PROVE  CounterInv'
  <1>1. /\ v3[r].at = "idle"
        /\ v3' = [v3 EXCEPT ![r] = [at |-> "add", window |-> Counter!WindowNow, arrived |-> v1]]
        /\ v1' = v1 /\ v2' = v2 /\ v4' = v4 /\ v5' = v5
    BY DEF Counter!Arrive
  <1>2. v1 \in 0..Given.window.time /\ Counter!WindowNow \in Counter!Windows
    BY WindowClock DEF CounterInv, Counter!TypeOK
  <1>3. /\ v3'[r] = [at |-> "add", window |-> Counter!WindowNow, arrived |-> v1]
        /\ \A q \in Given.window.requests : q # r => v3'[q] = v3[q]
        /\ v3' \in [Given.window.requests -> [at : {"idle", "add", "incr", "again", "admitted", "denied"},
                                      window : Counter!Windows, arrived : 0..Given.window.time]]
    BY <1>1, <1>2 DEF CounterInv, Counter!TypeOK
  <1>4. \A q \in v5 : q \in Given.window.requests /\ q # r /\ v3[q].at = "admitted"
    BY <1>1 DEF CounterInv, Counter!TypeOK
  <1>5. Counter!TypeOK' /\ IsFiniteSet(v5)'
    BY <1>1, <1>3, <1>4 DEF CounterInv, Counter!TypeOK, Counter!Windows
  <1>6. WindowBucketInv'
    BY <1>1, <1>2, <1>3 DEF CounterInv, WindowBucketInv, Counter!WindowNow
  <1>7. Counter!WindowNow' = Counter!WindowNow /\ Counter!Windows' = Counter!Windows
    BY <1>1 DEF Counter!WindowNow, Counter!Windows
  <1>8. \A b \in Counter!Windows : WindowCounted(b)' = WindowCounted(b)
    BY <1>1, <1>3, <1>4 DEF WindowCounted
  <1>9. WindowRowInv' /\ Counter!WindowLimit'
    <2>1. \A b \in Counter!Windows : WindowCounted(b)' = {q \in v5 : v3[q].window = b}
      BY <1>8 DEF WindowCounted
    <2>2. Counter!WindowLimit'
      <3>1. \A b \in Counter!Windows : Cardinality(WindowCounted(b)) <= Given.window.max
        BY WindowCount DEF CounterInv, Counter!WindowLimit, WindowCounted
      <3>2. \A b \in Counter!Windows : Cardinality(WindowCounted(b)') <= Given.window.max
        BY <1>8, <3>1
      <3> QED
        BY <1>7, <3>2, WindowCount DEF Counter!WindowLimit, WindowCounted
    <2>3. WindowRowInv'
      <3>1. \A b \in Counter!Windows : b >= Counter!WindowNow =>
              /\ v2[b].count > 0 => b = Counter!WindowNow /\ v2[b].expires >= Given.window.width * (b + 1)
              /\ Cardinality(WindowCounted(b)') <= v2[b].count
        BY <1>8 DEF CounterInv, WindowRowInv
      <3> QED
        BY <1>1, <1>7, <3>1 DEF WindowRowInv
    <2> QED
      BY <2>2, <2>3
  <1>10. WindowStartInv'
    BY <1>1, <1>3, <1>7 DEF CounterInv, WindowStartInv
  <1>11. Counter!NewWindowAdmits'
    BY <1>1, <1>3 DEF CounterInv, Counter!NewWindowAdmits
  <1> QED
    BY <1>5, <1>6, <1>9, <1>10, <1>11 DEF CounterInv

(* A clean-up deletes no row of the window that has begun.                 *)
LEMMA WindowCleanUpKeeps ==
    ASSUME Counter!WindowAssumption, CounterInv, Counter!CleanUp
    PROVE  CounterInv'
  <1>1. /\ v2' = [b \in Counter!Windows |-> IF Counter!Expired(b) THEN Counter!NoRow ELSE v2[b]]
        /\ v1' = v1 /\ v3' = v3 /\ v4' = v4 /\ v5' = v5
    BY DEF Counter!CleanUp
  <1>2. /\ Counter!WindowNow' = Counter!WindowNow /\ Counter!Windows' = Counter!Windows /\ Counter!WindowNow \in Counter!Windows
        /\ Counter!Windows \subseteq Nat /\ Counter!WindowNow \in Nat
    <2>1. Counter!WindowNow' = Counter!WindowNow
      BY <1>1 DEF Counter!WindowNow
    <2>2. Counter!Windows' = Counter!Windows
      BY DEF Counter!Windows
    <2> QED
      BY <2>1, <2>2, WindowClock DEF CounterInv
  <1>3. \A b \in Counter!Windows : v2[b] \in [count : Nat, expires : Nat]
    BY DEF CounterInv, Counter!TypeOK
  <1>4. \A b \in Counter!Windows : v2'[b] = (IF Counter!Expired(b) THEN Counter!NoRow ELSE v2[b])
    BY <1>1
  <1>5. \A b \in Counter!Windows : v2'[b].count > 0 => v2'[b] = v2[b]
    BY <1>4 DEF Counter!NoRow
  <1>6. Counter!TypeOK' /\ IsFiniteSet(v5)'
    <2>1. \A b \in Counter!Windows : v2'[b] \in [count : Nat, expires : Nat]
      BY <1>3, <1>4 DEF Counter!NoRow
    <2>2. v2' \in [Counter!Windows -> [count : Nat, expires : Nat]]
      BY <1>1, <2>1
    <2> QED
      BY <1>1, <1>2, <2>2 DEF CounterInv, Counter!TypeOK
  <1>7. \A b \in Counter!Windows : b >= Counter!WindowNow => v2'[b].count = v2[b].count
    <2> SUFFICES ASSUME NEW b \in Counter!Windows, b >= Counter!WindowNow, Counter!Expired(b) PROVE v2[b].count = 0
      BY <1>4 DEF Counter!NoRow
    <2>1. v2[b].count > 0 => b = Counter!WindowNow
      BY DEF CounterInv, WindowRowInv
    <2>2. ~(v2[Counter!WindowNow].count > 0) \/ ~Counter!Expired(Counter!WindowNow)
      BY WindowRowLives DEF CounterInv
    <2> QED
      BY <1>3, <2>1, <2>2
  <1>8. \A b \in Counter!Windows : WindowCounted(b)' = WindowCounted(b)
    BY <1>1 DEF WindowCounted
  <1>9. WindowRowInv'
    <2>1. ASSUME NEW b \in Counter!Windows, b >= Counter!WindowNow
          PROVE  /\ v2'[b].count > 0 => b = Counter!WindowNow /\ v2'[b].expires >= Given.window.width * (b + 1)
                 /\ Cardinality(WindowCounted(b)') <= v2'[b].count
      <3>1. /\ v2[b].count > 0 => b = Counter!WindowNow /\ v2[b].expires >= Given.window.width * (b + 1)
            /\ Cardinality(WindowCounted(b)) <= v2[b].count
        BY <2>1 DEF CounterInv, WindowRowInv
      <3> QED
        BY <1>5, <1>7, <1>8, <2>1, <3>1
    <2> QED
      BY <1>2, <2>1 DEF WindowRowInv
  <1>10. WindowBucketInv' /\ Counter!WindowLimit' /\ Counter!NewWindowAdmits'
    BY <1>1, <1>2 DEF CounterInv, WindowBucketInv, Counter!WindowLimit, Counter!NewWindowAdmits
  <1>11. WindowStartInv'
    BY <1>1, <1>2, <1>5 DEF CounterInv, WindowStartInv
  <1> QED
    BY <1>6, <1>9, <1>10, <1>11 DEF CounterInv

(* Time passes: the window that begins has no row and has counted nobody. *)
LEMMA WindowPassKeeps ==
    ASSUME Counter!WindowAssumption, CounterInv, Counter!Pass
    PROVE  CounterInv'
  <1>1. /\ v1' = v1 + 1 /\ v1 < Given.window.time
        /\ v2' = v2 /\ v3' = v3 /\ v4' = v4 /\ v5' = v5
    BY DEF Counter!Pass
  <1>2. v1 \in Nat /\ Given.window.time \in Nat /\ Counter!Windows \subseteq Nat /\ Counter!Windows' = Counter!Windows
    <2>1. Counter!Windows' = Counter!Windows
      BY DEF Counter!Windows
    <2> QED
      BY <2>1, WindowClock DEF CounterInv, Counter!WindowAssumption
  <1>3. Counter!WindowNow' \in {Counter!WindowNow, Counter!WindowNow + 1} /\ Counter!WindowNow \in Nat
    BY <1>1, <1>2, WindowDivision, WindowClock DEF CounterInv, Counter!WindowNow
  <1>4. Counter!TypeOK' /\ IsFiniteSet(v5)'
    BY <1>1, <1>2 DEF CounterInv, Counter!TypeOK
  <1>5. WindowBucketInv'
    <2>1. \A r \in Given.window.requests : v3[r].arrived \in Nat
      BY <1>2 DEF CounterInv, Counter!TypeOK
    <2> QED
      BY <1>1, <1>2, <2>1 DEF CounterInv, WindowBucketInv
  <1>6. \A b \in Counter!Windows : WindowCounted(b)' = WindowCounted(b)
    BY <1>1 DEF WindowCounted
  <1>7. WindowRowInv'
    <2>1. ASSUME NEW b \in Counter!Windows, b >= Counter!WindowNow'
          PROVE  /\ v2[b].count > 0 => b = Counter!WindowNow' /\ v2[b].expires >= Given.window.width * (b + 1)
                 /\ Cardinality(WindowCounted(b)') <= v2[b].count
      <3>1. b \in Nat /\ b >= Counter!WindowNow
        BY <1>2, <1>3, <2>1
      <3>2. /\ v2[b].count > 0 => b = Counter!WindowNow /\ v2[b].expires >= Given.window.width * (b + 1)
            /\ Cardinality(WindowCounted(b)) <= v2[b].count
        BY <3>1 DEF CounterInv, WindowRowInv
      <3>3. v2[b].count > 0 => b = Counter!WindowNow'
        BY <1>3, <2>1, <3>1, <3>2
      <3> QED
        BY <1>6, <3>2, <3>3
    <2> QED
      BY <1>1, <1>2, <2>1 DEF WindowRowInv
  <1>8. Counter!WindowLimit' /\ WindowStartInv' /\ Counter!NewWindowAdmits'
    BY <1>1, <1>2 DEF CounterInv, Counter!WindowLimit, WindowStartInv, Counter!NewWindowAdmits
  <1> QED
    BY <1>4, <1>5, <1>7, <1>8 DEF CounterInv

LEMMA WindowNext ==
    ASSUME Counter!WindowAssumption, CounterInv, [Counter!Next]_Counter!vars
    PROVE  CounterInv'
  <1>1. CASE UNCHANGED Counter!vars
    <2>1. /\ v1' = v1 /\ v2' = v2 /\ v3' = v3 /\ v4' = v4
          /\ v5' = v5 /\ Counter!Windows' = Counter!Windows
      BY <1>1 DEF Counter!vars, Counter!Windows
    <2>2. Counter!WindowNow' = Counter!WindowNow /\ \A b \in Counter!Windows : WindowCounted(b)' = WindowCounted(b)
      BY <2>1 DEF Counter!WindowNow, WindowCounted
    <2>3. Counter!TypeOK' /\ IsFiniteSet(v5)' /\ WindowBucketInv' /\ WindowStartInv'
      BY <2>1 DEF CounterInv, Counter!TypeOK, WindowBucketInv, WindowStartInv
    <2>4. Counter!WindowLimit' /\ Counter!NewWindowAdmits'
      BY <2>1 DEF CounterInv, Counter!WindowLimit, Counter!NewWindowAdmits
    <2>5. WindowRowInv'
      BY <2>1, <2>2 DEF CounterInv, WindowRowInv
    <2> QED
      BY <2>3, <2>4, <2>5 DEF CounterInv
  <1>2. CASE Counter!Next
    BY <1>2, WindowArriveKeeps, WindowServedKeeps, WindowCleanUpKeeps, WindowPassKeeps DEF Counter!Next
  <1> QED
    BY <1>1, <1>2

LEMMA WindowHolds ==
    ASSUME CounterInv
    PROVE  Counter!TypeOK /\ Counter!WindowLimit /\ Counter!NewWindowAdmits
  BY DEF CounterInv

=============================================================================
