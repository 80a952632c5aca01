------------------------------ MODULE Fencing ------------------------------
(***************************************************************************)
(* What the coordinator promises the enforcement plane about fencing       *)
(* tokens, with no word on evidence, claims or placement.  An assignment   *)
(* identifier carries the token of its last attempt.  A process lifetime   *)
(* numbers its tokens from one; an attempt holds authority only under a    *)
(* token of the running lifetime, and an identifier whose attempt ended    *)
(* comes back under a later token or not at all.                           *)
(***************************************************************************)
EXTENDS Integers, TLAPS

CONSTANT Names   \* assignment identifiers

VARIABLES
  up,      \* a process is running
  life,    \* its lifetime, or that of the last one
  issued,  \* number of tokens it has issued
  att      \* [fence, mode] of the last attempt, per identifier in use

fvars == <<up, life, issued, att>>

Modes == {"holding", "idle", "ended"}
Token == [ep : Nat, seq : Nat]
Attempt == [fence : Token, mode : Modes]

\* (epoch, sequence) orders tokens.
Later(f, g) == f.ep > g.ep \/ (f.ep = g.ep /\ f.seq > g.seq)

Init ==
  /\ up = FALSE /\ life = 0 /\ issued = 0
  /\ att = [i \in {} |-> 0]

\* Without a new token an attempt may lose its authority, regain it under a
\* token of this lifetime, or end.
May(x) ==
  {y \in {[fence |-> x.fence, mode |-> m] : m \in Modes} :
     /\ x.mode = "ended" => y.mode = "ended"
     /\ x.mode # "holding" /\ y.mode = "holding" => x.fence.ep = life}

\* A start takes the authority of every attempt it looks at.
Stripped(x) == [fence |-> x.fence, mode |-> IF x.mode = "holding" THEN "idle" ELSE x.mode]

\* A token may be issued in vain, when the attempt could not be recorded.
Carry ==
  /\ up
  /\ UNCHANGED <<up, life>> /\ issued' \in {issued, issued + 1}
  /\ DOMAIN att' = DOMAIN att
  /\ \A i \in DOMAIN att : att'[i] \in May(att[i])

Try(i) ==
  /\ up
  /\ UNCHANGED <<up, life>> /\ issued' = issued + 1
  /\ DOMAIN att' = DOMAIN att \cup {i}
  /\ att'[i] \in {[fence |-> [ep |-> life, seq |-> issued + 1], mode |-> m] :
                    m \in {"holding", "idle"}}
  /\ \A j \in DOMAIN att \ {i} : att'[j] \in May(att[j])

Halt ==
  /\ up /\ up' = FALSE
  /\ life' = life /\ issued' = 0
  /\ DOMAIN att' = DOMAIN att
  /\ \A i \in DOMAIN att : att'[i] \in May(att[i])

Begin ==
  /\ ~up /\ up' = TRUE
  /\ life' = life + 1 /\ issued' = 0
  /\ DOMAIN att' = DOMAIN att
  /\ \A i \in DOMAIN att : att'[i] = Stripped(att[i])

BeginInVain ==
  /\ ~up
  /\ life' = life + 1 /\ UNCHANGED <<up, issued>>
  /\ DOMAIN att' = DOMAIN att
  /\ \A i \in DOMAIN att : att'[i] \in {att[i], Stripped(att[i])}

Next == Carry \/ (\E i \in Names : Try(i)) \/ Halt \/ Begin \/ BeginInVain

Spec == Init /\ [][Next]_fvars

-----------------------------------------------------------------------------
(* What follows *)

Typed ==
  /\ up \in BOOLEAN /\ life \in Nat /\ issued \in Nat
  /\ \A i \in DOMAIN att : att[i] \in Attempt

\* No token comes from the future.
Issued ==
  \A i \in DOMAIN att :
    /\ att[i].fence.ep <= life
    /\ up /\ att[i].fence.ep = life => att[i].fence.seq \in 1..issued

Unique == \A i, j \in DOMAIN att : i # j => att[i].fence # att[j].fence

Held ==
  up => \A i \in DOMAIN att : att[i].mode = "holding" => att[i].fence.ep = life

FenceInv == Typed /\ Issued /\ Unique /\ Held

\* What ended stays so under its token.
EndedStays ==
  \A i \in DOMAIN att :
    att[i].mode = "ended" /\ att'[i].mode # "ended" => Later(att'[i].fence, att[i].fence)

\* A change of mode without a new token keeps an attempt an attempt.
LEMMA MayKeeps ==
  ASSUME NEW x \in Attempt, NEW y \in May(x)
  PROVE  y \in Attempt /\ y.fence = x.fence
BY DEF May, Attempt

\* The same of a start.
LEMMA StrippedKeeps ==
  ASSUME NEW x \in Attempt
  PROVE  /\ Stripped(x) \in Attempt /\ Stripped(x).fence = x.fence
         /\ Stripped(x).mode # "holding"
BY DEF Stripped, Attempt, Modes

\* Every step preserves the inductive invariant of the tokens.
LEMMA FenceInvStep == FenceInv /\ [Next]_fvars => FenceInv'
<1> SUFFICES ASSUME FenceInv, [Next]_fvars PROVE FenceInv'
  OBVIOUS
<1> USE DEF FenceInv
<1>0. Typed
  OBVIOUS
<1>1. CASE Carry
  <2>1. \A i \in DOMAIN att' : i \in DOMAIN att /\ att'[i] \in Attempt /\ att'[i].fence = att[i].fence
    BY <1>0, <1>1, MayKeeps DEF Carry, Typed
  <2>2. Typed'
    BY <1>0, <1>1, <2>1 DEF Carry, Typed
  <2>3. Issued'
    BY <1>0, <1>1, <2>1 DEF Carry, Issued, Typed, Attempt, Token
  <2>4. Unique'
    BY <2>1 DEF Unique
  <2>5. Held'
    BY <1>1 DEF Carry, Held, May
  <2> QED BY <2>2, <2>3, <2>4, <2>5
<1>2. ASSUME NEW k \in Names, Try(k) PROVE FenceInv'
  <2> DEFINE f == [ep |-> life, seq |-> issued + 1]
  <2>1. att'[k] \in Attempt /\ att'[k].fence = f
    BY <1>0, <1>2 DEF Try, Typed, Attempt, Token, Modes
  <2>2. ASSUME NEW i \in DOMAIN att', i # k
        PROVE  i \in DOMAIN att /\ att'[i] \in Attempt /\ att'[i].fence = att[i].fence
    BY <1>0, <1>2, <2>2, MayKeeps DEF Try, Typed
  <2>3. Typed'
    BY <1>0, <1>2, <2>1, <2>2 DEF Try, Typed
  <2>4. ASSUME NEW i \in DOMAIN att', i # k PROVE att'[i].fence # f
    BY <1>0, <1>2, <2>2, <2>4 DEF Issued, Try, Typed, Attempt, Token
  <2>5. Issued'
    <3>1. ASSUME NEW i \in DOMAIN att', i # k
          PROVE  /\ att'[i].fence.ep <= life
                 /\ att'[i].fence.ep = life => att'[i].fence.seq \in 1..(issued + 1)
      BY <1>0, <1>2, <2>2, <3>1 DEF Issued, Try, Typed, Attempt, Token
    <3>2. /\ att'[k].fence.ep <= life
          /\ att'[k].fence.seq \in 1..(issued + 1)
      BY <1>0, <2>1 DEF Typed
    <3> QED BY <1>2, <3>1, <3>2 DEF Issued, Try
  <2>6. Unique'
    BY <2>1, <2>2, <2>4 DEF Unique
  <2>7. Held'
    BY <1>2, <2>1, <2>2 DEF Try, Held, May
  <2> QED BY <2>3, <2>5, <2>6, <2>7
<1>3. CASE Halt
  <2>1. \A i \in DOMAIN att' : i \in DOMAIN att /\ att'[i] \in Attempt /\ att'[i].fence = att[i].fence
    BY <1>0, <1>3, MayKeeps DEF Halt, Typed
  <2> QED BY <1>0, <1>3, <2>1 DEF Halt, Typed, Issued, Unique, Held
<1>4. CASE Begin
  <2>1. \A i \in DOMAIN att' : /\ i \in DOMAIN att /\ att'[i] \in Attempt
                               /\ att'[i].fence = att[i].fence /\ att'[i].mode # "holding"
    BY <1>0, <1>4, StrippedKeeps DEF Begin, Typed
  <2>2. \A i \in DOMAIN att' : att'[i].fence.ep < life'
    BY <1>0, <1>4, <2>1 DEF Begin, Issued, Typed, Attempt, Token
  <2>3. Typed' /\ Held'
    BY <1>0, <1>4, <2>1 DEF Begin, Typed, Held
  <2>4. Issued'
    BY <2>1, <2>2, <2>3 DEF Issued, Typed, Attempt, Token
  <2>5. Unique'
    BY <2>1 DEF Unique
  <2> QED BY <2>3, <2>4, <2>5
<1>5. CASE BeginInVain
  <2>1. \A i \in DOMAIN att' : i \in DOMAIN att /\ att'[i] \in Attempt /\ att'[i].fence = att[i].fence
    BY <1>0, <1>5, StrippedKeeps DEF BeginInVain, Typed
  <2>2. Typed' /\ Held'
    BY <1>0, <1>5, <2>1 DEF BeginInVain, Typed, Held
  <2>3. Issued'
    BY <1>0, <1>5, <2>1 DEF BeginInVain, Issued, Typed, Attempt, Token
  <2>4. Unique'
    BY <2>1 DEF Unique
  <2> QED BY <2>2, <2>3, <2>4
<1>6. CASE UNCHANGED fvars
  BY <1>6 DEF fvars, Typed, Issued, Unique, Held
<1> QED BY <1>1, <1>2, <1>3, <1>4, <1>5, <1>6 DEF Next

\* Tokens are issued before they are carried, are never shared, and are those of
\* the running lifetime wherever authority is held.
THEOREM FencingSafe == Spec => []FenceInv
<1>1. Init => FenceInv
  <2>1. Init => DOMAIN att = {}
    BY DEF Init
  <2>2. Init => up \in BOOLEAN
    BY Zenon DEF Init
  <2>3. Init => life \in Nat /\ issued \in Nat
    BY SMT DEF Init
  <2> QED BY <2>1, <2>2, <2>3, Zenon DEF FenceInv, Typed, Issued, Unique, Held
<1> QED BY <1>1, FenceInvStep, PTL DEF Spec

\* An ended attempt comes back only under a later token.
THEOREM FencingMonotone == Spec => [][EndedStays]_fvars
<1>1. FenceInv /\ [Next]_fvars => [EndedStays]_fvars
  <2> SUFFICES ASSUME FenceInv, Next PROVE EndedStays
    OBVIOUS
  <2>0. Typed /\ Issued
    BY DEF FenceInv
  <2>1. CASE Carry
    BY <2>1 DEF Carry, EndedStays, May
  <2>2. ASSUME NEW k \in Names, Try(k) PROVE EndedStays
    <3>1. ASSUME NEW i \in DOMAIN att, i # k, att[i].mode = "ended"
          PROVE  att'[i].mode = "ended"
      BY <2>2, <3>1 DEF Try, May
    <3>2. ASSUME k \in DOMAIN att PROVE Later(att'[k].fence, att[k].fence)
      <4>1. att'[k].fence = [ep |-> life, seq |-> issued + 1]
        BY <2>2 DEF Try
      <4>2. /\ att[k].fence.ep \in Nat /\ att[k].fence.seq \in Nat /\ att[k].fence.ep <= life
            /\ att[k].fence.ep = life => att[k].fence.seq \in 1..issued
        BY <2>0, <2>2, <3>2 DEF Typed, Issued, Attempt, Token, Try
      <4> QED BY <2>0, <4>1, <4>2 DEF Later, Typed
    <3> QED BY <3>1, <3>2 DEF EndedStays
  <2>3. CASE Halt
    BY <2>3 DEF Halt, EndedStays, May
  <2>4. CASE Begin
    BY <2>4 DEF Begin, EndedStays, Stripped
  <2>5. CASE BeginInVain
    BY <2>5 DEF BeginInVain, EndedStays, Stripped
  <2> QED BY <2>1, <2>2, <2>3, <2>4, <2>5 DEF Next
<1> QED BY <1>1, FencingSafe, PTL DEF Spec
=============================================================================
