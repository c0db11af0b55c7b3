---------------------------- MODULE BgpRibProofs ----------------------------
(***************************************************************************)
(* The table of BgpRib, step by step: the types of its variables, the      *)
(* count of each peer's usable paths, and clearing, with dampening and     *)
(* without.  The theorems are in BgpRibSelectionProofs.                    *)
(*                                                                         *)
(* IInv ties a peer's count to the flags of its paths.  A handler works on *)
(* a copy of a route; Exact says that the copy's count is right.           *)
(*                                                                         *)
(* ClearInv says where each path of a session that is gone stands: it is   *)
(* in the clear_node_queue, it is stale and waited for, or it is spent.    *)
(* Every handler either leaves that alone or moves a path along.  Edited   *)
(* says which flags of a route a handler may have set and taken away.      *)
(***************************************************************************)
EXTENDS BgpRib, TLAPS

RouteSet == [ri : Info, pcount : Nat, process : BOOLEAN]

One(f) == IF "COUNTED" \in f THEN 1 ELSE 0

(* The count is b plus one if this route is counted.                       *)
Tally(x, b) == x \in RouteSet /\ x.pcount = b + One(x.ri.flags)

(* ... and the route is counted exactly when it is usable.                 *)
Exact(x, b) ==
  Tally(x, b) /\ ("COUNTED" \in x.ri.flags <=> ~HOLDDOWN(x.ri.flags))

-----------------------------------------------------------------------------
(* What SET_FLAG and UNSET_FLAG do to the fields of a route.               *)
LEMMA SetFlagFields ==
  ASSUME NEW x \in RouteSet, NEW F \in SUBSET Flags
  PROVE  /\ SET_FLAG(x, F) \in RouteSet
         /\ SET_FLAG(x, F).ri.flags = x.ri.flags \cup F
         /\ SET_FLAG(x, F).ri.attr = x.ri.attr
         /\ SET_FLAG(x, F).ri.damp = x.ri.damp
         /\ SET_FLAG(x, F).pcount = x.pcount
         /\ SET_FLAG(x, F).process = x.process
BY Zenon DEF RouteSet, Info, SET_FLAG

(* The same for clearing flags.                                            *)
LEMMA UnsetFlagFields ==
  ASSUME NEW x \in RouteSet, NEW F \in SUBSET Flags
  PROVE  /\ UNSET_FLAG(x, F) \in RouteSet
         /\ UNSET_FLAG(x, F).ri.flags = x.ri.flags \ F
         /\ UNSET_FLAG(x, F).ri.attr = x.ri.attr
         /\ UNSET_FLAG(x, F).ri.damp = x.ri.damp
         /\ UNSET_FLAG(x, F).pcount = x.pcount
         /\ UNSET_FLAG(x, F).process = x.process
BY Zenon DEF RouteSet, Info, UNSET_FLAG

(* bgp_pcount_adjust makes any tallied route exact, and touches only the   *)
(* COUNTED flag and the count.                                             *)
LEMMA AdjustExact ==
  ASSUME NEW x, NEW b \in Nat, Tally(x, b)
  PROVE  /\ Exact(bgp_pcount_adjust(x), b)
         /\ bgp_pcount_adjust(x).ri.flags \cup {"COUNTED"} = x.ri.flags \cup {"COUNTED"}
         /\ bgp_pcount_adjust(x).ri.attr = x.ri.attr
         /\ bgp_pcount_adjust(x).ri.damp = x.ri.damp
<1> DEFINE f == x.ri.flags
<1>0. x \in RouteSet /\ f \in SUBSET Flags /\ {"COUNTED"} \in SUBSET Flags
  BY Zenon DEF Tally, RouteSet, Info, Flags
<1>1. CASE HOLDDOWN(f) /\ "COUNTED" \in f
  <2> DEFINE u == UNSET_FLAG(x, {"COUNTED"})
             y == [u EXCEPT !.pcount = IF @ > 0 THEN @ - 1 ELSE 0]
  <2>1. bgp_pcount_adjust(x) = y
    BY <1>1, Zenon DEF bgp_pcount_adjust
  <2>2. /\ u \in RouteSet /\ u.ri.flags = f \ {"COUNTED"} /\ u.ri.attr = x.ri.attr
        /\ u.ri.damp = x.ri.damp /\ u.pcount = x.pcount
    BY <1>0, UnsetFlagFields
  <2>3. x.pcount = b + 1
    BY <1>1, Zenon DEF Tally, One
  <2>4. /\ y \in RouteSet /\ y.pcount = b /\ y.ri = u.ri
    BY <2>2, <2>3 DEF RouteSet
  <2>5. HOLDDOWN(f \ {"COUNTED"})
    BY <1>1, Zenon DEF HOLDDOWN, UNUSEABLE
  <2> HIDE DEF y, u
  <2>6. y.ri.flags = f \ {"COUNTED"} /\ "COUNTED" \notin y.ri.flags
    BY <2>2, <2>4, Zenon
  <2>7. Exact(y, b)
    BY <2>4, <2>5, <2>6 DEF Exact, Tally, One
  <2>8. (f \ {"COUNTED"}) \cup {"COUNTED"} = f \cup {"COUNTED"}
    BY Zenon
  <2> QED BY <2>1, <2>2, <2>4, <2>6, <2>7, <2>8, Zenon
<1>2. CASE ~HOLDDOWN(f) /\ "COUNTED" \notin f
  <2> DEFINE u == SET_FLAG(x, {"COUNTED"})
             y == [u EXCEPT !.pcount = @ + 1]
  <2>1. bgp_pcount_adjust(x) = y
    BY <1>2, Zenon DEF bgp_pcount_adjust
  <2>2. /\ u \in RouteSet /\ u.ri.flags = f \cup {"COUNTED"} /\ u.ri.attr = x.ri.attr
        /\ u.ri.damp = x.ri.damp /\ u.pcount = x.pcount
    BY <1>0, SetFlagFields, Zenon
  <2>3. x.pcount = b
    BY <1>2 DEF Tally, One
  <2>4. /\ y \in RouteSet /\ y.pcount = b + 1 /\ y.ri = u.ri
    BY <2>2, <2>3 DEF RouteSet
  <2>5. ~HOLDDOWN(f \cup {"COUNTED"})
    BY <1>2, Zenon DEF HOLDDOWN, UNUSEABLE
  <2> QED BY Zenon, <2>1, <2>2, <2>4, <2>5, <1>2 DEF Exact, Tally, One
<1>3. CASE /\ ~(HOLDDOWN(f) /\ "COUNTED" \in f)
           /\ ~(~HOLDDOWN(f) /\ "COUNTED" \notin f)
  <2>1. bgp_pcount_adjust(x) = x
    BY <1>3, Zenon DEF bgp_pcount_adjust
  <2> QED BY <2>1, <1>3, Zenon DEF Exact
<1> QED BY <1>1, <1>2, <1>3, Zenon

(* Setting or clearing flags through bgp_info_set_flag and                 *)
(* bgp_info_unset_flag keeps a route exact; where a flag bears on whether  *)
(* the route is usable, they make it so.                                   *)
LEMMA SetFlagExact ==
  ASSUME NEW x, NEW b \in Nat, NEW F \in SUBSET (Flags \ {"COUNTED"}),
         Tally(x, b), ChangesUse(F) \/ Exact(x, b)
  PROVE  /\ Exact(bgp_info_set_flag(x, F), b)
         /\ \A g \in Flags \ {"COUNTED"} :
              g \in bgp_info_set_flag(x, F).ri.flags <=> g \in x.ri.flags \cup F
         /\ bgp_info_set_flag(x, F).ri.attr = x.ri.attr
         /\ bgp_info_set_flag(x, F).ri.damp = x.ri.damp
<1> DEFINE y == SET_FLAG(x, F)
<1>1. /\ y \in RouteSet /\ y.ri.flags = x.ri.flags \cup F /\ y.ri.attr = x.ri.attr
      /\ y.ri.damp = x.ri.damp /\ y.pcount = x.pcount
  BY SetFlagFields, Zenon DEF Tally
<1>2. Tally(y, b)
  BY <1>1, Zenon DEF Tally, One
<1> HIDE DEF y
<1>3. CASE ChangesUse(F)
  <2>1. bgp_info_set_flag(x, F) = bgp_pcount_adjust(y)
    BY <1>3, Zenon DEF bgp_info_set_flag, y
  <2>2. /\ Exact(bgp_pcount_adjust(y), b)
        /\ bgp_pcount_adjust(y).ri.flags \cup {"COUNTED"} = y.ri.flags \cup {"COUNTED"}
        /\ bgp_pcount_adjust(y).ri.attr = y.ri.attr
        /\ bgp_pcount_adjust(y).ri.damp = y.ri.damp
    BY <1>2, AdjustExact, Zenon
  <2> QED BY <2>1, <2>2, <1>1, Zenon
<1>4. CASE ~ChangesUse(F)
  <2>1. bgp_info_set_flag(x, F) = y
    BY <1>4, Zenon DEF bgp_info_set_flag, y
  <2>2. HOLDDOWN(y.ri.flags) <=> HOLDDOWN(x.ri.flags)
    BY <1>1, <1>4, Zenon DEF HOLDDOWN, ChangesUse
  <2>3. Exact(y, b)
    BY <1>1, <1>2, <1>4, <2>2, Zenon DEF Exact
  <2> QED BY <2>1, <2>3, <1>1, Zenon
<1> QED BY <1>3, <1>4, Zenon

(* The same for bgp_info_unset_flag.                                       *)
LEMMA UnsetFlagExact ==
  ASSUME NEW x, NEW b \in Nat, NEW F \in SUBSET (Flags \ {"COUNTED"}),
         Tally(x, b), ChangesUse(F) \/ Exact(x, b)
  PROVE  /\ Exact(bgp_info_unset_flag(x, F), b)
         /\ \A g \in Flags \ {"COUNTED"} :
              g \in bgp_info_unset_flag(x, F).ri.flags <=> g \in x.ri.flags \ F
         /\ bgp_info_unset_flag(x, F).ri.attr = x.ri.attr
         /\ bgp_info_unset_flag(x, F).ri.damp = x.ri.damp
<1> DEFINE y == UNSET_FLAG(x, F)
<1>1. /\ y \in RouteSet /\ y.ri.flags = x.ri.flags \ F /\ y.ri.attr = x.ri.attr
      /\ y.ri.damp = x.ri.damp /\ y.pcount = x.pcount
  BY UnsetFlagFields DEF Tally
<1>2. Tally(y, b)
  BY <1>1, Zenon DEF Tally, One
<1> HIDE DEF y
<1>3. CASE ChangesUse(F)
  <2>1. bgp_info_unset_flag(x, F) = bgp_pcount_adjust(y)
    BY <1>3, Zenon DEF bgp_info_unset_flag, y
  <2>2. /\ Exact(bgp_pcount_adjust(y), b)
        /\ bgp_pcount_adjust(y).ri.flags \cup {"COUNTED"} = y.ri.flags \cup {"COUNTED"}
        /\ bgp_pcount_adjust(y).ri.attr = y.ri.attr
        /\ bgp_pcount_adjust(y).ri.damp = y.ri.damp
    BY <1>2, AdjustExact, Zenon
  <2> QED BY <2>1, <2>2, <1>1, Zenon
<1>4. CASE ~ChangesUse(F)
  <2>1. bgp_info_unset_flag(x, F) = y
    BY <1>4, Zenon DEF bgp_info_unset_flag, y
  <2>2. HOLDDOWN(y.ri.flags) <=> HOLDDOWN(x.ri.flags)
    BY <1>1, <1>4, Zenon DEF HOLDDOWN, ChangesUse
  <2>3. Exact(y, b)
    BY <1>1, <1>2, <1>4, <2>2, Zenon DEF Exact
  <2> QED BY <2>1, <2>3, <1>1, Zenon
<1> QED BY <1>3, <1>4, Zenon

(* The shape in which the flags reach the two lemmas above.                *)
LEMMA FlagSets ==
  /\ \A g \in {"VALID", "HISTORY", "DAMPED", "REMOVED"} :
       {g} \in SUBSET (Flags \ {"COUNTED"}) /\ ChangesUse({g})
  /\ {"HISTORY", "DAMPED"} \in SUBSET (Flags \ {"COUNTED"})
  /\ ChangesUse({"HISTORY", "DAMPED"})
  /\ \A g \in {"STALE", "ATTR_CHANGED"} : {g} \in SUBSET (Flags \ {"COUNTED"})
BY Zenon DEF Flags, UNUSEABLE, ChangesUse

(* An exact route is tallied.                                              *)
LEMMA ExactTally ==
  ASSUME NEW x, NEW b \in Nat, Exact(x, b)
  PROVE  Tally(x, b)
BY Zenon DEF Exact

(* bgp_process, a new attribute and a new damping record bear on neither   *)
(* the flags nor the count.                                                *)
LEMMA ProcessExact ==
  ASSUME NEW x, NEW b \in Nat, Exact(x, b)
  PROVE  /\ Exact(bgp_process(x), b)
         /\ bgp_process(x).ri = x.ri
<1>1. x \in RouteSet
  BY Zenon DEF Exact, Tally
<1>2. /\ bgp_process(x) \in RouteSet /\ bgp_process(x).ri = x.ri
      /\ bgp_process(x).pcount = x.pcount
  BY Zenon, <1>1 DEF bgp_process, RouteSet
<1> QED BY <1>2, Zenon DEF Exact, Tally

(* A new attribute leaves flags, damping record and count alone.           *)
LEMMA AttrTally ==
  ASSUME NEW x, NEW b \in Nat, NEW attr \in Attrs, Tally(x, b)
  PROVE  LET y == [x EXCEPT !.ri.attr = attr]
         IN  Tally(y, b) /\ y.ri.flags = x.ri.flags /\ y.ri.damp = x.ri.damp
<1> DEFINE y == [x EXCEPT !.ri.attr = attr]
<1>1. x \in RouteSet
  BY Zenon DEF Tally
<1>2. /\ y \in RouteSet /\ y.ri.flags = x.ri.flags /\ y.pcount = x.pcount
      /\ y.ri.damp = x.ri.damp
  BY <1>1, Zenon DEF RouteSet, Info
<1> HIDE DEF y
<1>3. Tally(y, b)
  BY <1>2, Zenon DEF Tally
<1> QED BY <1>2, <1>3, Zenon DEF y

(* So does a new damping record leave flags and count.                     *)
LEMMA DampTally ==
  ASSUME NEW x, NEW b \in Nat, NEW d \in Records, Tally(x, b)
  PROVE  LET y == [x EXCEPT !.ri.damp = d]
         IN  Tally(y, b) /\ y.ri.flags = x.ri.flags /\ y.ri.damp = d
<1> DEFINE y == [x EXCEPT !.ri.damp = d]
<1>1. x \in RouteSet
  BY Zenon DEF Tally
<1>2. /\ y \in RouteSet /\ y.ri.flags = x.ri.flags /\ y.pcount = x.pcount
      /\ y.ri.damp = d
  BY <1>1, Zenon DEF RouteSet, Info
<1> HIDE DEF y
<1>3. Tally(y, b)
  BY <1>2, Zenon DEF Tally
<1> QED BY <1>2, <1>3, Zenon DEF y

(* bgp_info_delete clears VALID behind the back of bgp_pcount_adjust, and  *)
(* may: the route is held down by REMOVED already.                         *)
LEMMA DeleteExact ==
  ASSUME NEW x, NEW b \in Nat, Tally(x, b)
  PROVE  Exact(bgp_info_delete(x), b)
<1> DEFINE y == bgp_info_set_flag(x, {"REMOVED"})
           z == UNSET_FLAG(y, {"VALID"})
<1>1. Exact(y, b) /\ "REMOVED" \in y.ri.flags
  BY SetFlagExact, FlagSets, Zenon DEF Flags, UNUSEABLE
<1> HIDE DEF y
<1>2. "COUNTED" \notin y.ri.flags
  BY <1>1, Zenon DEF Exact, HOLDDOWN, UNUSEABLE
<1>3. z \in RouteSet /\ z.ri.flags = y.ri.flags \ {"VALID"} /\ z.pcount = y.pcount
  BY <1>1, UnsetFlagFields, FlagSets DEF Exact, Tally
<1> HIDE DEF z
<1>4. HOLDDOWN(z.ri.flags) /\ "COUNTED" \notin z.ri.flags
  BY <1>2, <1>3, Zenon DEF HOLDDOWN
<1>5. Exact(z, b)
  BY <1>1, <1>2, <1>3, <1>4, Zenon DEF Exact, Tally, One
<1> QED BY <1>5, Zenon DEF bgp_info_delete, y, z

(* bgp_rib_remove keeps a route exact, whether or not its history is kept. *)
LEMMA RibRemoveExact ==
  ASSUME NEW x, NEW b \in Nat, Exact(x, b)
  PROVE  Exact(bgp_rib_remove(x), b)
<1>1. Exact(bgp_info_delete(x), b)
  BY DeleteExact, ExactTally, Zenon
<1>2. Exact(IF "HISTORY" \in x.ri.flags THEN x ELSE bgp_info_delete(x), b)
  BY <1>1, Zenon
<1> QED BY <1>2, ProcessExact, Zenon DEF bgp_rib_remove

(* Once the reachability of the next hop is noted, a tallied route is      *)
(* exact: this is what repairs a restored one.                             *)
LEMMA SetValidExact ==
  ASSUME NEW x, NEW b \in Nat, NEW valid \in BOOLEAN, Tally(x, b)
  PROVE  Exact(SetValid(x, valid), b)
BY SetFlagExact, UnsetFlagExact, FlagSets DEF SetValid

(* bgp_info_restore sets VALID behind the back of bgp_pcount_adjust: the   *)
(* route may now be usable and not counted, so only the tally is kept.     *)
LEMMA RestoreTally ==
  ASSUME NEW x, NEW b \in Nat, Tally(x, b)
  PROVE  /\ Tally(bgp_info_restore(x), b)
         /\ \A g \in {"HISTORY", "DAMPED"} :
              g \in bgp_info_restore(x).ri.flags <=> g \in x.ri.flags
         /\ bgp_info_restore(x).ri.damp = x.ri.damp
<1> DEFINE y == bgp_info_unset_flag(x, {"REMOVED"})
           z == SET_FLAG(y, {"VALID"})
<1>0. {"HISTORY", "DAMPED"} \subseteq Flags \ {"COUNTED"}
  BY Zenon DEF Flags, UNUSEABLE
<1>1. /\ Exact(y, b) /\ y.ri.damp = x.ri.damp
      /\ \A g \in Flags \ {"COUNTED"} : g \in y.ri.flags <=> g \in x.ri.flags \ {"REMOVED"}
  BY UnsetFlagExact, FlagSets
<1> HIDE DEF y
<1>2. /\ z \in RouteSet /\ z.ri.flags = y.ri.flags \cup {"VALID"} /\ z.pcount = y.pcount
      /\ z.ri.damp = y.ri.damp
  BY <1>1, SetFlagFields, FlagSets DEF Exact, Tally
<1> HIDE DEF z
<1>3. Tally(z, b)
  BY <1>1, <1>2, Zenon DEF Exact, Tally, One
<1> QED BY <1>0, <1>1, <1>2, <1>3, Zenon DEF bgp_info_restore, y, z

-----------------------------------------------------------------------------
(* Dampening keeps routes exact.                                           *)

(* bgp_damp_info_free, which may delete the path, leaves the route exact.  *)
LEMMA DampInfoFreeExact ==
  ASSUME NEW x, NEW b \in Nat, NEW withdraw \in BOOLEAN, Tally(x, b)
  PROVE  Exact(bgp_damp_info_free(x, withdraw), b)
<1> DEFINE w == [x EXCEPT !.ri.damp = "none"]
           y == bgp_info_unset_flag(w, {"HISTORY", "DAMPED"})
<1>1. Tally(w, b)
  BY Zenon, DampTally DEF Records
<1> HIDE DEF w
<1>2. Exact(y, b)
  BY <1>1, UnsetFlagExact, FlagSets
<1> HIDE DEF y
<1>3. Exact(bgp_info_delete(y), b)
  BY <1>2, DeleteExact, ExactTally, Zenon
<1>4. \/ bgp_damp_info_free(x, withdraw) = bgp_info_delete(y)
      \/ bgp_damp_info_free(x, withdraw) = y
  BY Zenon DEF bgp_damp_info_free, y, w
<1> QED BY <1>2, <1>3, <1>4, Zenon

(* bgp_damp_withdraw leaves the route exact, recorded as withdrawn, and    *)
(* suppressed when the penalty is over the threshold.                      *)
LEMMA DampWithdrawExact ==
  ASSUME NEW x, NEW b \in Nat, NEW penalty, Tally(x, b)
  PROVE  /\ Exact(bgp_damp_withdraw(x, penalty), b)
         /\ bgp_damp_withdraw(x, penalty).ri.damp = "WITHDRAW"
         /\ penalty = 3 => "DAMPED" \in bgp_damp_withdraw(x, penalty).ri.flags
<1> DEFINE w == [x EXCEPT !.ri.damp = "WITHDRAW"]
           y == bgp_info_set_flag(w, {"HISTORY"})
           z == bgp_info_set_flag(y, {"DAMPED"})
<1>0. "DAMPED" \in Flags \ {"COUNTED"}
  BY Zenon DEF Flags, UNUSEABLE
<1>1. Tally(w, b) /\ w.ri.flags = x.ri.flags /\ w.ri.damp = "WITHDRAW"
  BY Zenon, DampTally DEF Records
<1> HIDE DEF w
<1>2. /\ Exact(y, b) /\ y.ri.damp = "WITHDRAW"
      /\ "DAMPED" \in x.ri.flags => "DAMPED" \in y.ri.flags
  BY <1>0, <1>1, SetFlagExact, FlagSets
<1> HIDE DEF y
<1>3. Exact(z, b) /\ z.ri.damp = "WITHDRAW" /\ "DAMPED" \in z.ri.flags
  BY Zenon, <1>0, <1>2, SetFlagExact, FlagSets, ExactTally
<1> HIDE DEF z
<1>4. bgp_damp_withdraw(x, penalty)
        = IF "DAMPED" \notin x.ri.flags /\ penalty = 3 THEN z ELSE y
  BY Zenon DEF bgp_damp_withdraw, w, y, z
<1> QED BY <1>2, <1>3, <1>4, Zenon

(* bgp_damp_update keeps the tally, and leaves exact any route that has a  *)
(* damping record.                                                         *)
LEMMA DampUpdateExact ==
  ASSUME NEW x, NEW b \in Nat, NEW penalty \in Penalties, Tally(x, b)
  PROVE  /\ Tally(bgp_damp_update(x, penalty), b)
         /\ x.ri.damp # "none" \/ Exact(x, b) => Exact(bgp_damp_update(x, penalty), b)
<1> DEFINE w == [x EXCEPT !.ri.damp = "UPDATE"]
           y == bgp_info_unset_flag(w, {"HISTORY"})
           z == IF penalty < 2 THEN bgp_info_unset_flag(y, {"DAMPED"}) ELSE y
<1>1. Tally(w, b)
  BY Zenon, DampTally DEF Records
<1> HIDE DEF w
<1>2. Exact(y, b)
  BY <1>1, UnsetFlagExact, FlagSets
<1> HIDE DEF y
<1>3. Exact(z, b)
  BY <1>2, UnsetFlagExact, FlagSets, ExactTally, Zenon
<1> HIDE DEF z
<1>4. Exact(bgp_damp_info_free(z, FALSE), b)
  BY Zenon, <1>3, DampInfoFreeExact, ExactTally
<1>5. bgp_damp_update(x, penalty)
        = IF x.ri.damp = "none" THEN x
          ELSE IF penalty = 0 THEN bgp_damp_info_free(z, FALSE) ELSE z
  BY Zenon DEF bgp_damp_update, w, y, z
<1> QED BY Zenon, <1>3, <1>4, <1>5, ExactTally

(* An entry of the reuse list stays exact, reused or freed.                *)
LEMMA ReuseRouteExact ==
  ASSUME NEW x, NEW b \in Nat, NEW penalty \in Penalties, Exact(x, b)
  PROVE  Exact(ReuseRoute(x, penalty), b)
<1> DEFINE y == bgp_info_unset_flag(x, {"DAMPED"})
           u == bgp_info_unset_flag(y, {"HISTORY"})
           z == IF y.ri.damp = "UPDATE" THEN bgp_process(u) ELSE y
<1>1. Exact(y, b)
  BY UnsetFlagExact, FlagSets, ExactTally, Zenon
<1> HIDE DEF y
<1>2. Exact(u, b)
  BY <1>1, UnsetFlagExact, FlagSets, ExactTally, Zenon
<1> HIDE DEF u
<1>3. Exact(z, b)
  BY <1>1, <1>2, ProcessExact, Zenon
<1> HIDE DEF z
<1>4. Exact(bgp_damp_info_free(z, TRUE), b)
  BY Zenon, <1>3, DampInfoFreeExact, ExactTally
<1>5. ReuseRoute(x, penalty)
        = IF penalty >= 2 THEN x
          ELSE IF penalty = 0 THEN bgp_damp_info_free(z, TRUE) ELSE z
  BY Zenon DEF ReuseRoute, y, z, u
<1> QED BY Zenon, <1>3, <1>4, <1>5

(* So does a damped route bgp_scan visits.                                 *)
LEMMA DampScanExact ==
  ASSUME NEW x, NEW b \in Nat, NEW penalty, NEW expired \in BOOLEAN, Exact(x, b)
  PROVE  Exact(bgp_damp_scan(x, penalty, expired), b)
<1>1. Exact(bgp_info_unset_flag(x, {"DAMPED"}), b)
  BY UnsetFlagExact, FlagSets, ExactTally, Zenon
<1>2. Exact(bgp_damp_info_free(x, TRUE), b)
  BY Zenon, DampInfoFreeExact, ExactTally
<1> QED BY Zenon, <1>1, <1>2 DEF bgp_damp_scan

-----------------------------------------------------------------------------
(* So do updates, withdrawals, the scanner and the clearing of a peer.     *)

(* An update with the attribute already known keeps the route exact.       *)
LEMMA DuplicateUpdateExact ==
  ASSUME NEW x, NEW b \in Nat, NEW penalty \in Penalties, Exact(x, b)
  PROVE  Exact(DuplicateUpdate(x, penalty), b)
<1> DEFINE y == bgp_info_unset_flag(x, {"ATTR_CHANGED"})
<1>1. Exact(y, b)
  BY UnsetFlagExact, FlagSets, ExactTally, Zenon
<1> HIDE DEF y
<1>2. Exact(bgp_damp_update(y, penalty), b)
  BY <1>1, DampUpdateExact, ExactTally, Zenon
<1>3. Exact(bgp_process(bgp_damp_update(y, penalty)), b)
  BY <1>2, ProcessExact, Zenon
<1>4. Exact(bgp_process(bgp_info_unset_flag(y, {"STALE"})), b)
  BY <1>1, UnsetFlagExact, FlagSets, ExactTally, ProcessExact, Zenon
<1>5. \/ DuplicateUpdate(x, penalty) = bgp_damp_update(y, penalty)
      \/ DuplicateUpdate(x, penalty) = bgp_process(bgp_damp_update(y, penalty))
      \/ DuplicateUpdate(x, penalty) = bgp_process(bgp_info_unset_flag(y, {"STALE"}))
      \/ DuplicateUpdate(x, penalty) = y
  BY Zenon DEF DuplicateUpdate, y
<1> QED BY <1>1, <1>2, <1>3, <1>4, <1>5, Zenon

(* Setting and clearing any flag but COUNTED keeps the tally of a route    *)
(* that is not exact yet.                                                  *)
LEMMA FlagTally ==
  ASSUME NEW x, NEW b \in Nat, NEW F \in SUBSET (Flags \ {"COUNTED"}), Tally(x, b)
  PROVE  /\ Tally(bgp_info_set_flag(x, F), b)
         /\ Tally(bgp_info_unset_flag(x, F), b)
<1>1. CASE ChangesUse(F)
  BY <1>1, SetFlagExact, UnsetFlagExact, ExactTally
<1>2. CASE ~ChangesUse(F)
  <2>1. bgp_info_set_flag(x, F) = SET_FLAG(x, F)
    BY <1>2, Zenon DEF bgp_info_set_flag
  <2>2. bgp_info_unset_flag(x, F) = UNSET_FLAG(x, F)
    BY <1>2, Zenon DEF bgp_info_unset_flag
  <2>3. x \in RouteSet /\ F \in SUBSET Flags
    BY Zenon DEF Tally
  <2>4. /\ SET_FLAG(x, F) \in RouteSet /\ SET_FLAG(x, F).pcount = x.pcount
        /\ SET_FLAG(x, F).ri.flags = x.ri.flags \cup F
    BY <2>3, SetFlagFields, Zenon
  <2>5. /\ UNSET_FLAG(x, F) \in RouteSet /\ UNSET_FLAG(x, F).pcount = x.pcount
        /\ UNSET_FLAG(x, F).ri.flags = x.ri.flags \ F
    BY <2>3, UnsetFlagFields
  <2>6. Tally(SET_FLAG(x, F), b)
    BY <2>4, Zenon DEF Tally, One
  <2>7. Tally(UNSET_FLAG(x, F), b)
    BY <2>5, Zenon DEF Tally, One
  <2> QED BY <2>1, <2>2, <2>6, <2>7, Zenon
<1> QED BY <1>1, <1>2, Zenon

(* After a restoration the route is only tallied; whichever way the update *)
(* then goes, a flag that bears on its use is set or cleared before it     *)
(* ends, and the route is exact again.                                     *)
LEMMA ChangedUpdateExact ==
  ASSUME NEW x, NEW b \in Nat, NEW attr \in Attrs, NEW valid \in BOOLEAN,
         NEW penalty \in Penalties, Exact(x, b)
  PROVE  Exact(ChangedUpdate(x, attr, valid, penalty), b)
<1> DEFINE r == IF "REMOVED" \in x.ri.flags THEN bgp_info_restore(x) ELSE x
           s == bgp_info_unset_flag(r, {"STALE"})
           z == bgp_info_set_flag(s, {"ATTR_CHANGED"})
           i == ImplicitWithdraw(x, penalty)
           y == [i EXCEPT !.ri.attr = attr]
           d == bgp_damp_update(y, penalty)
<1>1. Tally(r, b)
  BY RestoreTally, ExactTally, Zenon
<1> HIDE DEF r
<1>2. Tally(s, b)
  BY <1>1, FlagTally, FlagSets, Zenon
<1> HIDE DEF s
<1>3. Tally(z, b)
  BY <1>2, FlagTally, FlagSets, Zenon
<1> HIDE DEF z
<1>4. i = IF Dampening /\ "HISTORY" \notin z.ri.flags THEN bgp_damp_withdraw(z, penalty) ELSE z
  BY Zenon DEF ImplicitWithdraw, r, s, z
<1>5. Tally(bgp_damp_withdraw(z, penalty), b)
  BY <1>3, DampWithdrawExact, ExactTally, Zenon
<1>6. Tally(i, b)
  BY <1>3, <1>4, <1>5, Zenon
<1> HIDE DEF i
<1>7. Tally(y, b)
  BY Zenon, <1>6, AttrTally
<1> HIDE DEF y
<1>8. Tally(d, b) /\ (y.ri.damp # "none" => Exact(d, b))
  BY <1>7, DampUpdateExact, Zenon
<1> HIDE DEF d
<1>9. Exact(bgp_process(SetValid(y, valid)), b)
  BY <1>7, SetValidExact, ProcessExact, Zenon
<1>10. Exact(bgp_process(SetValid(d, valid)), b)
  BY <1>8, SetValidExact, ProcessExact, Zenon
<1>11. \/ ChangedUpdate(x, attr, valid, penalty) = bgp_process(SetValid(y, valid))
       \/ ChangedUpdate(x, attr, valid, penalty) = bgp_process(SetValid(d, valid))
       \/ DampUpdateSuppressed(y, penalty) /\ ChangedUpdate(x, attr, valid, penalty) = d
  BY Zenon DEF ChangedUpdate, d, y, i
<1>12. DampUpdateSuppressed(y, penalty) => y.ri.damp # "none"
  BY Zenon DEF DampUpdateSuppressed
<1> QED BY <1>8, <1>9, <1>10, <1>11, <1>12, Zenon

(* bgp_update_main leaves the route exact in each of its three cases.      *)
LEMMA UpdateExact ==
  ASSUME NEW x, NEW b \in Nat, NEW p, NEW attr \in Attrs, NEW valid \in BOOLEAN,
         NEW penalty \in Penalties, Exact(x, b)
  PROVE  Exact(bgp_update_main(x, p, attr, valid, penalty), b)
<1> DEFINE w == [x EXCEPT !.ri.attr = attr]
           y == SetValid(w, valid)
<1>1. Tally(w, b)
  BY Zenon, AttrTally, ExactTally
<1> HIDE DEF w
<1>2. Exact(y, b)
  BY <1>1, SetValidExact, Zenon
<1> HIDE DEF y
<1>3. Exact(bgp_process(y), b)
  BY <1>2, ProcessExact, Zenon
<1>4. NewUpdate(x, p, attr, valid) = y \/ NewUpdate(x, p, attr, valid) = bgp_process(y)
  BY Zenon DEF NewUpdate, y, w
<1>5. Exact(NewUpdate(x, p, attr, valid), b)
  BY <1>2, <1>3, <1>4, Zenon
<1>6. Exact(DuplicateUpdate(x, penalty), b)
  BY DuplicateUpdateExact, Zenon
<1>7. Exact(ChangedUpdate(x, attr, valid, penalty), b)
  BY ChangedUpdateExact, Zenon
<1> QED BY <1>5, <1>6, <1>7, Zenon DEF bgp_update_main

(* bgp_withdraw leaves the route exact, with dampening or without.         *)
LEMMA WithdrawExact ==
  ASSUME NEW x, NEW b \in Nat, NEW penalty \in Penalties, Exact(x, b)
  PROVE  Exact(bgp_withdraw(x, penalty), b)
<1> DEFINE y == bgp_damp_withdraw(x, penalty)
<1>1. Exact(y, b)
  BY DampWithdrawExact, ExactTally, Zenon
<1> HIDE DEF y
<1>2. Exact(bgp_rib_remove(y), b) /\ Exact(bgp_rib_remove(x), b)
  BY <1>1, RibRemoveExact, Zenon
<1>3. \/ bgp_withdraw(x, penalty) = x \/ bgp_withdraw(x, penalty) = y
      \/ bgp_withdraw(x, penalty) = bgp_rib_remove(x)
      \/ bgp_withdraw(x, penalty) = bgp_rib_remove(y)
  BY Zenon DEF bgp_withdraw, bgp_rib_withdraw, y
<1> QED BY <1>1, <1>2, <1>3, Zenon

(* What bgp_scan does to a route leaves it exact.                          *)
LEMMA ScanRouteExact ==
  ASSUME NEW x, NEW b \in Nat, NEW valid \in BOOLEAN, NEW penalty,
         NEW expired \in BOOLEAN, Exact(x, b)
  PROVE  Exact(ScanRoute(x, valid, penalty, expired), b)
<1> DEFINE y == IF valid # ("VALID" \in x.ri.flags) THEN SetValid(x, valid) ELSE x
<1>1. Exact(y, b)
  BY SetValidExact, ExactTally, Zenon
<1> HIDE DEF y
<1>2. Exact(bgp_damp_scan(y, penalty, expired), b)
  BY <1>1, DampScanExact, Zenon
<1>3. \/ ScanRoute(x, valid, penalty, expired) = x
      \/ ScanRoute(x, valid, penalty, expired) = bgp_damp_scan(y, penalty, expired)
      \/ ScanRoute(x, valid, penalty, expired) = y
  BY Zenon DEF ScanRoute, y
<1> QED BY <1>1, <1>2, <1>3, Zenon

(* Clearing a node of a peer that went down, and sweeping a stale path,    *)
(* leave the route exact.                                                  *)
LEMMA ClearExact ==
  ASSUME NEW x, NEW b \in Nat, NEW waiting \in BOOLEAN, Exact(x, b)
  PROVE  /\ Exact(bgp_clear_route_node(x, waiting), b)
         /\ Exact(bgp_clear_stale_route(x), b)
<1>1. Exact(bgp_info_set_flag(x, {"STALE"}), b)
  BY SetFlagExact, FlagSets, ExactTally, Zenon
<1>2. Exact(bgp_rib_remove(x), b)
  BY RibRemoveExact, Zenon
<1> QED BY <1>1, <1>2, Zenon DEF bgp_clear_route_node, bgp_clear_stale_route

-----------------------------------------------------------------------------
(* From one route to the table.                                            *)

(* What the count of peer p would be without the path at n.                *)
Base(n, p) == pcount[p] - One(info[n][p].flags)

(* The inductive invariant.                                                *)
IInv == TypeOK /\ PcountExact

(* Sizes of sets of prefixes: what the count of a peer needs of the        *)
(* library's theorems on finite sets.  It is an assumption of the lemmas;  *)
(* PrefixSizes in BgpRibSelectionProofs proves it.                         *)
Sizes ==
  /\ \A A \in SUBSET Prefixes : Cardinality(A) \in Nat /\ (Cardinality(A) = 0 <=> A = {})
  /\ \A A, B \in SUBSET Prefixes :
       Cardinality(B) = Cardinality(A) + Cardinality(B \ A) - Cardinality(A \ B)

(* A route a handler finds in the table is exact over its base, since a    *)
(* counted path makes the count at least one.                              *)
LEMMA RouteExact ==
  ASSUME Sizes, IInv, NEW n \in Prefixes, NEW p \in Peers
  PROVE  Base(n, p) \in Nat /\ Exact(Route(n, p), Base(n, p))
<1>1. /\ info[n][p] \in Info /\ pcount[p] \in Nat
      /\ pcount[p] = Cardinality(Counted(p))
      /\ "COUNTED" \in info[n][p].flags <=> ~HOLDDOWN(info[n][p].flags)
  BY DEF IInv, TypeOK, PcountExact
<1>2. Counted(p) \in SUBSET Prefixes
  BY Zenon DEF Counted
<1>3. "COUNTED" \in info[n][p].flags => pcount[p] # 0
  <2> SUFFICES ASSUME "COUNTED" \in info[n][p].flags PROVE Counted(p) # {}
    BY <1>1, <1>2, Zenon DEF Sizes
  <2> QED BY Zenon DEF Counted
<1>4. Base(n, p) \in Nat /\ pcount[p] = Base(n, p) + One(info[n][p].flags)
  BY <1>1, <1>3 DEF Base, One
<1>5. /\ Route(n, p) \in RouteSet /\ Route(n, p).ri = info[n][p]
      /\ Route(n, p).pcount = pcount[p]
  BY <1>1, Zenon DEF Route, RouteSet
<1> QED BY <1>1, <1>4, <1>5, Zenon DEF Exact, Tally

(* Commit: when a handler has left every route exact over its base, the    *)
(* table it leaves satisfies the invariant again.                          *)
LEMMA CommitExact ==
  ASSUME Sizes, IInv, NEW R, Commit(R),
         \A n \in Prefixes, p \in Peers : Exact(R[n][p], Base(n, p))
  PROVE  /\ info' \in [Prefixes -> [Peers -> Info]]
         /\ pcount' \in [Peers -> Nat]
         /\ scheduled' \subseteq Prefixes
         /\ PcountExact'
<1>1. \A n \in Prefixes, p \in Peers : R[n][p].ri \in Info /\ R[n][p] \in RouteSet
  BY Zenon DEF Exact, Tally, RouteSet
<1>2. info' = [n \in Prefixes |-> [p \in Peers |-> R[n][p].ri]]
  BY Zenon DEF Commit
<1>3. info' \in [Prefixes -> [Peers -> Info]]
  BY <1>1, <1>2, Zenon
<1>4. scheduled' \subseteq Prefixes
  BY Zenon DEF Commit, IInv, TypeOK
<1>5. ASSUME NEW p \in Peers
      PROVE  pcount'[p] = Cardinality(Counted(p)') /\ pcount'[p] \in Nat
  <2> DEFINE A == Counted(p)
             B == Counted(p)'
  <2>1. A \in SUBSET Prefixes /\ B \in SUBSET Prefixes
    BY Zenon DEF Counted
  <2>2. ASSUME NEW n \in Prefixes
        PROVE  /\ n \in A <=> "COUNTED" \in info[n][p].flags
               /\ n \in B <=> "COUNTED" \in R[n][p].ri.flags
               /\ R[n][p].pcount = pcount[p] - One(info[n][p].flags) + One(R[n][p].ri.flags)
    BY <1>2, <2>2, Zenon DEF Counted, Exact, Tally, Base
  <2>3. pcount[p] \in Nat /\ pcount[p] = Cardinality(A)
    BY Zenon DEF IInv, TypeOK, PcountExact
  <2> HIDE DEF A, B
  <2>4. {n \in Prefixes : R[n][p].pcount > pcount[p]} = B \ A
    BY <2>1, <2>2, <2>3 DEF One
  <2>5. {n \in Prefixes : R[n][p].pcount < pcount[p]} = A \ B
    BY <2>1, <2>2, <2>3 DEF One
  <2>6. pcount'[p] = pcount[p] + Cardinality(B \ A) - Cardinality(A \ B)
    BY Zenon, <2>4, <2>5 DEF Commit, Moved
  <2>7. Cardinality(B) = Cardinality(A) + Cardinality(B \ A) - Cardinality(A \ B)
    BY <2>1, Zenon DEF Sizes
  <2>8. Cardinality(B) \in Nat
    BY <2>1, Zenon DEF Sizes
  <2> QED BY <2>3, <2>6, <2>7, <2>8, Zenon DEF B
<1>6. pcount' \in [Peers -> Nat]
  BY <1>5, Zenon DEF Commit
<1>7. ASSUME NEW n \in Prefixes, NEW p \in Peers
      PROVE  "COUNTED" \in info'[n][p].flags <=> ~HOLDDOWN(info'[n][p].flags)
  BY <1>2, Zenon DEF Exact
<1>8. PcountExact'
  BY <1>5, <1>7, Zenon DEF PcountExact
<1> QED BY <1>3, <1>4, <1>6, <1>8, Zenon

(* The same for a handler of one route.                                    *)
LEMMA CommitOneExact ==
  ASSUME Sizes, IInv, NEW n \in Prefixes, NEW p \in Peers, NEW x, CommitOne(n, p, x),
         Exact(x, Base(n, p))
  PROVE  /\ info' \in [Prefixes -> [Peers -> Info]]
         /\ pcount' \in [Peers -> Nat]
         /\ scheduled' \subseteq Prefixes
         /\ PcountExact'
<1> DEFINE R == [m \in Prefixes |-> [q \in Peers |->
                   IF m = n /\ q = p THEN x ELSE Route(m, q)]]
<1>1. ASSUME NEW m \in Prefixes, NEW q \in Peers
      PROVE  Exact(R[m][q], Base(m, q))
  BY RouteExact, Zenon
<1>2. Commit(R)
  BY Zenon DEF CommitOne
<1> HIDE DEF R
<1> QED BY <1>1, <1>2, CommitExact, Zenon

-----------------------------------------------------------------------------
(* The loop of bgp_best_selection.                                         *)

(* The peers are a number, and induction up to it, as a fact about sets of *)
(* numbers.  It is an assumption of the lemmas; CountingHolds in           *)
(* BgpRibSelectionProofs proves it.                                        *)
Counting ==
  /\ Cardinality(Peers) \in Nat
  /\ \A n \in Nat : \A K \in SUBSET (0 .. n) :
       0 \in K /\ (\A i \in 1 .. n : i - 1 \in K => i \in K) => \A i \in 0 .. n : i \in K

(* n steps g from a, all in A, are a function.                             *)
LEMMA Fold ==
  ASSUME Counting, NEW A, NEW a \in A, NEW n \in Nat, NEW g \in [1 .. n -> [A -> A]]
  PROVE  \E f \in [0 .. n -> A] : f[0] = a /\ \A i \in 1 .. n : f[i] = g[i][f[i - 1]]
<1> DEFINE Steps(f, m) == /\ f \in [0 .. m -> A]
                          /\ f[0] = a
                          /\ \A i \in 1 .. m : f[i] = g[i][f[i - 1]]
           K == {m \in 0 .. n : \E f : Steps(f, m)}
<1>1. 0 \in K
  <2>1. Steps([i \in 0 .. 0 |-> a], 0)
    OBVIOUS
  <2>2. 0 \in 0 .. n
    OBVIOUS
  <2> HIDE DEF Steps
  <2> QED BY <2>1, <2>2, Zenon
<1>2. ASSUME NEW m \in 1 .. n, m - 1 \in K PROVE m \in K
  <2>1. PICK f : Steps(f, m - 1)
    BY <1>2, Zenon
  <2> DEFINE h == [i \in 0 .. m |-> IF i = m THEN g[m][f[m - 1]] ELSE f[i]]
  <2>2. /\ f \in [0 .. (m - 1) -> A] /\ f[0] = a
        /\ \A i \in 1 .. (m - 1) : f[i] = g[i][f[i - 1]]
    BY <2>1, Zenon
  <2>3. g[m] \in [A -> A] /\ f[m - 1] \in A
    BY <2>2
  <2>4. g[m][f[m - 1]] \in A
    BY <2>3, Zenon
  <2>5. h \in [0 .. m -> A]
    BY <2>2, <2>4
  <2>6. h[0] = a
    BY <2>2
  <2>7. ASSUME NEW i \in 1 .. m PROVE h[i] = g[i][h[i - 1]]
    <3>1. CASE i = m
      BY <3>1
    <3>2. CASE i # m
      <4>1. i \in 1 .. (m - 1) /\ i \in 0 .. m /\ i - 1 \in 0 .. m /\ i - 1 # m
        BY <3>2
      <4>2. h[i] = f[i] /\ h[i - 1] = f[i - 1]
        BY <3>2, <4>1, Zenon
      <4> HIDE DEF h
      <4> QED BY <4>1, <4>2, <2>2, Zenon
    <3> QED BY <3>1, <3>2, Zenon
  <2>8. Steps(h, m)
    <3> HIDE DEF h
    <3> QED BY <2>5, <2>6, <2>7, Zenon
  <2> HIDE DEF Steps
  <2> QED BY <2>8
<1>3. \A i \in 0 .. n : i \in K
  <2> HIDE DEF K
  <2>1. K \in SUBSET (0 .. n)
    BY Zenon DEF K
  <2> QED BY <1>1, <1>2, <2>1, Zenon DEF Counting
<1>4. \E f : Steps(f, n)
  BY <1>3
<1> QED BY <1>4, Zenon

(* The best path after the next of the list has been compared with it.     *)
Step(n, p, best) ==
  IF p \in Usable(n) /\ \A q \in best : bgp_info_cmp(n, p, q) THEN {p} ELSE best

(* The loop as a sequence of steps.                                        *)
LEMMA Loop ==
  ASSUME Counting, NEW n, NEW list \in Lists
  PROVE  \E f : /\ bgp_best_selection(n, list) = f[Cardinality(Peers)]
                /\ f[0] = {}
                /\ \A k \in 1 .. Cardinality(Peers) : f[k] = Step(n, list[k], f[k - 1])
<1> DEFINE c == Cardinality(Peers)
           A == SUBSET Peers
           g == [k \in 1 .. c |-> [b \in A |-> Step(n, list[k], b)]]
           Rec(f) == f = [k \in 0 .. c |-> IF k = 0 THEN {} ELSE Step(n, list[k], f[k - 1])]
           L == CHOOSE f : Rec(f)
<1>1. c \in Nat
  BY Zenon DEF Counting
<1>2. bgp_best_selection(n, list) = L[c]
  BY Zenon DEF bgp_best_selection, Step
<1>3. \A k \in 1 .. c : list[k] \in Peers
  BY Zenon DEF Lists
<1>4. \A k \in 1 .. c, b \in A : Step(n, list[k], b) \in A
  BY <1>3, Zenon DEF Step
<1> HIDE DEF c
<1>5. g \in [1 .. c -> [A -> A]]
  BY <1>4, Zenon
<1>6. PICK f \in [0 .. c -> A] : f[0] = {} /\ \A k \in 1 .. c : f[k] = g[k][f[k - 1]]
  <2>1. PICK z \in A : z = {}
    BY Zenon
  <2> HIDE DEF g, A
  <2>2. \E f \in [0 .. c -> A] : f[0] = z /\ \A k \in 1 .. c : f[k] = g[k][f[k - 1]]
    BY <1>1, <1>5, Fold
  <2> QED BY <2>1, <2>2, Zenon
<1>7. Rec(f)
  <2>1. \A k \in 1 .. c : k - 1 \in 0 .. c
    BY <1>1
  <2>2. \A k \in 1 .. c : f[k] = Step(n, list[k], f[k - 1])
    BY <1>6, <2>1, Zenon
  <2>3. \A k \in 0 .. c : k # 0 => k \in 1 .. c
    BY <1>1
  <2>4. \A k \in 0 .. c : f[k] = IF k = 0 THEN {} ELSE Step(n, list[k], f[k - 1])
    BY <1>6, <2>2, <2>3, Zenon
  <2> QED BY <1>6, <2>4, Zenon
<1>8. Rec(L)
  <2> HIDE DEF Rec
  <2> QED BY <1>7, Zenon
<1> HIDE DEF L
<1> DEFINE B(k) == IF k = 0 THEN {} ELSE Step(n, list[k], L[k - 1])
<1>9. \A k \in 0 .. c : L[k] = B(k)
  <2>1. L = [k \in 0 .. c |-> B(k)]
    BY <1>8, Zenon
  <2> HIDE DEF B
  <2> QED BY <2>1, Zenon
<1>10. 0 \in 0 .. c /\ \A k \in 1 .. c : k \in 0 .. c /\ k # 0
  BY <1>1
<1>11. L[0] = {} /\ \A k \in 1 .. c : L[k] = Step(n, list[k], L[k - 1])
  BY <1>9, <1>10, Zenon
<1> QED BY <1>2, <1>11, Zenon DEF c

(* It ends with one usable path, or with none.                             *)
LEMMA BestUsable ==
  ASSUME Counting, NEW n, NEW list \in Lists
  PROVE  bgp_best_selection(n, list) \subseteq Usable(n)
<1> DEFINE c == Cardinality(Peers)
<1>1. PICK f : /\ bgp_best_selection(n, list) = f[c]
               /\ f[0] = {}
               /\ \A k \in 1 .. c : f[k] = Step(n, list[k], f[k - 1])
  BY Loop
<1> DEFINE K == {k \in 0 .. c : f[k] \subseteq Usable(n)}
<1>2. c \in Nat
  BY Zenon DEF Counting
<1> HIDE DEF c
<1>3. 0 \in 0 .. c /\ c \in 0 .. c /\ 1 .. c \subseteq 0 .. c
  BY <1>2
<1>4. 0 \in K
  BY <1>1, <1>3, Zenon
<1>5. ASSUME NEW k \in 1 .. c, k - 1 \in K PROVE k \in K
  BY <1>1, <1>3, <1>5, Zenon DEF Step
<1>6. c \in K
  <2>1. K \in SUBSET (0 .. c)
    BY Zenon
  <2> HIDE DEF K
  <2> QED BY <1>2, <1>3, <1>4, <1>5, <2>1, Zenon DEF Counting
<1> QED BY <1>1, <1>6, Zenon

-----------------------------------------------------------------------------
(* The decision process.                                                   *)

(* The decision process leaves use and count of every path alone: it frees *)
(* only removed paths, which are not counted.                              *)
LEMMA SameUse ==
  ASSUME IInv, pcount' = pcount, info' \in [Prefixes -> [Peers -> Info]],
         \A n \in Prefixes, p \in Peers :
           \/ "REMOVED" \in info[n][p].flags /\ info'[n][p] = NoInfo
           \/ info'[n][p].flags \ {"SELECTED", "ATTR_CHANGED"}
                = info[n][p].flags \ {"SELECTED", "ATTR_CHANGED"}
  PROVE  PcountExact'
<1>1. ASSUME NEW n \in Prefixes, NEW p \in Peers
      PROVE  /\ "COUNTED" \in info'[n][p].flags <=> "COUNTED" \in info[n][p].flags
             /\ HOLDDOWN(info'[n][p].flags) <=> HOLDDOWN(info[n][p].flags)
  <2>1. "COUNTED" \in info[n][p].flags <=> ~HOLDDOWN(info[n][p].flags)
    BY Zenon DEF IInv, PcountExact
  <2>2. CASE "REMOVED" \in info[n][p].flags /\ info'[n][p] = NoInfo
    BY <2>1, <2>2 DEF HOLDDOWN, UNUSEABLE, NoInfo
  <2>3. CASE info'[n][p].flags \ {"SELECTED", "ATTR_CHANGED"}
                = info[n][p].flags \ {"SELECTED", "ATTR_CHANGED"}
    <3>1. \A g \in {"COUNTED", "VALID"} \cup UNUSEABLE :
             g \in info'[n][p].flags <=> g \in info[n][p].flags
      BY <2>3, Zenon DEF UNUSEABLE
    <3> QED BY Zenon, <3>1 DEF HOLDDOWN
  <2> QED BY <2>2, <2>3, Zenon
<1>2. ASSUME NEW p \in Peers
      PROVE  Counted(p)' = Counted(p)
  BY <1>1, Zenon DEF Counted
<1> QED BY <1>1, <1>2, SMTT(60) DEF IInv, PcountExact

(* Setting, unsetting and keeping an adjacency keep its type, and so does  *)
(* announcing a whole table to a peer.                                     *)
LEMMA AdjOutTypes ==
  ASSUME NEW a \in AdjOut, NEW attr \in {NoAttr} \cup Attrs
  PROVE  /\ bgp_adj_out_set(a, attr) \in AdjOut
         /\ bgp_adj_out_unset(a) \in AdjOut
         /\ NoAdj \in AdjOut
         /\ [NoAdj EXCEPT !.attr = a.new] \in AdjOut
BY Zenon DEF AdjOut, bgp_adj_out_set, bgp_adj_out_unset, NoAdj

(* bgp_announce_route queues only adjacencies.                             *)
LEMMA AnnounceType ==
  ASSUME TypeOK, NEW p \in Peers
  PROVE  [n \in Prefixes |-> [adj[n] EXCEPT ![p] = bgp_announce_route(p)[n]]]
           \in [Prefixes -> [Peers -> AdjOut]]
<1> SUFFICES ASSUME NEW n \in Prefixes
             PROVE  bgp_announce_route(p)[n] \in AdjOut
  BY Zenon DEF TypeOK
<1>1. adj[n][p] \in AdjOut
  BY DEF TypeOK
<1>2. CASE Selected(n) \ {p} = {}
  BY <1>1, <1>2, Zenon DEF bgp_announce_route
<1>3. CASE Selected(n) \ {p} # {}
  <2> DEFINE from == CHOOSE q \in Selected(n) \ {p} : TRUE
  <2>1. from \in Peers
    BY <1>3, Zenon DEF Selected
  <2> HIDE DEF from
  <2>2. info[n][from].attr \in {NoAttr} \cup Attrs
    BY <2>1 DEF TypeOK, Info
  <2>3. \/ bgp_announce_route(p)[n] = bgp_adj_out_set(adj[n][p], info[n][from].attr)
        \/ bgp_announce_route(p)[n] = bgp_adj_out_unset(adj[n][p])
    BY <1>3, Zenon DEF bgp_announce_route, from
  <2> QED BY Zenon, <1>1, <2>2, <2>3, AdjOutTypes
<1> QED BY <1>2, <1>3, Zenon

(* bgp_process_main preserves the invariant.                               *)
LEMMA ProcessMainInv ==
  ASSUME Counting, IInv, NEW n \in Prefixes, bgp_process_main(n)
  PROVE  IInv'
<1>0. PICK list \in Lists :
        IF NothingToDo(n, Selected(n), bgp_best_selection(n, list))
        THEN KeepSelected(n, Selected(n)) ELSE Reselect(n, bgp_best_selection(n, list))
  BY Zenon DEF bgp_process_main
<1> DEFINE old == Selected(n)
           new == bgp_best_selection(n, list)
           attr == AttrOf(n, new)
<1>1. /\ TypeOK /\ pcount' = pcount /\ scheduled' \subseteq Prefixes
      /\ UNCHANGED <<session, limit, nsf, nsfwait, clearq>>
  BY Zenon DEF bgp_process_main, session_vars, IInv, TypeOK
<1>2. old \subseteq Peers /\ new \subseteq Peers
  BY BestUsable, Zenon DEF Selected, Usable
<1>3. NoInfo \in Info
  BY Zenon DEF Info, NoInfo, Records
<1>4. attr \in {NoAttr} \cup Attrs
  BY <1>1, <1>2 DEF TypeOK, Info, AttrOf
<1> HIDE DEF old, new, attr
<1>5. CASE KeepSelected(n, old)
  <2>1. info' = [info EXCEPT ![n] =
                  [p \in Peers |-> IF p \in Reaped(n, old) THEN NoInfo ELSE info[n][p]]]
    BY <1>5, Zenon DEF KeepSelected
  <2>2. info' \in [Prefixes -> [Peers -> Info]]
    BY <1>1, <1>3, <2>1, Zenon DEF TypeOK
  <2>3. ASSUME NEW m \in Prefixes, NEW p \in Peers
        PROVE  \/ "REMOVED" \in info[m][p].flags /\ info'[m][p] = NoInfo
               \/ info'[m][p] = info[m][p]
    BY <1>1, <2>1, Zenon DEF TypeOK, Reaped
  <2>4. PcountExact'
    BY <1>1, <2>2, <2>3, SameUse, Zenon
  <2>5. adj' = adj /\ muted' = muted
    BY <1>5, Zenon DEF KeepSelected
  <2>6. fib' \in [Prefixes -> {NoAttr} \cup Attrs]
    <3>1. CASE fib' = fib
      BY <1>1, <3>1, Zenon DEF TypeOK
    <3>2. CASE \E p \in old : fib' = [fib EXCEPT ![n] = info[n][p].attr]
      <4>1. PICK p \in Peers : fib' = [fib EXCEPT ![n] = info[n][p].attr]
        BY Zenon, <1>2, <3>2
      <4>2. info[n][p].attr \in {NoAttr} \cup Attrs
        BY <1>1 DEF TypeOK, Info
      <4> QED BY <1>1, <4>1, <4>2, Zenon DEF TypeOK
    <3> QED BY <1>5, <3>1, <3>2, Zenon DEF KeepSelected
  <2> QED BY <1>1, <2>2, <2>4, <2>5, <2>6, Zenon DEF IInv, TypeOK
<1>6. CASE Reselect(n, new)
  <2>1. info' = [info EXCEPT ![n] =
            [p \in Peers |->
               IF p \in Reaped(n, {}) THEN NoInfo
               ELSE IF p \in new
               THEN [info[n][p] EXCEPT !.flags = (@ \cup {"SELECTED"}) \ {"ATTR_CHANGED"}]
               ELSE [info[n][p] EXCEPT !.flags = @ \ {"SELECTED"}]]]
    BY <1>6, Zenon DEF Reselect
  <2>2. ASSUME NEW r \in Info
        PROVE  /\ [r EXCEPT !.flags = (@ \cup {"SELECTED"}) \ {"ATTR_CHANGED"}] \in Info
               /\ [r EXCEPT !.flags = @ \ {"SELECTED"}] \in Info
               /\ [r EXCEPT !.flags = (@ \cup {"SELECTED"}) \ {"ATTR_CHANGED"}].flags
                    = (r.flags \cup {"SELECTED"}) \ {"ATTR_CHANGED"}
               /\ [r EXCEPT !.flags = @ \ {"SELECTED"}].flags = r.flags \ {"SELECTED"}
    BY Zenon DEF Info, Flags
  <2>3. \A m \in Prefixes, p \in Peers : info[m][p] \in Info
    BY <1>1 DEF TypeOK
  <2>4. info' \in [Prefixes -> [Peers -> Info]]
    BY Zenon, <1>1, <1>3, <2>1, <2>2, <2>3 DEF TypeOK
  <2>5. ASSUME NEW m \in Prefixes, NEW p \in Peers
        PROVE  \/ "REMOVED" \in info[m][p].flags /\ info'[m][p] = NoInfo
               \/ info'[m][p].flags \ {"SELECTED", "ATTR_CHANGED"}
                    = info[m][p].flags \ {"SELECTED", "ATTR_CHANGED"}
    <3>1. CASE m # n
      BY <1>1, <2>1, <3>1, Zenon DEF TypeOK
    <3>2. CASE m = n
      <4>1. \/ "REMOVED" \in info[m][p].flags /\ info'[m][p] = NoInfo
            \/ info'[m][p] = [info[m][p] EXCEPT !.flags = (@ \cup {"SELECTED"}) \ {"ATTR_CHANGED"}]
            \/ info'[m][p] = [info[m][p] EXCEPT !.flags = @ \ {"SELECTED"}]
        BY <1>1, <2>1, <3>2, Zenon DEF TypeOK, Reaped
      <4>2. \/ "REMOVED" \in info[m][p].flags /\ info'[m][p] = NoInfo
            \/ info'[m][p].flags = (info[m][p].flags \cup {"SELECTED"}) \ {"ATTR_CHANGED"}
            \/ info'[m][p].flags = info[m][p].flags \ {"SELECTED"}
        BY Zenon, <4>1, <2>2, <2>3
      <4> QED BY <4>2, Zenon
    <3> QED BY <3>1, <3>2, Zenon
  <2>6. PcountExact'
    BY <1>1, <2>4, <2>5, SameUse, Zenon
  <2>7. \A p \in Peers : bgp_process_announce_selected(n, p, new, attr) \in AdjOut
    BY Zenon, <1>1, <1>4, AdjOutTypes DEF bgp_process_announce_selected, TypeOK
  <2>8. adj' = [adj EXCEPT ![n] =
                  [p \in Peers |-> bgp_process_announce_selected(n, p, new, attr)]]
    BY <1>6, Zenon DEF Reselect, attr
  <2>9. adj' \in [Prefixes -> [Peers -> AdjOut]]
    BY <1>1, <2>7, <2>8, Zenon DEF TypeOK
  <2>10. fib' = [fib EXCEPT ![n] = attr]
    BY <1>6, Zenon DEF Reselect, bgp_zebra_announce, attr
  <2>11. fib' \in [Prefixes -> {NoAttr} \cup Attrs]
    BY <1>1, <1>4, <2>10, Zenon DEF TypeOK
  <2>12. muted' \subseteq Prefixes
    BY <1>1, <1>6, Zenon DEF Reselect, TypeOK
  <2> QED BY <1>1, <2>4, <2>6, <2>9, <2>11, <2>12, Zenon DEF IInv, TypeOK
<1> QED BY <1>0, <1>5, <1>6, Zenon DEF old, new

-----------------------------------------------------------------------------
(* Every handler preserves the invariant.                                  *)

(* Messages of a peer: updates, rejected updates, withdrawals, and the     *)
(* clearing of one node.                                                   *)
LEMMA RouteStepInv ==
  ASSUME Sizes, IInv, NEW p \in Peers, NEW n \in Prefixes,
         \/ bgp_update(p, n) \/ bgp_update_filtered(p, n)
         \/ bgp_withdraw_receive(p, n) \/ ClearRouteNode(p, n)
  PROVE  IInv'
<1> DEFINE b == Base(n, p)
           x == Route(n, p)
<1>1. b \in Nat /\ Exact(x, b)
  BY RouteExact, Zenon
<1>2. PenaltyFor(x) \subseteq Penalties
  BY DEF PenaltyFor, Penalties
<1>3. TypeOK
  BY Zenon DEF IInv
<1> HIDE DEF b, x
<1>4. ASSUME NEW y, CommitOne(n, p, y), Exact(y, b)
      PROVE  /\ info' \in [Prefixes -> [Peers -> Info]] /\ pcount' \in [Peers -> Nat]
             /\ scheduled' \subseteq Prefixes /\ PcountExact'
  BY SMTT(30), <1>4, CommitOneExact DEF b
<1>5. CASE bgp_update(p, n)
  <2>1. PICK attr \in Attrs, valid \in BOOLEAN, penalty \in PenaltyFor(x) :
          /\ CommitOne(n, p, bgp_update_main(x, p, attr, valid, penalty))
          /\ \/ limit' = limit
             \/ limit' = LimitAfter(p, bgp_update_main(x, p, attr, valid, penalty).pcount)
          /\ session' = session \/ session' = [session EXCEPT ![p] = "Overflow"]
    BY <1>5, Zenon DEF bgp_update, x
  <2>2. Exact(bgp_update_main(x, p, attr, valid, penalty), b)
    BY <1>1, <1>2, UpdateExact, Zenon
  <2>3. limit' \subseteq Peers
    BY <1>3, <2>1 DEF TypeOK, LimitAfter
  <2>4. session' \in [Peers -> Sessions]
    BY SMTT(30), <1>3, <2>1 DEF TypeOK, Sessions
  <2>5. UNCHANGED <<nsf, nsfwait, clearq, adj, fib>> /\ muted' \subseteq Prefixes
    BY <1>3, <1>5, Zenon DEF bgp_update, TypeOK
  <2> QED BY SMTT(30), <1>3, <1>4, <2>1, <2>2, <2>3, <2>4, <2>5 DEF IInv, TypeOK
<1>6. CASE bgp_update_filtered(p, n)
  <2>1. Exact(bgp_rib_remove(x), b)
    BY <1>1, RibRemoveExact, Zenon
  <2>2. /\ CommitOne(n, p, bgp_rib_remove(x))
        /\ UNCHANGED <<session, limit, nsf, nsfwait, clearq, adj, fib, muted>>
    BY <1>6, Zenon DEF bgp_update_filtered, session_vars, out_vars, x
  <2> QED BY <1>3, <1>4, <2>1, <2>2, Zenon DEF IInv, TypeOK
<1>7. CASE bgp_withdraw_receive(p, n)
  <2>1. PICK penalty \in PenaltyFor(x) : CommitOne(n, p, bgp_withdraw(x, penalty))
    BY <1>7, Zenon DEF bgp_withdraw_receive, x
  <2>2. Exact(bgp_withdraw(x, penalty), b)
    BY <1>1, <1>2, WithdrawExact, Zenon
  <2>3. UNCHANGED <<session, limit, nsf, nsfwait, clearq, adj, fib, muted>>
    BY <1>7, Zenon DEF bgp_withdraw_receive, session_vars, out_vars
  <2> QED BY <1>3, <1>4, <2>1, <2>2, <2>3, Zenon DEF IInv, TypeOK
<1>8. CASE ClearRouteNode(p, n)
  <2>0. (p \in nsfwait \cap nsf) \in BOOLEAN
    OBVIOUS
  <2>1. Exact(bgp_clear_route_node(x, p \in nsfwait \cap nsf), b)
    BY Zenon, <1>1, <2>0, ClearExact
  <2>2. /\ CommitOne(n, p, bgp_clear_route_node(x, p \in nsfwait \cap nsf))
        /\ clearq' \subseteq clearq
        /\ UNCHANGED <<session, limit, nsf, nsfwait, adj, fib, muted>>
    BY <1>8, Zenon DEF ClearRouteNode, out_vars, x
  <2> QED BY <1>3, <1>4, <2>1, <2>2, Zenon DEF IInv, TypeOK
<1> QED BY <1>5, <1>6, <1>7, <1>8, Zenon

(* Sweeping the stale paths of a peer.                                     *)
LEMMA SweepExact ==
  ASSUME Sizes, IInv, NEW p \in Peers, NEW swept \in BOOLEAN, Sweep(p, swept)
  PROVE  /\ info' \in [Prefixes -> [Peers -> Info]] /\ pcount' \in [Peers -> Nat]
         /\ scheduled' \subseteq Prefixes /\ PcountExact'
<1> DEFINE R == [n \in Prefixes |-> [q \in Peers |->
                   IF q = p /\ swept THEN bgp_clear_stale_route(Route(n, q)) ELSE Route(n, q)]]
<1>1. ASSUME NEW n \in Prefixes, NEW q \in Peers
      PROVE  Exact(R[n][q], Base(n, q))
  <2>1. Base(n, q) \in Nat /\ Exact(Route(n, q), Base(n, q))
    BY RouteExact, Zenon
  <2>2. Exact(bgp_clear_stale_route(Route(n, q)), Base(n, q))
    BY <2>1, ClearExact, Zenon
  <2> QED BY <2>1, <2>2, Zenon
<1>2. Commit(R)
  BY Zenon DEF Sweep
<1> HIDE DEF R
<1> QED BY <1>1, <1>2, CommitExact, Zenon

(* The steps of a session that touch the table or the announcements.       *)
LEMMA SessionStepInv ==
  ASSUME Sizes, IInv, NEW p \in Peers,
         \/ bgp_route_refresh_receive(p) \/ bgp_write(p) \/ bgp_establish(p) \/ bgp_stop(p)
         \/ bgp_clearing_completed(p) \/ bgp_graceful_restart_timer_expire(p)
         \/ bgp_graceful_stale_timer_expire(p)
  PROVE  IInv'
<1>1. TypeOK /\ PcountExact
  BY Zenon DEF IInv
<1>2. info' = info /\ pcount' = pcount => PcountExact'
  BY <1>1, Zenon DEF PcountExact, Counted
<1>3. CASE bgp_route_refresh_receive(p)
  <2>1. /\ adj' \in [Prefixes -> [Peers -> AdjOut]]
        /\ UNCHANGED <<info, pcount, scheduled, session, limit, nsf, nsfwait, clearq, fib, muted>>
    BY <1>1, <1>3, AnnounceType, Zenon DEF bgp_route_refresh_receive, session_vars
  <2> QED BY <1>1, <1>2, <2>1, Zenon DEF IInv, TypeOK
<1>4. CASE bgp_write(p)
  <2>1. adj' \in [Prefixes -> [Peers -> AdjOut]]
    <3>1. \A n \in Prefixes : /\ adj[n] \in [Peers -> AdjOut] /\ NoAdj \in AdjOut
                              /\ [NoAdj EXCEPT !.attr = adj[n][p].new] \in AdjOut
      BY Zenon, <1>1, AdjOutTypes DEF TypeOK
    <3>2. CASE bgp_withdraw_packet(p)
      <4>1. PICK S \in SUBSET Prefixes :
              adj' = [n \in Prefixes |->
                        IF n \in S THEN [adj[n] EXCEPT ![p] = NoAdj] ELSE adj[n]]
        BY Zenon, <3>2 DEF bgp_withdraw_packet, Waiting
      <4>2. \A n \in Prefixes : [adj[n] EXCEPT ![p] = NoAdj] \in [Peers -> AdjOut]
        BY Zenon, <3>1
      <4> QED BY Zenon, <3>1, <4>1, <4>2
    <3>3. CASE bgp_update_packet(p)
      BY <1>1, <3>1, <3>3 DEF bgp_update_packet, TypeOK
    <3> QED BY <1>4, <3>2, <3>3, Zenon DEF bgp_write
  <2>2. UNCHANGED <<info, pcount, scheduled, session, limit, nsf, nsfwait, clearq, fib, muted>>
    BY <1>4, Zenon DEF bgp_write, session_vars
  <2> QED BY <1>1, <1>2, <2>1, <2>2, Zenon DEF IInv, TypeOK
<1>5. CASE bgp_establish(p)
  <2>1. PICK restart \in BOOLEAN, preserve \in BOOLEAN :
          /\ Sweep(p, p \in nsf /\ ~(restart /\ preserve))
          /\ nsf' = IF restart THEN nsf \cup {p} ELSE nsf \ {p}
    BY <1>5, Zenon DEF bgp_establish
  <2>2. /\ info' \in [Prefixes -> [Peers -> Info]] /\ pcount' \in [Peers -> Nat]
        /\ scheduled' \subseteq Prefixes /\ PcountExact'
    BY Zenon, <2>1, SweepExact
  <2>3. adj' \in [Prefixes -> [Peers -> AdjOut]]
    BY <1>1, <1>5, AnnounceType, Zenon DEF bgp_establish
  <2>4. /\ session' \in [Peers -> Sessions] /\ nsf' \subseteq Peers /\ nsfwait' \subseteq Peers
        /\ UNCHANGED <<limit, clearq, fib, muted>>
    BY <1>1, <1>5, <2>1, Zenon DEF bgp_establish, TypeOK, Sessions
  <2> QED BY SMTT(30), <1>1, <2>2, <2>3, <2>4 DEF IInv, TypeOK
<1>6. CASE bgp_stop(p)
  <2>1. adj' \in [Prefixes -> [Peers -> AdjOut]]
    BY <1>1, <1>6, Zenon DEF bgp_stop, TypeOK, NoAdj, AdjOut
  <2>2. clearq' \subseteq Peers \X Prefixes
    <3>1. PICK N \in SUBSET Prefixes : clearq' = clearq \cup {<<p, n>> : n \in N}
      BY ZenonT(30), <1>6 DEF bgp_stop
    <3>2. {<<p, n>> : n \in N} \subseteq Peers \X Prefixes
      BY <3>1
    <3>3. clearq \subseteq Peers \X Prefixes
      BY <1>1, Zenon DEF TypeOK
    <3> QED BY SMTT(30), <3>1, <3>2, <3>3
  <2>3. /\ session' \in [Peers -> Sessions] /\ nsf' \subseteq Peers /\ nsfwait' \subseteq Peers
        /\ limit' \subseteq Peers
    BY <1>1, <1>6, ZenonT(60) DEF bgp_stop, TypeOK, Sessions
  <2>4. UNCHANGED <<info, pcount, scheduled, fib, muted>>
    BY <1>6, Zenon DEF bgp_stop
  <2> QED BY SMTT(30), <1>1, <1>2, <2>1, <2>2, <2>3, <2>4 DEF IInv, TypeOK
<1>7. CASE bgp_clearing_completed(p)
  <2>1. /\ session' \in [Peers -> Sessions]
        /\ UNCHANGED <<info, pcount, scheduled, limit, nsf, nsfwait, clearq, adj, fib, muted>>
    BY <1>1, <1>7, Zenon DEF bgp_clearing_completed, out_vars, TypeOK, Sessions
  <2> QED BY <1>1, <1>2, <2>1, Zenon DEF IInv, TypeOK
<1>8. CASE bgp_graceful_restart_timer_expire(p)
  <2>1. /\ info' \in [Prefixes -> [Peers -> Info]] /\ pcount' \in [Peers -> Nat]
        /\ scheduled' \subseteq Prefixes /\ PcountExact'
    <3>1. (p \in nsf) \in BOOLEAN /\ Sweep(p, p \in nsf)
      BY <1>8, SMTT(60) DEF bgp_graceful_restart_timer_expire
    <3> QED BY Zenon, <3>1, SweepExact
  <2>2. nsfwait' \subseteq Peers /\ UNCHANGED <<session, limit, nsf, clearq, adj, fib, muted>>
    BY <1>1, <1>8, Zenon DEF bgp_graceful_restart_timer_expire, out_vars, TypeOK
  <2> QED BY <1>1, <2>1, <2>2, Zenon DEF IInv, TypeOK
<1>9. CASE bgp_graceful_stale_timer_expire(p)
  <2>1. /\ info' \in [Prefixes -> [Peers -> Info]] /\ pcount' \in [Peers -> Nat]
        /\ scheduled' \subseteq Prefixes /\ PcountExact'
    BY Zenon, <1>9, SweepExact DEF bgp_graceful_stale_timer_expire
  <2>2. UNCHANGED <<session, limit, nsf, nsfwait, clearq, adj, fib, muted>>
    BY <1>9, Zenon DEF bgp_graceful_stale_timer_expire, session_vars, out_vars
  <2> QED BY <1>1, <2>1, <2>2, Zenon DEF IInv, TypeOK
<1> QED BY <1>3, <1>4, <1>5, <1>6, <1>7, <1>8, <1>9, Zenon

(* bgp_scan, which revisits every route of the table.                      *)
LEMMA ScanInv ==
  ASSUME Sizes, IInv, bgp_scan
  PROVE  IInv'
<1>1. TypeOK
  BY Zenon DEF IInv
<1> DEFINE seen(reach, low, expired, n, p) ==
             ScanRoute(Route(n, p), info[n][p].attr \in reach,
                       IF <<n, p>> \in low THEN 0 ELSE 1, <<n, p>> \in expired)
           R(reach, low, expired) == [n \in Prefixes |-> [p \in Peers |->
             IF InTable(n) THEN bgp_process(seen(reach, low, expired, n, p))
             ELSE seen(reach, low, expired, n, p)]]
<1>2. PICK reach \in SUBSET Attrs, low \in SUBSET Damped, expired \in SUBSET Damped :
        Commit(R(reach, low, expired))
  BY Zenon DEF bgp_scan
<1>3. ASSUME NEW n \in Prefixes, NEW p \in Peers
      PROVE  Exact(R(reach, low, expired)[n][p], Base(n, p))
  <2>1. Base(n, p) \in Nat /\ Exact(Route(n, p), Base(n, p))
    BY RouteExact, Zenon
  <2>2. (info[n][p].attr \in reach) \in BOOLEAN /\ (<<n, p>> \in expired) \in BOOLEAN
    OBVIOUS
  <2>3. Exact(seen(reach, low, expired, n, p), Base(n, p))
    BY Zenon, <2>1, <2>2, ScanRouteExact
  <2> HIDE DEF seen
  <2>4. Exact(bgp_process(seen(reach, low, expired, n, p)), Base(n, p))
    BY <2>1, <2>3, ProcessExact, Zenon
  <2> QED BY <2>3, <2>4, Zenon
<1> HIDE DEF R, seen
<1>4. /\ info' \in [Prefixes -> [Peers -> Info]] /\ pcount' \in [Peers -> Nat]
      /\ scheduled' \subseteq Prefixes /\ PcountExact'
  BY <1>2, <1>3, CommitExact, Zenon
<1>5. limit' \subseteq Peers /\ UNCHANGED <<nsf, nsfwait, clearq, adj, fib, muted>>
  BY Zenon DEF bgp_scan, out_vars
<1>6. session' \in [Peers -> Sessions]
  <2>1. session' = [p \in Peers |->
                      IF session[p] = "Established" /\ pcount[p] > Pmax
                      THEN "Notified" ELSE session[p]]
    BY Zenon DEF bgp_scan
  <2> QED BY <1>1, <2>1, Zenon DEF TypeOK, Sessions
<1> QED BY <1>1, <1>4, <1>5, <1>6, Zenon DEF IInv, TypeOK

(* bgp_reuse_timer, which revisits every suppressed route that is due.     *)
LEMMA ReuseTimerInv ==
  ASSUME Sizes, IInv, bgp_reuse_timer
  PROVE  IInv'
<1>1. TypeOK
  BY Zenon DEF IInv
<1> DEFINE R(S, penalty) == [n \in Prefixes |-> [p \in Peers |->
             IF <<n, p>> \in S THEN ReuseRoute(Route(n, p), penalty[<<n, p>>])
             ELSE Route(n, p)]]
<1>2. PICK S \in SUBSET Suppressed, penalty \in [Suppressed -> 0 .. 2] : Commit(R(S, penalty))
  BY Zenon DEF bgp_reuse_timer
<1>3. ASSUME NEW n \in Prefixes, NEW p \in Peers
      PROVE  Exact(R(S, penalty)[n][p], Base(n, p))
  <2>1. Base(n, p) \in Nat /\ Exact(Route(n, p), Base(n, p))
    BY RouteExact, Zenon
  <2>2. CASE <<n, p>> \in S
    <3>1. penalty[<<n, p>>] \in Penalties
      BY <2>2 DEF Penalties
    <3>2. Exact(ReuseRoute(Route(n, p), penalty[<<n, p>>]), Base(n, p))
      BY <2>1, <3>1, ReuseRouteExact, Zenon
    <3> QED BY <2>2, <3>2, Zenon
  <2>3. CASE <<n, p>> \notin S
    BY <2>1, <2>3, Zenon
  <2> QED BY <2>2, <2>3, Zenon
<1> HIDE DEF R
<1>4. /\ info' \in [Prefixes -> [Peers -> Info]] /\ pcount' \in [Peers -> Nat]
      /\ scheduled' \subseteq Prefixes /\ PcountExact'
  BY <1>2, <1>3, CommitExact, Zenon
<1>5. UNCHANGED <<session, limit, nsf, nsfwait, clearq, adj, fib, muted>>
  BY Zenon DEF bgp_reuse_timer, session_vars, out_vars
<1> QED BY <1>1, <1>4, <1>5, Zenon DEF IInv, TypeOK

-----------------------------------------------------------------------------
(* The table starts right, and every step keeps it so.                     *)

(* The table starts empty and nothing is counted.                          *)
LEMMA InitInv ==
  ASSUME Sizes, Init
  PROVE  IInv
<1>1. NoInfo \in Info /\ NoAdj \in AdjOut
  BY Zenon DEF NoInfo, Info, Records, NoAdj, AdjOut
<1>2. TypeOK
  BY <1>1, Zenon DEF Init, TypeOK, Sessions
<1>3. ASSUME NEW p \in Peers, NEW n \in Prefixes
      PROVE  info[n][p].flags = {}
  BY Zenon DEF Init, NoInfo
<1>4. \A p \in Peers : Counted(p) = {}
  BY SMTT(30), <1>3 DEF Counted
<1>5. Cardinality({}) = 0
  BY Zenon DEF Sizes
<1>6. PcountExact
  BY <1>3, <1>4, <1>5, Zenon DEF PcountExact, HOLDDOWN, Init
<1> QED BY <1>2, <1>6, Zenon DEF IInv

(* Every step of the table keeps the invariant.                            *)
LEMMA NextInv ==
  ASSUME Counting, Sizes, IInv, [Next]_vars
  PROVE  IInv'
<1>1. CASE UNCHANGED vars
  BY Zenon, <1>1 DEF IInv, TypeOK, PcountExact, Counted, vars, session_vars, out_vars
<1>2. CASE \E p \in Peers, n \in Prefixes :
             \/ bgp_update(p, n) \/ bgp_update_filtered(p, n)
             \/ bgp_withdraw_receive(p, n) \/ ClearRouteNode(p, n)
  BY <1>2, RouteStepInv, Zenon
<1>3. CASE \E n \in Prefixes : bgp_process_main(n)
  BY <1>3, ProcessMainInv, Zenon
<1>4. CASE \E p \in Peers :
             \/ bgp_route_refresh_receive(p) \/ bgp_write(p) \/ bgp_establish(p)
             \/ bgp_stop(p) \/ bgp_clearing_completed(p)
             \/ bgp_graceful_restart_timer_expire(p)
             \/ bgp_graceful_stale_timer_expire(p)
  BY <1>4, SessionStepInv, Zenon
<1>5. CASE bgp_scan
  BY <1>5, ScanInv, Zenon
<1>6. CASE bgp_reuse_timer
  BY <1>6, ReuseTimerInv, Zenon
<1> QED BY <1>1, <1>2, <1>3, <1>4, <1>5, <1>6 DEF Next

-----------------------------------------------------------------------------
(* What clearing leaves.  It does not depend on dampening.                 *)

Down == {"Clearing", "Idle"}

(* A path of a session that is gone is still to be cleared, cannot be used *)
(* any more, or is stale and waited for.                                   *)
Spent(ri) == ri.flags \cap {"REMOVED", "HISTORY"} # {}

Attended(n, p) ==
  \/ <<p, n>> \in clearq /\ (FirstFamily => session[p] = "Clearing")
  \/ Spent(info[n][p])
  \/ "STALE" \in info[n][p].flags /\ p \in nsfwait

(* No path, no flags; a path kept for its history was withdrawn.           *)
Sound(ri) ==
  /\ ri.attr = NoAttr => ri = NoInfo
  /\ "HISTORY" \in ri.flags => ri.damp = "WITHDRAW"

ClearInv ==
  /\ IInv
  /\ \A n \in Prefixes, p \in Peers : Sound(info[n][p])
  /\ nsfwait \subseteq nsf
  /\ \A p \in nsfwait : session[p] \in Down
  /\ \A n \in Prefixes, p \in Peers :
       session[p] \in Down /\ info[n][p].attr # NoAttr => Attended(n, p)

-----------------------------------------------------------------------------
(* What the handlers of one route do to it, but for the flag COUNTED.      *)

(* y is x with the flags of A set and those of D cleared.                  *)
Edited(x, y, A, D) ==
  /\ y \in RouteSet
  /\ y.ri.attr = x.ri.attr /\ y.ri.damp = x.ri.damp /\ y.process = x.process
  /\ \A g : g # "COUNTED" => (g \in y.ri.flags <=> g \in (x.ri.flags \cup A) \ D)

(* bgp_pcount_adjust changes nothing else.                                 *)
LEMMA AdjustEdits ==
  ASSUME NEW x \in RouteSet
  PROVE  Edited(x, bgp_pcount_adjust(x), {}, {})
<1> DEFINE f == x.ri.flags
<1>0. f \in SUBSET Flags /\ {"COUNTED"} \in SUBSET Flags /\ x.pcount \in Nat
  BY Zenon DEF RouteSet, Info, Flags
<1>1. CASE HOLDDOWN(f) /\ "COUNTED" \in f
  <2> DEFINE u == UNSET_FLAG(x, {"COUNTED"})
             y == [u EXCEPT !.pcount = IF @ > 0 THEN @ - 1 ELSE 0]
  <2>1. bgp_pcount_adjust(x) = y
    BY <1>1, Zenon DEF bgp_pcount_adjust
  <2>2. /\ u \in RouteSet /\ u.ri.flags = f \ {"COUNTED"} /\ u.ri.attr = x.ri.attr
        /\ u.ri.damp = x.ri.damp /\ u.pcount = x.pcount /\ u.process = x.process
    BY <1>0, UnsetFlagFields
  <2> HIDE DEF u
  <2>3. y \in RouteSet /\ y.ri = u.ri /\ y.process = u.process
    BY <1>0, <2>2 DEF RouteSet
  <2> HIDE DEF y
  <2> QED BY <2>1, <2>2, <2>3, Zenon DEF Edited
<1>2. CASE ~HOLDDOWN(f) /\ "COUNTED" \notin f
  <2> DEFINE u == SET_FLAG(x, {"COUNTED"})
             y == [u EXCEPT !.pcount = @ + 1]
  <2>1. bgp_pcount_adjust(x) = y
    BY <1>2, Zenon DEF bgp_pcount_adjust
  <2>2. /\ u \in RouteSet /\ u.ri.flags = f \cup {"COUNTED"} /\ u.ri.attr = x.ri.attr
        /\ u.ri.damp = x.ri.damp /\ u.pcount = x.pcount /\ u.process = x.process
    BY <1>0, SetFlagFields, Zenon
  <2> HIDE DEF u
  <2>3. y \in RouteSet /\ y.ri = u.ri /\ y.process = u.process
    BY <1>0, <2>2 DEF RouteSet
  <2> HIDE DEF y
  <2> QED BY <2>1, <2>2, <2>3 DEF Edited
<1>3. CASE ~(HOLDDOWN(f) /\ "COUNTED" \in f) /\ ~(~HOLDDOWN(f) /\ "COUNTED" \notin f)
  <2>1. bgp_pcount_adjust(x) = x
    BY <1>3, Zenon DEF bgp_pcount_adjust
  <2> QED BY <2>1, Zenon DEF Edited
<1> QED BY <1>1, <1>2, <1>3, Zenon

(* bgp_info_set_flag and bgp_info_unset_flag, counted or not.              *)
LEMMA FlagEdits ==
  ASSUME NEW x \in RouteSet, NEW F \in SUBSET Flags
  PROVE  /\ Edited(x, SET_FLAG(x, F), F, {})
         /\ Edited(x, UNSET_FLAG(x, F), {}, F)
         /\ Edited(x, bgp_info_set_flag(x, F), F, {})
         /\ Edited(x, bgp_info_unset_flag(x, F), {}, F)
<1> DEFINE s == SET_FLAG(x, F)
           u == UNSET_FLAG(x, F)
<1>1. Edited(x, s, F, {}) /\ Edited(x, u, {}, F)
  BY SetFlagFields, UnsetFlagFields DEF Edited
<1>2. bgp_info_set_flag(x, F) \in {s, bgp_pcount_adjust(s)}
  BY Zenon DEF bgp_info_set_flag
<1>3. bgp_info_unset_flag(x, F) \in {u, bgp_pcount_adjust(u)}
  BY Zenon DEF bgp_info_unset_flag
<1> HIDE DEF s, u
<1>4. Edited(s, bgp_pcount_adjust(s), {}, {}) /\ Edited(u, bgp_pcount_adjust(u), {}, {})
  BY <1>1, AdjustEdits, Zenon DEF Edited
<1>5. Edited(x, bgp_pcount_adjust(s), F, {}) /\ Edited(x, bgp_pcount_adjust(u), {}, F)
  BY <1>1, <1>4, Zenon DEF Edited
<1> QED BY <1>1, <1>2, <1>3, <1>5, Zenon DEF s, u

(* The sets of flags that the handlers set and clear.                      *)
LEMMA FlagNames ==
  /\ \A g \in {"VALID", "HISTORY", "DAMPED", "REMOVED", "STALE", "ATTR_CHANGED"} :
       {g} \in SUBSET Flags
  /\ {"HISTORY", "DAMPED"} \in SUBSET Flags
BY Zenon DEF Flags, UNUSEABLE

(* bgp_process hands over the node, nothing else.                          *)
LEMMA ProcessEdits ==
  ASSUME NEW x \in RouteSet
  PROVE  /\ bgp_process(x) \in RouteSet /\ bgp_process(x).ri = x.ri
         /\ bgp_process(x).process = TRUE
BY Zenon DEF bgp_process, RouteSet

(* bgp_rib_remove: the path is removed or only its history is left, and in *)
(* both cases the node is handed over.                                     *)
LEMMA RemoveEdits ==
  ASSUME NEW x \in RouteSet
  PROVE  /\ Edited(x, bgp_info_delete(x), {"REMOVED"}, {"VALID"})
         /\ bgp_rib_remove(x) \in RouteSet /\ bgp_rib_remove(x).process = TRUE
         /\ bgp_rib_remove(x).ri = IF "HISTORY" \in x.ri.flags THEN x.ri
                                   ELSE bgp_info_delete(x).ri
<1> DEFINE y == bgp_info_set_flag(x, {"REMOVED"})
<1>1. Edited(x, y, {"REMOVED"}, {})
  BY FlagEdits, FlagNames, Zenon
<1> HIDE DEF y
<1>2. Edited(y, UNSET_FLAG(y, {"VALID"}), {}, {"VALID"})
  BY <1>1, FlagEdits, FlagNames DEF Edited
<1>3. bgp_info_delete(x) = UNSET_FLAG(y, {"VALID"})
  BY Zenon DEF bgp_info_delete, y
<1>4. Edited(x, bgp_info_delete(x), {"REMOVED"}, {"VALID"})
  BY <1>1, <1>2, <1>3, Zenon DEF Edited
<1>5. bgp_info_delete(x) \in RouteSet
  BY <1>4, Zenon DEF Edited
<1>6. bgp_rib_remove(x) = bgp_process(IF "HISTORY" \in x.ri.flags THEN x ELSE bgp_info_delete(x))
  BY Zenon DEF bgp_rib_remove
<1> QED BY <1>4, <1>5, <1>6, ProcessEdits, Zenon

(* The reachability of the next hop.                                       *)
LEMMA ValidEdits ==
  ASSUME NEW x \in RouteSet, NEW valid \in BOOLEAN
  PROVE  Edited(x, SetValid(x, valid), IF valid THEN {"VALID"} ELSE {}, IF valid THEN {} ELSE {"VALID"})
BY FlagEdits, FlagNames, Zenon DEF SetValid

-----------------------------------------------------------------------------
(* Handlers of one route, with or without dampening.                       *)

(* A route whose history, if any, is that of a withdrawal.                 *)
Kept(x) == x \in RouteSet /\ ("HISTORY" \in x.ri.flags => x.ri.damp = "WITHDRAW")

(* y is what became of x while no message of its peer was read: spent and  *)
(* stale paths remain so.                                                  *)
Persists(x, y) ==
  /\ Kept(y) /\ y.ri.attr = x.ri.attr
  /\ Spent(x.ri) => Spent(y.ri)
  /\ "STALE" \in x.ri.flags => "STALE" \in y.ri.flags

(* A new damping record changes nothing else.                              *)
LEMMA RecordEdits ==
  ASSUME NEW x \in RouteSet, NEW d \in Records
  PROVE  LET y == [x EXCEPT !.ri.damp = d]
         IN  /\ y \in RouteSet /\ y.ri.flags = x.ri.flags /\ y.ri.attr = x.ri.attr
             /\ y.ri.damp = d /\ y.process = x.process
BY Zenon DEF RouteSet, Info

(* bgp_damp_withdraw keeps the history of the path.                        *)
LEMMA DampWithdrawKept ==
  ASSUME NEW x \in RouteSet, NEW penalty
  PROVE  LET y == bgp_damp_withdraw(x, penalty)
         IN  Kept(y) /\ y.ri.attr = x.ri.attr /\ "HISTORY" \in y.ri.flags
<1> DEFINE w == [x EXCEPT !.ri.damp = "WITHDRAW"]
           y == bgp_info_set_flag(w, {"HISTORY"})
           z == bgp_info_set_flag(y, {"DAMPED"})
<1>1. w \in RouteSet /\ w.ri.attr = x.ri.attr /\ w.ri.damp = "WITHDRAW"
  BY Zenon, RecordEdits DEF Records
<1> HIDE DEF w
<1>2. Edited(w, y, {"HISTORY"}, {})
  BY <1>1, FlagEdits, FlagNames, Zenon
<1> HIDE DEF y
<1>3. Edited(y, z, {"DAMPED"}, {})
  BY <1>2, FlagEdits, FlagNames DEF Edited
<1> HIDE DEF z
<1>4. bgp_damp_withdraw(x, penalty) = y \/ bgp_damp_withdraw(x, penalty) = z
  BY Zenon DEF bgp_damp_withdraw, w, y, z
<1> QED BY <1>1, <1>2, <1>3, <1>4, Zenon DEF Edited, Kept

(* bgp_damp_info_free ends the history, and the path with it when it was   *)
(* withdrawn.                                                              *)
LEMMA DampInfoFreeKept ==
  ASSUME NEW x, Kept(x), NEW withdraw \in BOOLEAN
  PROVE  LET y == bgp_damp_info_free(x, withdraw)
         IN  Kept(y) /\ y.ri.attr = x.ri.attr /\ (withdraw => Persists(x, y))
<1> DEFINE w == [x EXCEPT !.ri.damp = "none"]
           y == bgp_info_unset_flag(w, {"HISTORY", "DAMPED"})
           z == bgp_info_delete(y)
<1>1. w \in RouteSet /\ w.ri.attr = x.ri.attr /\ w.ri.flags = x.ri.flags
  BY Zenon, RecordEdits DEF Records, Kept
<1> HIDE DEF w
<1>2. Edited(w, y, {}, {"HISTORY", "DAMPED"})
  BY <1>1, FlagEdits, FlagNames, Zenon
<1> HIDE DEF y
<1>3. Edited(y, z, {"REMOVED"}, {"VALID"})
  BY <1>2, RemoveEdits, Zenon DEF Edited
<1> HIDE DEF z
<1>4. bgp_damp_info_free(x, withdraw) = IF x.ri.damp = "WITHDRAW" /\ withdraw THEN z ELSE y
  BY Zenon DEF bgp_damp_info_free, w, y, z
<1>5. Kept(y) /\ y.ri.attr = x.ri.attr /\ ("STALE" \in x.ri.flags => "STALE" \in y.ri.flags)
  BY <1>1, <1>2, Zenon DEF Edited, Kept
<1>6. /\ Kept(z) /\ z.ri.attr = x.ri.attr /\ ("STALE" \in x.ri.flags => "STALE" \in z.ri.flags)
      /\ Spent(z.ri)
  BY <1>1, <1>2, <1>3 DEF Edited, Kept, Spent
<1>7. x.ri.damp # "WITHDRAW" /\ Spent(x.ri) => Spent(y.ri)
  BY <1>1, <1>2, Zenon DEF Edited, Kept, Spent
<1> QED BY <1>4, <1>5, <1>6, <1>7, Zenon DEF Persists

(* bgp_damp_update notes that the path is announced again.                 *)
LEMMA DampUpdateKept ==
  ASSUME NEW x, Kept(x), NEW penalty
  PROVE  LET y == bgp_damp_update(x, penalty)
         IN  Kept(y) /\ y.ri.attr = x.ri.attr
<1> DEFINE w == [x EXCEPT !.ri.damp = "UPDATE"]
           y == bgp_info_unset_flag(w, {"HISTORY"})
           u == bgp_info_unset_flag(y, {"DAMPED"})
           z == IF penalty < 2 THEN u ELSE y
           f == bgp_damp_info_free(z, FALSE)
<1>1. w \in RouteSet /\ w.ri.attr = x.ri.attr
  BY Zenon, RecordEdits DEF Records, Kept
<1> HIDE DEF w
<1>2. Edited(w, y, {}, {"HISTORY"})
  BY <1>1, FlagEdits, FlagNames, Zenon
<1> HIDE DEF y
<1>3. Edited(y, u, {}, {"DAMPED"})
  BY <1>2, FlagEdits, FlagNames DEF Edited
<1> HIDE DEF u
<1>4. Kept(z) /\ z.ri.attr = x.ri.attr
  BY <1>1, <1>2, <1>3, Zenon DEF Edited, Kept
<1> HIDE DEF z
<1>5. Kept(f) /\ f.ri.attr = x.ri.attr
  BY <1>4, DampInfoFreeKept, Zenon
<1> HIDE DEF f
<1>6. bgp_damp_update(x, penalty) \in {x, f, z}
  BY Zenon DEF bgp_damp_update, f, z, u, y, w
<1> QED BY <1>4, <1>5, <1>6, Zenon

(* The reuse timer and the scanner revive nothing.                         *)
LEMMA ReusePersists ==
  ASSUME NEW x, Kept(x), NEW penalty
  PROVE  Persists(x, ReuseRoute(x, penalty))
<1> DEFINE y == bgp_info_unset_flag(x, {"DAMPED"})
           h == bgp_info_unset_flag(y, {"HISTORY"})
           z == IF y.ri.damp = "UPDATE" THEN bgp_process(h) ELSE y
           f == bgp_damp_info_free(z, TRUE)
<1>1. Edited(x, y, {}, {"DAMPED"})
  BY FlagEdits, FlagNames, Zenon DEF Kept
<1> HIDE DEF y
<1>2. Edited(y, h, {}, {"HISTORY"})
  BY <1>1, FlagEdits, FlagNames DEF Edited
<1> HIDE DEF h
<1>3. bgp_process(h) \in RouteSet /\ bgp_process(h).ri = h.ri
  BY <1>2, ProcessEdits, Zenon DEF Edited
<1>4. Persists(x, y)
  BY <1>1, Zenon DEF Edited, Persists, Kept, Spent
<1>5. y.ri.damp = "UPDATE" => Persists(x, bgp_process(h))
  BY <1>1, <1>2, <1>3, Zenon DEF Edited, Persists, Kept, Spent
<1>6. Persists(x, z)
  BY <1>4, <1>5, Zenon
<1> HIDE DEF z
<1>7. Persists(z, f)
  BY <1>6, DampInfoFreeKept, Zenon DEF Persists
<1> HIDE DEF f
<1>8. ReuseRoute(x, penalty) \in {x, f, z}
  BY Zenon DEF ReuseRoute, f, z, h, y
<1> QED BY <1>6, <1>7, <1>8, Zenon DEF Persists

(* The scanner.                                                            *)
LEMMA ScanPersists ==
  ASSUME NEW x, Kept(x), NEW valid \in BOOLEAN, NEW penalty, NEW expired \in BOOLEAN
  PROVE  /\ Persists(x, ScanRoute(x, valid, penalty, expired))
         /\ ~Exists(x) => ScanRoute(x, valid, penalty, expired) = x
<1> DEFINE v == SetValid(x, valid)
           y == IF valid # ("VALID" \in x.ri.flags) THEN v ELSE x
           u == bgp_info_unset_flag(y, {"DAMPED"})
           f == bgp_damp_info_free(y, TRUE)
<1>1. Edited(x, v, IF valid THEN {"VALID"} ELSE {}, IF valid THEN {} ELSE {"VALID"})
  BY ValidEdits, Zenon DEF Kept
<1> HIDE DEF v
<1>2. Persists(x, v)
  BY <1>1 DEF Edited, Persists, Kept, Spent
<1>3. Persists(x, y)
  BY <1>2, Zenon DEF Persists
<1> HIDE DEF y
<1>4. Edited(y, u, {}, {"DAMPED"})
  BY <1>3, FlagEdits, FlagNames, Zenon DEF Persists, Kept
<1> HIDE DEF u
<1>5. Persists(x, u)
  BY <1>3, <1>4, Zenon DEF Edited, Persists, Kept, Spent
<1>6. Persists(y, f)
  BY <1>3, DampInfoFreeKept, Zenon DEF Persists
<1> HIDE DEF f
<1>7. ScanRoute(x, valid, penalty, expired) \in {x, y, u, f}
  BY Zenon DEF ScanRoute, bgp_damp_scan, f, u, y, v
<1>8. ~Exists(x) => ScanRoute(x, valid, penalty, expired) = x
  BY Zenon DEF ScanRoute
<1> QED BY <1>3, <1>5, <1>6, <1>7, <1>8, Zenon DEF Persists

(* Removing a path leaves it spent.                                        *)
LEMMA RemoveSpends ==
  ASSUME NEW x, Kept(x)
  PROVE  LET y == bgp_rib_remove(x)
         IN  Kept(y) /\ y.ri.attr = x.ri.attr /\ Spent(y.ri)
<1>1. Edited(x, bgp_info_delete(x), {"REMOVED"}, {"VALID"})
  BY RemoveEdits, Zenon DEF Kept
<1>2. /\ bgp_rib_remove(x) \in RouteSet
      /\ bgp_rib_remove(x).ri = IF "HISTORY" \in x.ri.flags THEN x.ri ELSE bgp_info_delete(x).ri
  BY RemoveEdits, Zenon DEF Kept
<1> QED BY <1>1, <1>2 DEF Edited, Kept, Spent

(* Clearing a node of a peer that went down, and sweeping its stale paths. *)
LEMMA ClearSpends ==
  ASSUME NEW x, Kept(x), NEW waiting \in BOOLEAN
  PROVE  /\ LET y == bgp_clear_route_node(x, waiting)
            IN  /\ Kept(y) /\ y.ri.attr = x.ri.attr
                /\ ~Exists(x) => y = x
                /\ Exists(x) => Spent(y.ri) \/ (waiting /\ "STALE" \in y.ri.flags)
         /\ LET y == bgp_clear_stale_route(x)
            IN  /\ Persists(x, y)
                /\ "STALE" \in x.ri.flags => Spent(y.ri)
                /\ "STALE" \notin x.ri.flags => y = x
<1> DEFINE s == bgp_info_set_flag(x, {"STALE"})
           d == bgp_info_delete(x)
           r == bgp_rib_remove(x)
<1>1. Edited(x, s, {"STALE"}, {})
  BY FlagEdits, FlagNames, Zenon DEF Kept
<1>2. Kept(s) /\ s.ri.attr = x.ri.attr /\ "STALE" \in s.ri.flags
  BY <1>1 DEF Edited, Kept
<1>3. Kept(r) /\ r.ri.attr = x.ri.attr /\ Spent(r.ri)
  BY RemoveSpends, Zenon
<1>4. "STALE" \in x.ri.flags => "STALE" \in r.ri.flags
  <2>1. Edited(x, d, {"REMOVED"}, {"VALID"}) /\ (r.ri = x.ri \/ r.ri = d.ri)
    BY RemoveEdits, Zenon DEF Kept
  <2> QED BY <2>1, Zenon DEF Edited
<1>5. bgp_clear_route_node(x, waiting) =
        IF ~Exists(x) THEN x
        ELSE IF waiting /\ "STALE" \notin x.ri.flags /\ x.ri.flags \cap UNUSEABLE = {} THEN s ELSE r
  BY Zenon DEF bgp_clear_route_node
<1>6. bgp_clear_stale_route(x) = IF "STALE" \in x.ri.flags THEN r ELSE x
  BY Zenon DEF bgp_clear_stale_route
<1> HIDE DEF s, r
<1>7. Persists(x, bgp_clear_stale_route(x))
  BY <1>3, <1>4, <1>6, Zenon DEF Persists
<1> QED BY <1>2, <1>3, <1>5, <1>6, <1>7, Zenon

(* A path that exists goes on existing, and its history stays in order,    *)
(* when an update or a withdrawal is read.                                 *)
LEMMA WithdrawKept ==
  ASSUME NEW x, Kept(x), NEW penalty
  PROVE  LET y == bgp_withdraw(x, penalty)
         IN  Kept(y) /\ y.ri.attr = x.ri.attr /\ (~Exists(x) => y = x)
<1> DEFINE w == bgp_damp_withdraw(x, penalty)
<1>1. Kept(w) /\ w.ri.attr = x.ri.attr
  BY DampWithdrawKept, Zenon DEF Kept
<1> HIDE DEF w
<1>2. /\ Kept(bgp_rib_remove(w)) /\ bgp_rib_remove(w).ri.attr = x.ri.attr
      /\ Kept(bgp_rib_remove(x)) /\ bgp_rib_remove(x).ri.attr = x.ri.attr
  BY <1>1, RemoveSpends, Zenon
<1>3. bgp_withdraw(x, penalty) \in {x, w, bgp_rib_remove(w), bgp_rib_remove(x)}
  BY Zenon DEF bgp_withdraw, bgp_rib_withdraw, w
<1>4. ~Exists(x) => bgp_withdraw(x, penalty) = x
  BY Zenon DEF bgp_withdraw
<1> QED BY <1>1, <1>2, <1>3, <1>4, Zenon

(* A new attribute changes nothing else.                                   *)
LEMMA AttrEdits ==
  ASSUME NEW x \in RouteSet, NEW attr \in Attrs
  PROVE  LET y == [x EXCEPT !.ri.attr = attr]
         IN  /\ y \in RouteSet /\ y.ri.flags = x.ri.flags /\ y.ri.attr = attr
             /\ y.ri.damp = x.ri.damp /\ y.process = x.process
BY Zenon DEF RouteSet, Info

(* A path that comes back after its removal is valid again.                *)
LEMMA RestoreEdits ==
  ASSUME NEW x \in RouteSet
  PROVE  Edited(x, bgp_info_restore(x), {"VALID"}, {"REMOVED"})
<1> DEFINE y == bgp_info_unset_flag(x, {"REMOVED"})
<1>1. Edited(x, y, {}, {"REMOVED"})
  BY FlagEdits, FlagNames, Zenon
<1> HIDE DEF y
<1>2. Edited(y, SET_FLAG(y, {"VALID"}), {"VALID"}, {})
  BY <1>1, FlagEdits, FlagNames DEF Edited
<1>3. bgp_info_restore(x) = SET_FLAG(y, {"VALID"})
  BY Zenon DEF bgp_info_restore, y
<1> QED BY <1>1, <1>2, <1>3, Zenon DEF Edited

(* The implicit withdrawal that an update with another attribute is.       *)
LEMMA ImplicitEdits ==
  ASSUME NEW x \in RouteSet, NEW penalty
  PROVE  \E z \in RouteSet :
           /\ Edited(x, z, IF "REMOVED" \in x.ri.flags THEN {"VALID", "ATTR_CHANGED"}
                           ELSE {"ATTR_CHANGED"}, {"REMOVED", "STALE"})
           /\ ImplicitWithdraw(x, penalty) =
                IF Dampening /\ "HISTORY" \notin z.ri.flags THEN bgp_damp_withdraw(z, penalty) ELSE z
<1> DEFINE y == IF "REMOVED" \in x.ri.flags THEN bgp_info_restore(x) ELSE x
           s == bgp_info_unset_flag(y, {"STALE"})
           z == bgp_info_set_flag(s, {"ATTR_CHANGED"})
<1>1. Edited(x, y, IF "REMOVED" \in x.ri.flags THEN {"VALID"} ELSE {}, {"REMOVED"})
  <2>1. CASE "REMOVED" \in x.ri.flags
    BY <2>1, RestoreEdits, Zenon
  <2>2. CASE "REMOVED" \notin x.ri.flags
    BY <2>2, Zenon DEF Edited
  <2> QED BY <2>1, <2>2, Zenon
<1> HIDE DEF y
<1>2. Edited(y, s, {}, {"STALE"})
  BY <1>1, FlagEdits, FlagNames, SMTT(60) DEF Edited
<1> HIDE DEF s
<1>3. Edited(s, z, {"ATTR_CHANGED"}, {})
  BY <1>2, FlagEdits, FlagNames DEF Edited
<1> HIDE DEF z
<1>4. Edited(x, z, IF "REMOVED" \in x.ri.flags THEN {"VALID", "ATTR_CHANGED"}
                           ELSE {"ATTR_CHANGED"}, {"REMOVED", "STALE"})
  BY <1>1, <1>2, <1>3 DEF Edited
<1>5. ImplicitWithdraw(x, penalty) =
        IF Dampening /\ "HISTORY" \notin z.ri.flags THEN bgp_damp_withdraw(z, penalty) ELSE z
  BY Zenon DEF ImplicitWithdraw, y, s, z
<1> QED BY <1>4, <1>5, Zenon DEF Edited

(* bgp_update_main: the path exists afterwards.                            *)
LEMMA UpdateKept ==
  ASSUME NEW x, Kept(x), NEW p, NEW attr \in Attrs, NEW valid \in BOOLEAN, NEW penalty
  PROVE  LET y == bgp_update_main(x, p, attr, valid, penalty)
         IN  Kept(y) /\ y.ri.attr # NoAttr
<1>0. attr # NoAttr
  BY RibAssumption DEF Attrs, NoAttr
<1>1. ASSUME NEW y, Kept(y)
      PROVE  /\ Kept(SetValid(y, valid)) /\ SetValid(y, valid).ri.attr = y.ri.attr
             /\ Kept(bgp_process(y)) /\ bgp_process(y).ri.attr = y.ri.attr
  <2>1. \E A, D \in SUBSET {"VALID"} : Edited(y, SetValid(y, valid), A, D)
    BY <1>1, ValidEdits, Zenon DEF Kept
  <2>2. bgp_process(y) \in RouteSet /\ bgp_process(y).ri = y.ri
    BY <1>1, ProcessEdits, Zenon DEF Kept
  <2> QED BY <1>1, <2>1, <2>2 DEF Edited, Kept
<1>2. CASE SameAttr(x, attr)
  <2> DEFINE y == bgp_info_unset_flag(x, {"ATTR_CHANGED"})
             u == bgp_info_unset_flag(y, {"STALE"})
             d == bgp_damp_update(y, penalty)
  <2>1. Edited(x, y, {}, {"ATTR_CHANGED"})
    BY FlagEdits, FlagNames, Zenon DEF Kept
  <2> HIDE DEF y
  <2>2. Edited(y, u, {}, {"STALE"})
    BY <2>1, FlagEdits, FlagNames DEF Edited
  <2> HIDE DEF u
  <2>3. Kept(y) /\ y.ri.attr = x.ri.attr /\ Kept(u) /\ u.ri.attr = x.ri.attr
    BY <2>1, <2>2, Zenon DEF Edited, Kept
  <2>4. Kept(d) /\ d.ri.attr = x.ri.attr
    BY <2>3, DampUpdateKept, Zenon
  <2> HIDE DEF d
  <2>5. DuplicateUpdate(x, penalty) \in {y, d, bgp_process(d), bgp_process(u)}
    BY Zenon DEF DuplicateUpdate, y, u, d
  <2>6. x.ri.attr = attr /\ bgp_update_main(x, p, attr, valid, penalty) = DuplicateUpdate(x, penalty)
    BY <1>2, Zenon DEF bgp_update_main, SameAttr
  <2> QED BY <1>0, <1>1, <2>3, <2>4, <2>5, <2>6
<1>3. CASE ~SameAttr(x, attr) /\ Exists(x)
  <2> DEFINE i == ImplicitWithdraw(x, penalty)
             y == [i EXCEPT !.ri.attr = attr]
             d == bgp_damp_update(y, penalty)
  <2>1. Kept(i)
    <3>1. PICK z \in RouteSet :
            /\ Edited(x, z, IF "REMOVED" \in x.ri.flags THEN {"VALID", "ATTR_CHANGED"}
                            ELSE {"ATTR_CHANGED"}, {"REMOVED", "STALE"})
            /\ i = IF Dampening /\ "HISTORY" \notin z.ri.flags
                   THEN bgp_damp_withdraw(z, penalty) ELSE z
      BY ImplicitEdits, Zenon DEF Kept
    <3>2. Kept(z)
      BY <3>1 DEF Edited, Kept
    <3> QED BY <3>1, <3>2, DampWithdrawKept, Zenon
  <2> HIDE DEF i
  <2>2. Kept(y) /\ y.ri.attr = attr
    <3>1. /\ y \in RouteSet /\ y.ri.flags = i.ri.flags /\ y.ri.attr = attr
          /\ y.ri.damp = i.ri.damp
      BY Zenon, <2>1, AttrEdits DEF Kept
    <3> HIDE DEF y
    <3> QED BY <2>1, <3>1, Zenon DEF Kept
  <2> HIDE DEF y
  <2>3. Kept(d) /\ d.ri.attr = attr
    BY <2>2, DampUpdateKept, Zenon
  <2> HIDE DEF d
  <2>4. ChangedUpdate(x, attr, valid, penalty) \in
          {bgp_process(SetValid(y, valid)), d, bgp_process(SetValid(d, valid))}
    BY Zenon DEF ChangedUpdate, i, y, d
  <2>5. bgp_update_main(x, p, attr, valid, penalty) = ChangedUpdate(x, attr, valid, penalty)
    BY <1>3, Zenon DEF bgp_update_main
  <2> QED BY <1>0, <1>1, <2>2, <2>3, <2>4, <2>5, SMTT(60)
<1>4. CASE ~SameAttr(x, attr) /\ ~Exists(x)
  <2> DEFINE w == [x EXCEPT !.ri.attr = attr]
             y == SetValid(w, valid)
  <2>1. /\ w \in RouteSet /\ w.ri.flags = x.ri.flags /\ w.ri.attr = attr
        /\ w.ri.damp = x.ri.damp
    BY Zenon, AttrEdits DEF Kept
  <2> HIDE DEF w
  <2>2. Kept(w)
    BY <2>1, Zenon DEF Kept
  <2>3. NewUpdate(x, p, attr, valid) \in {y, bgp_process(y)}
    BY Zenon DEF NewUpdate, y, w
  <2>4. bgp_update_main(x, p, attr, valid, penalty) = NewUpdate(x, p, attr, valid)
    BY <1>4, Zenon DEF bgp_update_main
  <2> QED BY <1>0, <1>1, <2>1, <2>2, <2>3, <2>4, SMTT(60)
<1> QED BY <1>2, <1>3, <1>4, Zenon

-----------------------------------------------------------------------------
(* Clearing: every handler preserves ClearInv.                             *)

(* A route that a handler finds in the table.                              *)
LEMMA RouteKept ==
  ASSUME ClearInv, NEW n \in Prefixes, NEW p \in Peers
  PROVE  /\ Kept(Route(n, p)) /\ Route(n, p).ri = info[n][p] /\ ~Route(n, p).process
         /\ info[n][p] \in Info
<1>1. info[n][p] \in Info /\ pcount[p] \in Nat /\ Sound(info[n][p])
  BY DEF ClearInv, IInv, TypeOK
<1>2. /\ Route(n, p) \in RouteSet /\ Route(n, p).ri = info[n][p]
      /\ Route(n, p).process = FALSE
  BY <1>1, Zenon DEF Route, RouteSet
<1> QED BY <1>1, <1>2, Zenon DEF Kept, Sound

(* Commit leaves sound paths when the handlers do.                         *)
LEMMA CommitSound ==
  ASSUME ClearInv, NEW R, Commit(R),
         \A n \in Prefixes, p \in Peers :
           Kept(R[n][p]) /\ (R[n][p].ri.attr = NoAttr => R[n][p].ri = info[n][p])
  PROVE  \A n \in Prefixes, p \in Peers : info'[n][p] = R[n][p].ri /\ Sound(info'[n][p])
<1> SUFFICES ASSUME NEW n \in Prefixes, NEW p \in Peers
             PROVE  info'[n][p] = R[n][p].ri /\ Sound(info'[n][p])
  BY Zenon
<1>1. info'[n][p] = R[n][p].ri
  BY Zenon DEF Commit
<1>2. Sound(info[n][p])
  BY Zenon DEF ClearInv
<1> QED BY <1>1, <1>2 DEF Sound, Kept

(* The same for a handler of one route.                                    *)
LEMMA CommitOneSound ==
  ASSUME ClearInv, NEW n \in Prefixes, NEW p \in Peers, NEW x, CommitOne(n, p, x), Kept(x),
         x.ri.attr = NoAttr => x.ri = info[n][p]
  PROVE  /\ \A m \in Prefixes, q \in Peers : Sound(info'[m][q])
         /\ info'[n][p] = x.ri
         /\ \A m \in Prefixes, q \in Peers : <<m, q>> # <<n, p>> => info'[m][q] = info[m][q]
<1> DEFINE R == [m \in Prefixes |-> [q \in Peers |->
                   IF m = n /\ q = p THEN x ELSE Route(m, q)]]
<1>1. ASSUME NEW m \in Prefixes, NEW q \in Peers
      PROVE  /\ Kept(R[m][q]) /\ (R[m][q].ri.attr = NoAttr => R[m][q].ri = info[m][q])
             /\ <<m, q>> # <<n, p>> => R[m][q].ri = info[m][q]
             /\ R[n][p] = x
  BY RouteKept, Zenon
<1>2. Commit(R)
  BY Zenon DEF CommitOne
<1> HIDE DEF R
<1> QED BY <1>1, <1>2, CommitSound, SMTT(60)

(* What is left to show of a step: the table is sound, and where a session *)
(* is down its paths are attended.                                         *)
LEMMA ClearStep ==
  ASSUME IInv', \A n \in Prefixes, p \in Peers : Sound(info'[n][p]),
         nsfwait' \subseteq nsf', \A p \in nsfwait' : session'[p] \in Down,
         \A n \in Prefixes, p \in Peers :
           session'[p] \in Down /\ info'[n][p].attr # NoAttr => Attended(n, p)'
  PROVE  ClearInv'
BY Zenon DEF ClearInv

(* Messages of a peer, whose session is up.                                *)
LEMMA MessageClear ==
  ASSUME ClearInv, IInv', NEW p \in Peers, NEW n \in Prefixes,
         bgp_update(p, n) \/ bgp_update_filtered(p, n) \/ bgp_withdraw_receive(p, n)
  PROVE  ClearInv'
<1> DEFINE x == Route(n, p)
<1>1. /\ Kept(x) /\ x.ri = info[n][p]
      /\ session \in [Peers -> Sessions] /\ nsfwait \subseteq nsf /\ nsfwait \subseteq Peers
      /\ \A q \in nsfwait : session[q] \in Down
  BY RouteKept, Zenon DEF ClearInv, IInv, TypeOK
<1>2. session[p] \in {"Established", "Notified"}
  BY Zenon DEF bgp_update, bgp_update_filtered, bgp_withdraw_receive, Reads
<1>3. /\ UNCHANGED <<nsf, nsfwait, clearq>>
      /\ session' = session \/ session' = [session EXCEPT ![p] = "Overflow"]
  BY Zenon DEF bgp_update, bgp_update_filtered, bgp_withdraw_receive, session_vars
<1>4. \E y : /\ CommitOne(n, p, y) /\ Kept(y)
             /\ y.ri.attr = NoAttr => y.ri = info[n][p]
  <2>1. CASE bgp_update(p, n)
    <3>1. PICK attr \in Attrs, valid \in BOOLEAN, penalty \in PenaltyFor(x) :
            CommitOne(n, p, bgp_update_main(x, p, attr, valid, penalty))
      BY <2>1, ZenonT(60) DEF bgp_update
    <3> QED BY <1>1, <3>1, UpdateKept, Zenon
  <2>2. CASE bgp_update_filtered(p, n)
    <3>1. CommitOne(n, p, bgp_rib_remove(x)) /\ x.ri.attr # NoAttr
      BY <2>2, Zenon DEF bgp_update_filtered, Exists
    <3> QED BY <1>1, <3>1, RemoveSpends, Zenon
  <2>3. CASE bgp_withdraw_receive(p, n)
    <3>1. PICK penalty \in PenaltyFor(x) : CommitOne(n, p, bgp_withdraw(x, penalty))
      BY <2>3, Zenon DEF bgp_withdraw_receive
    <3> QED BY <1>1, <3>1, WithdrawKept DEF Exists
  <2> QED BY <2>1, <2>2, <2>3, Zenon
<1>5. /\ \A m \in Prefixes, q \in Peers : Sound(info'[m][q])
      /\ \A m \in Prefixes, q \in Peers : <<m, q>> # <<n, p>> => info'[m][q] = info[m][q]
  BY <1>4, CommitOneSound, Zenon
<1>6. session'[p] \notin Down /\ \A q \in Peers \ {p} : session'[q] = session[q]
  BY <1>1, <1>2, <1>3, Zenon DEF Down
<1>7. p \notin nsfwait
  BY <1>1, <1>2, Zenon DEF Down
<1>8. ASSUME NEW m \in Prefixes, NEW q \in Peers,
             session'[q] \in Down, info'[m][q].attr # NoAttr
      PROVE  Attended(m, q)'
  <2>1. q # p
    BY <1>6, <1>8, Zenon
  <2>2. info'[m][q] = info[m][q] /\ session'[q] = session[q]
    BY <1>5, <1>6, <2>1, Zenon
  <2>3. Attended(m, q)
    BY <1>8, <2>2, Zenon DEF ClearInv
  <2> QED BY <1>3, <2>2, <2>3, Zenon DEF Attended
<1>9. nsfwait' \subseteq nsf' /\ \A q \in nsfwait' : session'[q] \in Down
  BY <1>1, <1>3, <1>6, <1>7, Zenon
<1> QED BY <1>5, <1>8, <1>9, ClearStep, Zenon

(* Clearing of one node.                                                   *)
LEMMA NodeClear ==
  ASSUME ClearInv, IInv', NEW p \in Peers, NEW n \in Prefixes, ClearRouteNode(p, n)
  PROVE  ClearInv'
<1> DEFINE x == Route(n, p)
           waiting == p \in nsfwait \cap nsf
           y == bgp_clear_route_node(x, waiting)
<1>1. /\ Kept(x) /\ x.ri = info[n][p] /\ nsfwait \subseteq nsf
      /\ \A q \in nsfwait : session[q] \in Down
  BY RouteKept, Zenon DEF ClearInv
<1>2. /\ UNCHANGED <<nsf, nsfwait, session>> /\ clearq' = clearq \ {<<p, n>>}
      /\ CommitOne(n, p, y)
  BY Zenon DEF ClearRouteNode
<1>3. waiting \in BOOLEAN
  BY SMTT(60)
<1> HIDE DEF waiting
<1>4. /\ Kept(y) /\ y.ri.attr = x.ri.attr
      /\ x.ri.attr = NoAttr => y = x
      /\ x.ri.attr # NoAttr => Spent(y.ri) \/ (waiting /\ "STALE" \in y.ri.flags)
  BY <1>1, <1>3, ClearSpends, Zenon DEF Exists
<1> HIDE DEF x, y
<1>5. /\ \A m \in Prefixes, q \in Peers : Sound(info'[m][q])
      /\ info'[n][p] = y.ri
      /\ \A m \in Prefixes, q \in Peers : <<m, q>> # <<n, p>> => info'[m][q] = info[m][q]
  BY <1>1, <1>2, <1>4, CommitOneSound
<1>6. ASSUME NEW m \in Prefixes, NEW q \in Peers,
             session'[q] \in Down, info'[m][q].attr # NoAttr
      PROVE  Attended(m, q)'
  <2>1. CASE <<m, q>> = <<n, p>>
    BY <1>1, <1>2, <1>4, <1>5, <1>6, <2>1, Zenon DEF Attended, waiting
  <2>2. CASE <<m, q>> # <<n, p>>
    <3>1. Attended(m, q) /\ info'[m][q] = info[m][q]
      BY <1>2, <1>5, <1>6, <2>2 DEF ClearInv
    <3> QED BY <1>2, <2>2, <3>1, Zenon DEF Attended
  <2> QED BY <2>1, <2>2, Zenon
<1> QED BY <1>1, <1>2, <1>5, <1>6, ClearStep, Zenon

(* bgp_process_main on the paths of its node: freed when removed, else     *)
(* marked as selected or not.                                              *)
Marked(ri, sel) ==
  IF sel THEN [ri EXCEPT !.flags = (@ \cup {"SELECTED"}) \ {"ATTR_CHANGED"}]
  ELSE [ri EXCEPT !.flags = @ \ {"SELECTED"}]

(* What that leaves of a path.                                             *)
LEMMA MarkedFields ==
  ASSUME NEW ri \in Info, NEW sel \in BOOLEAN
  PROVE  /\ Marked(ri, sel) \in Info
         /\ Marked(ri, sel).attr = ri.attr /\ Marked(ri, sel).damp = ri.damp
         /\ Marked(ri, sel).flags = IF sel THEN (ri.flags \cup {"SELECTED"}) \ {"ATTR_CHANGED"}
                                    ELSE ri.flags \ {"SELECTED"}
BY Zenon DEF Marked, Info, Flags

(* A path that is not there is not marked.                                 *)
LEMMA MarkedAbsent ==
  ASSUME NEW sel, ~sel
  PROVE  Marked(NoInfo, sel) = NoInfo
<1>1. Marked(NoInfo, sel) = [NoInfo EXCEPT !.flags = {}]
  BY Zenon DEF Marked, NoInfo
<1> QED BY <1>1, Zenon DEF NoInfo

(* The two ways bgp_process_main ends.                                     *)
LEMMA ProcessCells ==
  ASSUME TypeOK, NEW n \in Prefixes, bgp_process_main(n)
  PROVE  /\ \A m \in Prefixes \ {n} : info'[m] = info[m]
         /\ \E list \in Lists :
              \/ /\ NothingToDo(n, Selected(n), bgp_best_selection(n, list))
                 /\ KeepSelected(n, Selected(n))
                 /\ \A p \in Peers :
                      info'[n][p] = IF p \in Reaped(n, Selected(n)) THEN NoInfo ELSE info[n][p]
              \/ /\ ~NothingToDo(n, Selected(n), bgp_best_selection(n, list))
                 /\ Reselect(n, bgp_best_selection(n, list))
                 /\ \A p \in Peers :
                      info'[n][p] = IF p \in Reaped(n, {}) THEN NoInfo
                                    ELSE Marked(info[n][p], p \in bgp_best_selection(n, list))
<1>0. PICK list \in Lists :
        IF NothingToDo(n, Selected(n), bgp_best_selection(n, list))
        THEN KeepSelected(n, Selected(n)) ELSE Reselect(n, bgp_best_selection(n, list))
  BY Zenon DEF bgp_process_main
<1> DEFINE old == Selected(n)
           new == bgp_best_selection(n, list)
<1>1. info \in [Prefixes -> [Peers -> Info]]
  BY Zenon DEF TypeOK
<1>2. IF NothingToDo(n, old, new) THEN KeepSelected(n, old) ELSE Reselect(n, new)
  BY <1>0, Zenon
<1> HIDE DEF old, new
<1>3. CASE NothingToDo(n, old, new)
  <2>1. info' = [info EXCEPT ![n] =
                  [p \in Peers |-> IF p \in Reaped(n, old) THEN NoInfo ELSE info[n][p]]]
    BY <1>2, <1>3, Zenon DEF KeepSelected
  <2> QED BY <1>1, <1>2, <1>3, <2>1, Zenon DEF old, new
<1>4. CASE ~NothingToDo(n, old, new)
  <2>1. info' = [info EXCEPT ![n] = [p \in Peers |->
                   IF p \in Reaped(n, {}) THEN NoInfo ELSE Marked(info[n][p], p \in new)]]
    BY Zenon, <1>2, <1>4 DEF Reselect, Marked
  <2> QED BY <1>1, <1>2, <1>4, <2>1, Zenon DEF old, new
<1> QED BY <1>3, <1>4, Zenon

(* The decision process frees removed paths and no others.                 *)
LEMMA ProcessClear ==
  ASSUME Counting, ClearInv, IInv', NEW n \in Prefixes, bgp_process_main(n)
  PROVE  ClearInv'
<1>1. /\ TypeOK /\ nsfwait \subseteq nsf /\ \A q \in nsfwait : session[q] \in Down
      /\ UNCHANGED <<session, nsf, nsfwait, clearq>>
  <2>1. TypeOK /\ nsfwait \subseteq nsf /\ \A q \in nsfwait : session[q] \in Down
    BY Zenon DEF ClearInv, IInv
  <2>2. UNCHANGED <<session, nsf, nsfwait, clearq>>
    BY Zenon DEF bgp_process_main, session_vars
  <2> QED BY <2>1, <2>2, Zenon
<1>2. ASSUME NEW m \in Prefixes, NEW p \in Peers
      PROVE  \/ info'[m][p] = NoInfo
             \/ info'[m][p] = info[m][p]
             \/ /\ info[m][p].attr # NoAttr
                /\ info'[m][p].attr = info[m][p].attr /\ info'[m][p].damp = info[m][p].damp
                /\ \A g \in {"REMOVED", "HISTORY", "STALE"} :
                     g \in info'[m][p].flags <=> g \in info[m][p].flags
  <2>1. CASE m # n
    BY <1>1, <2>1, ProcessCells, Zenon
  <2>2. CASE m = n
    <3>0. PICK list \in Lists :
             \/ info'[m][p] = NoInfo \/ info'[m][p] = info[m][p]
             \/ info'[m][p] = Marked(info[m][p], p \in bgp_best_selection(n, list))
      BY <1>1, <2>2, ProcessCells, Zenon
    <3> DEFINE new == bgp_best_selection(n, list)
    <3>1. \/ info'[m][p] = NoInfo \/ info'[m][p] = info[m][p]
          \/ info'[m][p] = Marked(info[m][p], p \in new)
      BY <3>0, Zenon
    <3>5. new \subseteq Usable(n)
      BY BestUsable, Zenon
    <3> HIDE DEF new
    <3>2. info[m][p] \in Info /\ (p \in new) \in BOOLEAN
      BY <1>1, SMTT(60) DEF TypeOK
    <3>3. CASE info[m][p].attr # NoAttr
      <4>1. /\ Marked(info[m][p], p \in new).attr = info[m][p].attr
            /\ Marked(info[m][p], p \in new).damp = info[m][p].damp
            /\ Marked(info[m][p], p \in new).flags =
                 IF p \in new
                 THEN (info[m][p].flags \cup {"SELECTED"}) \ {"ATTR_CHANGED"}
                 ELSE info[m][p].flags \ {"SELECTED"}
        BY Zenon, <3>2, MarkedFields
      <4> QED BY <3>1, <3>3, <4>1, Zenon
    <3>4. CASE info[m][p].attr = NoAttr
      <4>1. info[m][p] = NoInfo
        BY <3>4, Zenon DEF ClearInv, Sound
      <4>2. p \notin new
        BY <2>2, <3>5, <4>1, SMTT(60) DEF Usable, HOLDDOWN, NoInfo
      <4>3. Marked(info[m][p], p \in new) = NoInfo
        BY Zenon, <4>1, <4>2, MarkedAbsent
      <4> QED BY <3>1, <4>3, Zenon
    <3> QED BY <3>3, <3>4, Zenon
  <2> QED BY <2>1, <2>2, Zenon
<1>3. \A m \in Prefixes, p \in Peers : Sound(info'[m][p])
  <2> SUFFICES ASSUME NEW m \in Prefixes, NEW p \in Peers PROVE Sound(info'[m][p])
    BY Zenon
  <2>1. Sound(info[m][p])
    BY Zenon DEF ClearInv
  <2>2. CASE info'[m][p] = NoInfo
    BY <2>2, SMTT(60) DEF Sound, NoInfo
  <2> QED BY <1>2, <2>1, <2>2, Zenon DEF Sound
<1>4. ASSUME NEW m \in Prefixes, NEW q \in Peers,
             session'[q] \in Down, info'[m][q].attr # NoAttr
      PROVE  Attended(m, q)'
  <2>1. /\ info[m][q].attr # NoAttr
        /\ \A g \in {"REMOVED", "HISTORY", "STALE"} :
             g \in info'[m][q].flags <=> g \in info[m][q].flags
    BY <1>2, <1>4, SMTT(60) DEF NoInfo
  <2>2. Attended(m, q)
    BY <1>1, <1>4, <2>1, Zenon DEF ClearInv
  <2> QED BY <1>1, <2>1, <2>2, Zenon DEF Attended, Spent
<1> QED BY <1>1, <1>3, <1>4, ClearStep, Zenon

(* Sweeping the stale paths of a peer spends them.                         *)
LEMMA SweepSpends ==
  ASSUME ClearInv, NEW p \in Peers, NEW swept \in BOOLEAN, Sweep(p, swept)
  PROVE  \A n \in Prefixes, q \in Peers :
           /\ Sound(info'[n][q])
           /\ info'[n][q].attr = info[n][q].attr
           /\ q # p => info'[n][q] = info[n][q]
           /\ Spent(info[n][q]) => Spent(info'[n][q])
           /\ "STALE" \in info[n][q].flags => "STALE" \in info'[n][q].flags
           /\ swept /\ "STALE" \in info[n][p].flags => Spent(info'[n][p])
<1> DEFINE R == [n \in Prefixes |-> [q \in Peers |->
                   IF q = p /\ swept THEN bgp_clear_stale_route(Route(n, q)) ELSE Route(n, q)]]
<1>1. ASSUME NEW n \in Prefixes, NEW q \in Peers
      PROVE  /\ Persists(Route(n, q), R[n][q])
             /\ R[n][q].ri.attr = NoAttr => R[n][q].ri = info[n][q]
             /\ q # p => R[n][q].ri = info[n][q]
             /\ q = p /\ swept /\ "STALE" \in info[n][p].flags => Spent(R[n][p].ri)
  <2> DEFINE x == Route(n, q)
             y == bgp_clear_stale_route(x)
  <2>1. Kept(x) /\ x.ri = info[n][q] /\ Persists(x, x)
    BY RouteKept, Zenon DEF Persists
  <2> HIDE DEF x
  <2>2. /\ Persists(x, y)
        /\ "STALE" \in x.ri.flags => Spent(y.ri)
        /\ "STALE" \notin x.ri.flags => y = x
    BY <2>1, ClearSpends, SMTT(60)
  <2>3. x.ri.attr = NoAttr => "STALE" \notin x.ri.flags
    BY <2>1 DEF ClearInv, Sound, NoInfo
  <2>4. y.ri.attr = NoAttr => y = x
    BY <2>2, <2>3, Zenon DEF Persists
  <2> HIDE DEF y
  <2>5. R[n][q] = IF q = p /\ swept THEN y ELSE x
    BY Zenon DEF x, y
  <2> HIDE DEF R
  <2> QED BY <2>1, <2>2, <2>4, <2>5, Zenon DEF x
<1>2. Commit(R)
  BY Zenon DEF Sweep
<1> HIDE DEF R
<1>3. \A n \in Prefixes, q \in Peers : info'[n][q] = R[n][q].ri /\ Sound(info'[n][q])
  BY <1>1, <1>2, CommitSound, SMTT(60) DEF Persists
<1>4. \A n \in Prefixes, q \in Peers : Route(n, q).ri = info[n][q]
  BY RouteKept, Zenon
<1> QED BY <1>1, <1>3, <1>4, SMTT(60) DEF Persists

(* Sessions that come up and go down, and the timers of graceful restart.  *)
LEMMA SessionClear ==
  ASSUME ClearInv, IInv', NEW p \in Peers,
         \/ bgp_route_refresh_receive(p) \/ bgp_write(p) \/ bgp_establish(p) \/ bgp_stop(p)
         \/ bgp_clearing_completed(p) \/ bgp_graceful_restart_timer_expire(p)
         \/ bgp_graceful_stale_timer_expire(p)
  PROVE  ClearInv'
<1>1. /\ session \in [Peers -> Sessions] /\ nsfwait \subseteq nsf /\ nsfwait \subseteq Peers
      /\ \A q \in nsfwait : session[q] \in Down
      /\ \A m \in Prefixes, q \in Peers : Sound(info[m][q])
      /\ \A m \in Prefixes, q \in Peers :
           session[q] \in Down /\ info[m][q].attr # NoAttr => Attended(m, q)
  BY Zenon DEF ClearInv, IInv, TypeOK
<1>2. CASE bgp_route_refresh_receive(p) \/ bgp_write(p)
  <2>1. UNCHANGED <<info, session, nsf, nsfwait, clearq>>
    BY <1>2, Zenon DEF bgp_route_refresh_receive, bgp_write, session_vars
  <2>2. \A m \in Prefixes, q \in Peers : Attended(m, q)' <=> Attended(m, q)
    BY <2>1, ZenonT(60) DEF Attended
  <2> QED BY <1>1, <2>1, <2>2, ZenonT(60) DEF ClearInv
<1>3. CASE bgp_establish(p)
  <2>1. PICK restart \in BOOLEAN, preserve \in BOOLEAN :
          /\ Sweep(p, p \in nsf /\ ~(restart /\ preserve))
          /\ nsf' = IF restart THEN nsf \cup {p} ELSE nsf \ {p}
    BY <1>3, Zenon DEF bgp_establish
  <2>2. PICK swept \in BOOLEAN : Sweep(p, swept)
    BY <2>1, Zenon
  <2>3. \A m \in Prefixes, q \in Peers :
          /\ Sound(info'[m][q])
          /\ q # p => info'[m][q] = info[m][q]
    BY <2>2, SweepSpends
  <2>4. /\ nsfwait' = nsfwait \ {p} /\ session' = [session EXCEPT ![p] = "Established"]
        /\ clearq' = clearq
    BY <1>3, Zenon DEF bgp_establish
  <2>5. session'[p] \notin Down /\ \A q \in Peers \ {p} : session'[q] = session[q]
    BY <1>1, <2>4, Zenon DEF Down
  <2>6. nsfwait' \subseteq nsf' /\ \A q \in nsfwait' : session'[q] \in Down
    BY <1>1, <2>1, <2>4, <2>5, Zenon
  <2>7. ASSUME NEW m \in Prefixes, NEW q \in Peers,
               session'[q] \in Down, info'[m][q].attr # NoAttr
        PROVE  Attended(m, q)'
    <3>1. q # p /\ info'[m][q] = info[m][q] /\ session'[q] = session[q]
      BY <2>3, <2>5, <2>7, Zenon
    <3>2. Attended(m, q)
      BY <1>1, <2>7, <3>1, Zenon
    <3> QED BY <2>4, <3>1, <3>2, Zenon DEF Attended
  <2> QED BY <2>3, <2>6, <2>7, ClearStep, Zenon
<1>4. CASE bgp_stop(p)
  <2>1. /\ session' = [session EXCEPT ![p] = "Clearing"] /\ info' = info
        /\ clearq' = clearq \cup {<<p, m>> : m \in {k \in Prefixes : Exists(Route(k, p))}}
        /\ nsfwait' \subseteq nsfwait \cup {p} /\ nsfwait \subseteq nsfwait'
        /\ nsf' = IF p \in nsfwait' THEN nsf ELSE nsf \ {p}
        /\ p \in nsfwait' => p \in nsfwait \/ p \in nsf
    <3>1. PICK lost \in BOOLEAN :
            /\ nsfwait' = IF lost /\ p \in nsf THEN nsfwait \cup {p} ELSE nsfwait
            /\ nsf' = IF p \in nsfwait' THEN nsf ELSE nsf \ {p}
      BY Zenon, <1>4 DEF bgp_stop
    <3>2. /\ session' = [session EXCEPT ![p] = "Clearing"] /\ info' = info
          /\ clearq' = clearq \cup {<<p, m>> : m \in {k \in Prefixes : Exists(Route(k, p))}}
      BY Zenon, <1>4 DEF bgp_stop
    <3> QED BY <3>1, <3>2, Zenon
  <2>2. nsfwait' \subseteq nsf' /\ \A q \in nsfwait' : session'[q] \in Down
    BY <1>1, <2>1, Zenon DEF Down
  <2>3. ASSUME NEW m \in Prefixes, NEW q \in Peers,
               session'[q] \in Down, info'[m][q].attr # NoAttr
        PROVE  Attended(m, q)'
    <3>1. CASE q = p
      <4>1. Route(m, p).ri = info[m][p]
        BY RouteKept, Zenon
      <4>2. <<p, m>> \in clearq'
        BY <2>1, <2>3, <3>1, <4>1, Zenon DEF Exists
      <4> QED BY <1>1, <2>1, <3>1, <4>2, SMTT(60) DEF Attended
    <3>2. CASE q # p
      <4>1. session'[q] = session[q]
        BY <1>1, <2>1, <3>2, Zenon
      <4>2. Attended(m, q)
        BY <1>1, <2>1, <2>3, <4>1, Zenon
      <4> QED BY <2>1, <4>1, <4>2, Zenon DEF Attended
    <3> QED BY <3>1, <3>2, Zenon
  <2> QED BY <1>1, <2>1, <2>2, <2>3, ClearStep, ZenonT(60)
<1>5. CASE bgp_clearing_completed(p)
  <2>1. /\ session' = [session EXCEPT ![p] = "Idle"] /\ session[p] = "Clearing"
        /\ FirstFamily => \A m \in Prefixes : <<p, m>> \notin clearq
        /\ UNCHANGED <<info, nsf, nsfwait, clearq>>
    BY <1>5, Zenon DEF bgp_clearing_completed
  <2>2. nsfwait' \subseteq nsf' /\ \A q \in nsfwait' : session'[q] \in Down
    BY <1>1, <2>1, Zenon DEF Down
  <2>3. ASSUME NEW m \in Prefixes, NEW q \in Peers,
               session'[q] \in Down, info'[m][q].attr # NoAttr
        PROVE  Attended(m, q)'
    <3>1. Attended(m, q) /\ (q # p => session'[q] = session[q])
      BY <1>1, <2>1, <2>3, Zenon DEF Down
    <3> QED BY <2>1, <3>1, Zenon DEF Attended
  <2> QED BY <1>1, <2>1, <2>2, <2>3, ClearStep, Zenon
<1>6. CASE bgp_graceful_restart_timer_expire(p)
  <2>1. /\ p \in nsfwait /\ Sweep(p, p \in nsf) /\ nsfwait' = nsfwait \ {p}
        /\ UNCHANGED <<session, nsf, clearq>>
    BY <1>6, Zenon DEF bgp_graceful_restart_timer_expire
  <2>2. PICK swept \in BOOLEAN : swept = (p \in nsf) /\ swept /\ Sweep(p, swept)
    BY Zenon, <1>1, <2>1
  <2>3. \A m \in Prefixes, q \in Peers :
          /\ Sound(info'[m][q])
          /\ info'[m][q].attr = info[m][q].attr
          /\ q # p => info'[m][q] = info[m][q]
          /\ Spent(info[m][q]) => Spent(info'[m][q])
          /\ "STALE" \in info[m][p].flags => Spent(info'[m][p])
    <3>1. \A m \in Prefixes, q \in Peers :
            /\ Sound(info'[m][q])
            /\ info'[m][q].attr = info[m][q].attr
            /\ q # p => info'[m][q] = info[m][q]
            /\ Spent(info[m][q]) => Spent(info'[m][q])
            /\ "STALE" \in info[m][q].flags => "STALE" \in info'[m][q].flags
            /\ swept /\ "STALE" \in info[m][p].flags => Spent(info'[m][p])
      BY ONLY SweepSpends, <2>2, ClearInv, p \in Peers, swept \in BOOLEAN, ZenonT(60)
    <3> QED BY <2>2, <3>1, Zenon
  <2>4. ASSUME NEW m \in Prefixes, NEW q \in Peers,
               session'[q] \in Down, info'[m][q].attr # NoAttr
        PROVE  Attended(m, q)'
    <3>1. Attended(m, q)
      BY <1>1, <2>1, <2>3, <2>4, SMTT(60)
    <3> QED BY <2>1, <2>3, <3>1, Zenon DEF Attended
  <2> QED BY <1>1, <2>1, <2>3, <2>4, ClearStep, Zenon
<1>7. CASE bgp_graceful_stale_timer_expire(p)
  <2>1. Sweep(p, TRUE) /\ UNCHANGED <<session, nsf, nsfwait, clearq>>
    BY <1>7, Zenon DEF bgp_graceful_stale_timer_expire, session_vars
  <2>2. \A m \in Prefixes, q \in Peers :
          /\ Sound(info'[m][q])
          /\ info'[m][q].attr = info[m][q].attr
          /\ Spent(info[m][q]) => Spent(info'[m][q])
          /\ "STALE" \in info[m][q].flags => "STALE" \in info'[m][q].flags
    BY <2>1, SweepSpends, ZenonT(60)
  <2>3. ASSUME NEW m \in Prefixes, NEW q \in Peers,
               session'[q] \in Down, info'[m][q].attr # NoAttr
        PROVE  Attended(m, q)'
    <3>1. Attended(m, q)
      BY <1>1, <2>1, <2>2, <2>3, Zenon
    <3> QED BY <2>1, <2>2, <3>1, Zenon DEF Attended
  <2> QED BY <1>1, <2>1, <2>2, <2>3, ClearStep, Zenon
<1> QED BY <1>2, <1>3, <1>4, <1>5, <1>6, <1>7, Zenon

(* The scanner and the reuse timer leave what became of a path as it is.   *)
LEMMA VisitClear ==
  ASSUME ClearInv, IInv', NEW R, Commit(R),
         \A n \in Prefixes, p \in Peers :
           /\ Persists(Route(n, p), R[n][p])
           /\ R[n][p].ri.attr = NoAttr => R[n][p].ri = info[n][p],
         UNCHANGED <<nsf, nsfwait, clearq>>, session' \in [Peers -> Sessions],
         \A p \in Peers : session'[p] = session[p] \/ (session[p] \notin Down /\ session'[p] \notin Down)
  PROVE  ClearInv'
<1>1. /\ nsfwait \subseteq nsf /\ nsfwait \subseteq Peers
      /\ \A q \in nsfwait : session[q] \in Down
  BY Zenon DEF ClearInv, IInv, TypeOK
<1>2. \A n \in Prefixes, p \in Peers : info'[n][p] = R[n][p].ri /\ Sound(info'[n][p])
  BY CommitSound, SMTT(60) DEF Persists
<1>3. ASSUME NEW m \in Prefixes, NEW q \in Peers,
             session'[q] \in Down, info'[m][q].attr # NoAttr
      PROVE  Attended(m, q)'
  <2>1. session'[q] = session[q]
    BY <1>3, Zenon
  <2>2. Route(m, q).ri = info[m][q]
    BY RouteKept, Zenon
  <2>3. /\ info'[m][q].attr = info[m][q].attr
        /\ Spent(info[m][q]) => Spent(info'[m][q])
        /\ "STALE" \in info[m][q].flags => "STALE" \in info'[m][q].flags
    BY <1>2, <2>2, ZenonT(60) DEF Persists
  <2>4. Attended(m, q)
    BY <1>3, <2>1, <2>3, ZenonT(60) DEF ClearInv
  <2> QED BY <2>1, <2>3, <2>4, Zenon DEF Attended
<1> QED BY <1>1, <1>2, <1>3, ClearStep, Zenon

(* bgp_scan.                                                               *)
LEMMA ScanClear ==
  ASSUME ClearInv, IInv', bgp_scan
  PROVE  ClearInv'
<1> DEFINE seen(reach, low, expired, n, p) ==
             ScanRoute(Route(n, p), info[n][p].attr \in reach,
                       IF <<n, p>> \in low THEN 0 ELSE 1, <<n, p>> \in expired)
           R(reach, low, expired) == [n \in Prefixes |-> [p \in Peers |->
             IF InTable(n) THEN bgp_process(seen(reach, low, expired, n, p))
             ELSE seen(reach, low, expired, n, p)]]
<1>1. PICK reach \in SUBSET Attrs, low \in SUBSET Damped, expired \in SUBSET Damped :
        Commit(R(reach, low, expired))
  BY Zenon DEF bgp_scan
<1>2. ASSUME NEW n \in Prefixes, NEW p \in Peers
      PROVE  /\ Persists(Route(n, p), R(reach, low, expired)[n][p])
             /\ R(reach, low, expired)[n][p].ri.attr = NoAttr =>
                  R(reach, low, expired)[n][p].ri = info[n][p]
  <2> DEFINE x == Route(n, p)
             y == seen(reach, low, expired, n, p)
  <2>1. Kept(x) /\ x.ri = info[n][p]
    BY RouteKept, Zenon
  <2>2. (info[n][p].attr \in reach) \in BOOLEAN /\ (<<n, p>> \in expired) \in BOOLEAN
    OBVIOUS
  <2>3. Persists(x, y) /\ (~Exists(x) => y = x)
    BY Zenon, <2>1, <2>2, ScanPersists
  <2> HIDE DEF x, seen
  <2>4. /\ bgp_process(y) \in RouteSet /\ bgp_process(y).ri = y.ri
    BY <2>3, ProcessEdits, Zenon DEF Persists, Kept
  <2>5. R(reach, low, expired)[n][p] \in {y, bgp_process(y)}
    BY Zenon
  <2> HIDE DEF R, y
  <2> QED BY <2>1, <2>3, <2>4, <2>5, Zenon DEF Persists, Kept, Exists, x
<1> HIDE DEF R, seen
<1>3. /\ session' = [p \in Peers |->
                       IF session[p] = "Established" /\ pcount[p] > Pmax
                       THEN "Notified" ELSE session[p]]
      /\ UNCHANGED <<nsf, nsfwait, clearq>>
  BY Zenon DEF bgp_scan
<1>4. session' \in [Peers -> Sessions]
  BY Zenon DEF IInv, TypeOK
<1>5. \A p \in Peers : session'[p] = session[p] \/ (session[p] \notin Down /\ session'[p] \notin Down)
  BY <1>3, Zenon DEF Down
<1> QED BY <1>1, <1>2, <1>3, <1>4, <1>5, VisitClear, Zenon

(* bgp_reuse_timer.                                                        *)
LEMMA ReuseClear ==
  ASSUME ClearInv, IInv', bgp_reuse_timer
  PROVE  ClearInv'
<1> DEFINE R(S, penalty) == [n \in Prefixes |-> [p \in Peers |->
             IF <<n, p>> \in S THEN ReuseRoute(Route(n, p), penalty[<<n, p>>])
             ELSE Route(n, p)]]
<1>1. PICK S \in SUBSET Suppressed, penalty \in [Suppressed -> 0 .. 2] : Commit(R(S, penalty))
  BY Zenon DEF bgp_reuse_timer
<1>2. ASSUME NEW n \in Prefixes, NEW p \in Peers
      PROVE  /\ Persists(Route(n, p), R(S, penalty)[n][p])
             /\ R(S, penalty)[n][p].ri.attr = NoAttr => R(S, penalty)[n][p].ri = info[n][p]
  <2> DEFINE x == Route(n, p)
             y == ReuseRoute(x, penalty[<<n, p>>])
  <2>1. Kept(x) /\ x.ri = info[n][p] /\ Persists(x, x)
    BY RouteKept, Zenon DEF Persists
  <2> HIDE DEF x
  <2>2. Persists(x, y)
    BY <2>1, ReusePersists, Zenon
  <2>3. <<n, p>> \in S => info[n][p].attr # NoAttr
    BY <1>1 DEF Suppressed, ClearInv, Sound, NoInfo
  <2> HIDE DEF y
  <2>4. R(S, penalty)[n][p] = IF <<n, p>> \in S THEN y ELSE x
    BY Zenon DEF x, y
  <2> HIDE DEF R
  <2> QED BY <2>1, <2>2, <2>3, <2>4, Zenon DEF Persists, x
<1> HIDE DEF R
<1>3. UNCHANGED <<nsf, nsfwait, clearq, session>>
  BY Zenon DEF bgp_reuse_timer, session_vars
<1>4. session' \in [Peers -> Sessions]
  BY Zenon DEF IInv, TypeOK
<1> QED BY <1>1, <1>2, <1>3, <1>4, VisitClear, Zenon

(* All together.                                                           *)
LEMMA ClearNext ==
  ASSUME Counting, Sizes, ClearInv, [Next]_vars
  PROVE  ClearInv'
<1>0. IInv'
  BY NextInv, Zenon DEF ClearInv
<1>1. CASE UNCHANGED vars
  BY <1>0, <1>1, Zenon DEF ClearInv, Attended, vars, session_vars
<1>2. CASE \E p \in Peers, n \in Prefixes :
             \/ bgp_update(p, n) \/ bgp_update_filtered(p, n)
             \/ bgp_withdraw_receive(p, n) \/ ClearRouteNode(p, n)
  BY <1>0, <1>2, MessageClear, NodeClear, Zenon
<1>3. CASE \E n \in Prefixes : bgp_process_main(n)
  BY <1>0, <1>3, ProcessClear, Zenon
<1>4. CASE \E p \in Peers :
             \/ bgp_route_refresh_receive(p) \/ bgp_write(p) \/ bgp_establish(p)
             \/ bgp_stop(p) \/ bgp_clearing_completed(p)
             \/ bgp_graceful_restart_timer_expire(p)
             \/ bgp_graceful_stale_timer_expire(p)
  BY <1>0, <1>4, SessionClear, Zenon
<1>5. CASE bgp_scan
  BY <1>0, <1>5, ScanClear, Zenon
<1>6. CASE bgp_reuse_timer
  BY <1>0, <1>6, ReuseClear, Zenon
<1> QED BY <1>1, <1>2, <1>3, <1>4, <1>5, <1>6, Zenon DEF Next

(* Nothing is in the table at the start.                                   *)
LEMMA ClearInit ==
  ASSUME Sizes, Init
  PROVE  ClearInv
<1>1. IInv
  BY InitInv, Zenon
<1>2. \A n \in Prefixes, p \in Peers : info[n][p] = NoInfo
  BY Zenon DEF Init
<1>3. \A n \in Prefixes, p \in Peers : Sound(info[n][p]) /\ info[n][p].attr = NoAttr
  BY <1>2 DEF Sound, NoInfo
<1> QED BY <1>1, <1>3, Zenon DEF ClearInv, Init
=============================================================================
