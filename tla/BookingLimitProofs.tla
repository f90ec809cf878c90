-------------------------- MODULE BookingLimitProofs --------------------------
(***************************************************************************)
(* The limit of active bookings (booking-policy.service.ts, ACTIVE_LIMIT)   *)
(* across the operations of BookingSeries, for every value of the           *)
(* constants: a series is admitted by one query per date, and the theorem   *)
(* says that those queries together bound what a user holds in the end.     *)
(***************************************************************************)
EXTENDS BookingSeriesProofs

-----------------------------------------------------------------------------
(* Counting.                                                                *)

\* A set of naturals has a least element, and a bounded one a greatest.
LEMMA LeastNatural ==
  ASSUME NEW S \in SUBSET Nat, S # {}
  PROVE  \E x \in S : \A y \in S : x <= y
<1> DEFINE R == OpToRel(<, Nat)
<1>1. IsWellFoundedOn(R, Nat)
  BY NatLessThanWellFounded
<1>2. \A x, y \in Nat : x < y => <<x, y>> \in R
  BY DEF OpToRel
<1> HIDE DEF R
<1>3. PICK x \in S : \A y \in S : ~ (<<y, x>> \in R)
  BY <1>1, WFMin
<1>4. \A y \in S : ~ (y < x) /\ y \in Nat /\ x \in Nat
  BY <1>2, <1>3
<1>5. QED
  BY <1>4

LEMMA GreatestNatural ==
  ASSUME NEW n \in Nat, NEW S \in SUBSET (0..n), S # {}
  PROVE  \E x \in S : \A y \in S : y <= x
<1> DEFINE T == {n - x : x \in S}
<1>1. T \in SUBSET Nat /\ T # {}
  <2>1. \A x \in S : x \in Nat /\ n - x \in Nat
    OBVIOUS
  <2>2. QED
    BY <2>1
<1>2. PICK z \in T : \A y \in T : z <= y
  BY <1>1, LeastNatural
<1>3. PICK x \in S : z = n - x
  OBVIOUS
<1>4. ASSUME NEW y \in S PROVE y <= x
  <2>1. n - x <= n - y
    BY <1>2, <1>3
  <2>2. x \in Int /\ y \in Int
    OBVIOUS
  <2>3. QED
    BY <2>1, <2>2
<1>5. QED
  BY <1>4

\* The rows that a user holds before and after a step.
Held(u) == {b \in BookingIds : Active(b) /\ data[b].user = u}
Holds(u) == {b \in BookingIds : status'[b] \in ActiveStatuses /\ data'[b].user = u}

\* The strengthening: only finitely many rows are active at a time, else to
\* count them would say nothing.
ActiveRows == {b \in BookingIds : Active(b)}
RowsFinite == IsFiniteSet(ActiveRows)

LEMMA HeldFinite ==
  ASSUME RowsFinite, NEW u, NEW except
  PROVE  /\ IsFiniteSet(ActiveOf(u, except)) /\ IsFiniteSet(Held(u))
         /\ Cardinality(ActiveOf(u, except)) \in Nat
         /\ Cardinality(Held(u)) \in Nat
         /\ Held(u) = ActiveOf(u, {})
<1>1. /\ ActiveOf(u, except) \in SUBSET ActiveRows
      /\ Held(u) \in SUBSET ActiveRows
  BY DEF ActiveOf, Held, ActiveRows
<1>2. Held(u) = ActiveOf(u, {})
  BY DEF Held, ActiveOf
<1>3. QED
  BY <1>1, <1>2, FS_Subset, FS_CardinalityType DEF RowsFinite

LEMMA LimitTyped ==
  ASSUME NEW u
  PROVE  ActiveLimit(u) \in Nat
BY PolicyAssumption DEF ActiveLimit

\* What SeriesLimitRespected says of a step that needs no admin.
WithinOwnLimit(u) ==
  \/ Cardinality(Holds(u)) <= Cardinality(Held(u))
  \/ Role[u] = "adminRole"
  \/ Cardinality(Holds(u)) <= ActiveLimit(u)

\* A user who holds nothing new holds no more.
LEMMA NothingNew ==
  ASSUME RowsFinite, NEW u, Holds(u) \in SUBSET Held(u)
  PROVE  WithinOwnLimit(u)
BY HeldFinite, FS_Subset DEF WithinOwnLimit

\* Rows in place of those of `except' and up to as many as `mine' counts.
LEMMA CountedNew ==
  ASSUME RowsFinite, NEW u, NEW except, NEW W, NEW mine,
         IsFiniteSet(mine), IsFiniteSet(W),
         Holds(u) \in SUBSET (ActiveOf(u, except) \cup W),
         Cardinality(W) <= Cardinality(mine),
         Cardinality(ActiveOf(u, except)) + Cardinality(mine) <= ActiveLimit(u)
  PROVE  Cardinality(Holds(u)) <= ActiveLimit(u)
<1> DEFINE A == ActiveOf(u, except)
<1>1. IsFiniteSet(A) /\ Cardinality(A) \in Nat
  BY HeldFinite
<1>2. /\ Cardinality(W) \in Nat /\ Cardinality(mine) \in Nat
      /\ ActiveLimit(u) \in Nat
  BY FS_CardinalityType, LimitTyped
<1>3. IsFiniteSet(A \cap W)
  BY <1>1, FS_Subset
<1>4. Cardinality(A \cap W) \in Nat
  BY <1>3, FS_CardinalityType
<1>5. /\ IsFiniteSet(A \cup W)
      /\ Cardinality(A \cup W) = Cardinality(A) + Cardinality(W)
                                   - Cardinality(A \cap W)
  BY <1>1, FS_Union
<1> HIDE DEF A
<1>6. /\ IsFiniteSet(Holds(u))
      /\ Cardinality(Holds(u)) <= Cardinality(A \cup W)
  BY <1>5, FS_Subset DEF A
<1>7. Cardinality(Holds(u)) \in Nat
  BY <1>6, FS_CardinalityType
<1>8. QED
  BY <1>1, <1>2, <1>4, <1>5, <1>6, <1>7 DEF A

LEMMA DatesFinite ==
  ASSUME NEW t \in Template, NEW D \in SUBSET Dates(t)
  PROVE  IsFiniteSet(D)
<1>1. D \in SUBSET (0..t.endDate) /\ t.endDate \in Nat
  BY DEF Template, Dates
<1>2. IsFiniteSet(0..t.endDate)
  BY <1>1, FS_Interval
<1>3. QED
  BY <1>1, <1>2, FS_Subset

\* What validateCreate counts at the last date of an operation covers all of
\* them: the limit is asked once for each date, with those before it written.
LEMMA LastDateCounts ==
  ASSUME RowsFinite, NEW u, NEW t \in Template, NEW D \in SUBSET Dates(t),
         NEW mine \in SUBSET D, mine # {}, NEW except,
         WithinLimit(u, D, mine, except), Role[u] # "adminRole"
  PROVE  Cardinality(ActiveOf(u, except)) + Cardinality(mine) <= ActiveLimit(u)
<1>1. t.endDate \in Nat /\ Dates(t) \in SUBSET (0..t.endDate)
  BY DEF Template, Dates
<1>2. mine \in SUBSET (0..t.endDate) /\ IsFiniteSet(mine)
  <2>1. mine \in SUBSET (0..t.endDate)
    BY <1>1
  <2>2. QED
    BY <2>1, DatesFinite
<1>3. PICK d \in mine : \A e \in mine : e <= d
  BY <1>1, <1>2, GreatestNatural
<1>4. {e \in mine : e < d} = mine \ {d}
  <2>1. \A e \in mine : e \in Int /\ d \in Int
    BY <1>2
  <2>2. QED
    BY <1>3, <2>1
<1>5. Cardinality(mine \ {d}) = Cardinality(mine) - 1
  BY <1>2, FS_RemoveElement
<1>6. Cardinality(ActiveOf(u, except)) + Cardinality({e \in mine : e < d})
        < ActiveLimit(u)
  BY <1>3 DEF WithinLimit
<1>7. /\ Cardinality(mine) \in Nat /\ ActiveLimit(u) \in Nat
      /\ Cardinality(ActiveOf(u, except)) \in Nat
  BY <1>2, FS_CardinalityType, LimitTyped, HeldFinite
<1> HIDE DEF ActiveLimit
<1>8. QED
  BY <1>4, <1>5, <1>6, <1>7

\* The rows an operation writes for user v.
WrittenFor(v, u, new, kept) ==
  {b \in DOMAIN new : u = v} \cup {b \in kept : data[b].user = v}

LEMMA RewriteHolds ==
  ASSUME NEW u, NEW s, NEW t, NEW first, NEW new,
         NEW kept \in SUBSET Editable(BookingIds), NEW gone,
         Rewrite(u, s, t, first, new, kept, gone), NEW v
  PROVE  /\ Holds(v) \in SUBSET (ActiveOf(v, kept \cup gone)
                                   \cup WrittenFor(v, u, new, kept))
         /\ u # v => Holds(v) \in SUBSET Held(v)
<1>1. ASSUME NEW b \in Holds(v)
      PROVE  /\ b \in ActiveOf(v, kept \cup gone)
                  \/ b \in WrittenFor(v, u, new, kept)
             /\ u # v => b \in Held(v)
  <2>1. /\ b \in BookingIds /\ status'[b] \in ActiveStatuses
        /\ data'[b].user = v
    BY DEF Holds
  <2>2. CASE b \in DOMAIN new
    BY <2>1, <2>2 DEF Rewrite, Occurrence, WrittenFor
  <2>3. CASE b \notin DOMAIN new /\ b \in kept
    BY <2>1, <2>3 DEF Rewrite, Occurrence, WrittenFor, Held, Active, Editable,
                      EditableStatuses, ActiveStatuses
  <2>4. CASE b \notin DOMAIN new /\ b \notin kept
    BY <2>1, <2>4 DEF Rewrite, ActiveOf, Held, Active, ActiveStatuses
  <2>5. QED
    BY <2>2, <2>3, <2>4
<1>2. QED
  BY <1>1

\* What an operation has made sure of when it asks for the limit of u: `mine'
\* are the dates at which u gets a row, one for each row.
Counted(u, s, t, first, new, kept, gone, D, mine) ==
  /\ kept \in SUBSET Editable(BookingIds)
  /\ Rewrite(u, s, t, first, new, kept, gone)
  /\ D \in SUBSET Dates(t) /\ mine \in SUBSET D
  /\ WithinLimit(u, D, mine, kept \cup gone)
  /\ \A b \in WrittenFor(u, u, new, kept) : DateOf(b, new) \in mine
  /\ \A b, c \in WrittenFor(u, u, new, kept) :
       b # c => DateOf(b, new) # DateOf(c, new)

\* Then u ends within that limit, or with nothing new.
LEMMA RewriteWithinLimit ==
  ASSUME RowsFinite, NEW u, NEW s, NEW t \in Template, NEW first, NEW new,
         NEW kept, NEW gone, NEW D, NEW mine,
         Counted(u, s, t, first, new, kept, gone, D, mine), NEW v
  PROVE  WithinOwnLimit(v)
<1> USE DEF Counted
<1> DEFINE W == WrittenFor(u, u, new, kept)
           except == kept \cup gone
           f == [b \in W |-> DateOf(b, new)]
<1>0. /\ Holds(v) \in SUBSET (ActiveOf(v, kept \cup gone)
                               \cup WrittenFor(v, u, new, kept))
      /\ u # v => Holds(v) \in SUBSET Held(v)
  BY RewriteHolds
<1>1. CASE u # v
  BY <1>0, <1>1, NothingNew
<1>2. CASE u = v /\ W = {}
  <2>1. Holds(v) \in SUBSET ActiveOf(v, except)
    BY <1>0, <1>2
  <2>2. ActiveOf(v, except) \in SUBSET Held(v)
    BY DEF ActiveOf, Held
  <2>3. QED
    BY <2>1, <2>2, NothingNew
<1>3. CASE u = v /\ W # {} /\ Role[u] # "adminRole"
  <2>1. IsFiniteSet(mine)
    BY DatesFinite
  <2>2. f \in Injection(W, mine)
    <3>1. f \in [W -> mine]
      OBVIOUS
    <3>2. \A b, c \in W : f[b] = f[c] => b = c
      OBVIOUS
    <3>3. QED
      BY <3>1, <3>2 DEF Injection, IsInjective
  <2> HIDE DEF f
  <2>3. IsFiniteSet(W) /\ Cardinality(W) <= Cardinality(mine)
    BY <2>1, <2>2, FS_Injection
  <2>4. mine # {}
    BY <1>3
  <2>5. Cardinality(ActiveOf(u, except)) + Cardinality(mine) <= ActiveLimit(u)
    BY <1>3, <2>4, LastDateCounts
  <2>6. Holds(u) \in SUBSET (ActiveOf(u, except) \cup W)
    BY <1>0, <1>3
  <2> HIDE DEF W, except
  <2>7. Cardinality(Holds(u)) <= ActiveLimit(u)
    BY <2>1, <2>3, <2>5, <2>6, CountedNew
  <2>8. QED
    BY <1>3, <2>7 DEF WithinOwnLimit
<1>4. CASE u = v /\ Role[u] = "adminRole"
  BY <1>4 DEF WithinOwnLimit
<1>5. QED
  BY <1>1, <1>2, <1>3, <1>4

\* What a step must show: nobody goes over the limit, but for the owner that
\* an admin acts for.
BoundedBut(owners) ==
  RowsFinite' /\ \A v \in Users \ owners : WithinOwnLimit(v)

LEMMA ActiveRowsGrow ==
  ASSUME RowsFinite, NEW A, IsFiniteSet(A),
         \A b \in BookingIds : Active(b)' => Active(b) \/ b \in A
  PROVE  RowsFinite'
<1>1. IsFiniteSet(ActiveRows \cup A)
  BY FS_Union DEF RowsFinite
<1>2. ActiveRows' \in SUBSET (ActiveRows \cup A)
  BY DEF ActiveRows
<1>3. QED
  BY <1>1, <1>2, FS_Subset DEF RowsFinite

\* Steps by which nobody gains an active booking.
Quiet ==
  \A b \in BookingIds :
    Active(b)' => Active(b) /\ data'[b].user = data[b].user

LEMMA QuietBounded ==
  ASSUME RowsFinite, Quiet
  PROVE  BoundedBut({})
<1>1. RowsFinite'
  BY FS_EmptySet, ActiveRowsGrow DEF Quiet
<1>2. \A v : Holds(v) \in SUBSET Held(v)
  BY DEF Quiet, Holds, Held, Active
<1>3. QED
  BY <1>1, <1>2, NothingNew DEF BoundedBut

\* One row for a user below the limit.
LEMMA RegistersBounded ==
  ASSUME TypeOK, RowsFinite, NEW b \in BookingIds, NEW req \in Row,
         NEW path \in Paths, Registers(b, req, path)
  PROVE  BoundedBut({})
<1>1. /\ status[b] = "NONE" /\ data'[b] = req
      /\ \A c \in BookingIds \ {b} : data'[c] = data[c] /\ status'[c] = status[c]
  BY DEF Registers, Insert, TypeOK
<1>2. RowsFinite'
  <2>1. IsFiniteSet({b})
    BY FS_Singleton
  <2>2. \A c \in BookingIds : Active(c)' => Active(c) \/ c \in {b}
    BY <1>1 DEF Active
  <2>3. QED
    BY <2>1, <2>2, ActiveRowsGrow
<1>3. ASSUME NEW v \in Users
      PROVE  WithinOwnLimit(v)
  <2>1. CASE v # req.user
    <3>1. Holds(v) \in SUBSET Held(v)
      BY <1>1, <2>1 DEF Holds, Held, Active
    <3>2. QED
      BY <3>1, NothingNew
  <2>2. CASE v = req.user /\ Role[v] = "adminRole"
    BY <2>2 DEF WithinOwnLimit
  <2>3. CASE v = req.user /\ Role[v] # "adminRole"
    <3>1. ~(Cardinality(Held(v)) >= ActiveLimit(v))
      BY <2>3, HeldFinite DEF Registers, AtLimit
    <3>2. /\ IsFiniteSet(Held(v)) /\ Cardinality(Held(v)) \in Nat
          /\ ActiveLimit(v) \in Nat
      BY HeldFinite, LimitTyped
    <3>3. /\ IsFiniteSet(Held(v) \cup {b})
          /\ Cardinality(Held(v) \cup {b}) <= Cardinality(Held(v)) + 1
      BY <3>2, FS_AddElement
    <3>4. Holds(v) \in SUBSET (Held(v) \cup {b})
      BY <1>1 DEF Holds, Held, Active
    <3>5. /\ Cardinality(Holds(v)) <= Cardinality(Held(v) \cup {b})
          /\ IsFiniteSet(Holds(v))
      BY <3>3, <3>4, FS_Subset
    <3>6. /\ Cardinality(Holds(v)) \in Nat
          /\ Cardinality(Held(v) \cup {b}) \in Nat
      BY <3>3, <3>5, FS_CardinalityType
    <3> HIDE DEF ActiveLimit
    <3>7. Cardinality(Holds(v)) <= ActiveLimit(v)
      BY <3>1, <3>2, <3>3, <3>5, <3>6
    <3>8. QED
      BY <3>7 DEF WithinOwnLimit
  <2>4. QED
    BY <2>1, <2>2, <2>3
<1>4. QED
  BY <1>2, <1>3 DEF BoundedBut

\* The steps of BookingService, whose own editor of occurrences stands still.
LEMMA ServiceBounded ==
  ASSUME TypeOK, RowsFinite, RowStep
  PROVE  BoundedBut({})
<1>1. CASE Keeps
  BY <1>1, QuietBounded DEF Keeps, Quiet, Active
<1>2. CASE \E b \in BookingIds, req \in Row, path \in Paths :
             Registers(b, req, path)
  BY <1>2, RegistersBounded
<1>3. ASSUME NEW b \in BookingIds, NEW to \in Statuses, MovesTo(b, to)
      PROVE  BoundedBut({})
  <2>1. Quiet
    BY <1>3 DEF MovesTo, SetStatus, CanMove, Quiet, Active, ActiveStatuses,
                TypeOK
  <2>2. QED
    BY <2>1, QuietBounded
<1>4. ASSUME NEW B \in SUBSET BookingIds, Withdraws(B)
      PROVE  BoundedBut({})
  <2>1. Quiet
    BY <1>4 DEF Withdraws, Withdraw, Quiet, Active, ActiveStatuses
  <2>2. QED
    BY <2>1, QuietBounded
<1>5. QED
  BY <1>1, <1>2, <1>3, <1>4, SeriesAssumption DEF RowStep

LEMMA PlacementsFinite ==
  ASSUME NEW D, IsFiniteSet(D), NEW new \in Placements(D)
  PROVE  IsFiniteSet(DOMAIN new)
<1>1. PICK B : new \in Bijection(B, D)
  BY DEF Placements
<1>2. new \in Injection(B, D) /\ DOMAIN new = B
  BY <1>1 DEF Bijection, Injection
<1>3. QED
  BY <1>2, FS_Injection

LEMMA RewriteFinite ==
  ASSUME RowsFinite, NEW u, NEW s, NEW t, NEW first, NEW new,
         NEW kept, NEW gone, IsFiniteSet(DOMAIN new),
         Rewrite(u, s, t, first, new, kept, gone)
  PROVE  RowsFinite'
<1>1. \A b \in BookingIds : Active(b)' => Active(b) \/ b \in DOMAIN new
  BY DEF Rewrite, Restored, Active, ActiveStatuses
<1>2. QED
  BY <1>1, ActiveRowsGrow

LEMMA CreateBounded ==
  ASSUME TypeOK, RowsFinite, NEW u \in Clients, NEW s \in SeriesIds,
         NEW t \in Templates, CreateSeries(u, s, t)
  PROVE  BoundedBut({})
<1> DEFINE D == Dates(t)
           first == FirstStatus(u, t.room)
<1>1. /\ t \in Template /\ D \in SUBSET Nat /\ IsFiniteSet(D)
      /\ first \in {"PENDING", "CONFIRMED"}
  BY SeriesAssumption, DatesTyped, DatesFinite, FirstStatusTyped
<1>2. PICK new \in Placements(D) : Rewrite(u, s, t, first, new, {}, {})
  BY DEF CreateSeries
<1>3. WithinLimit(u, D, D, {} \cup {})
  BY DEF CreateSeries, Accepted
<1>4. D \in SUBSET Dates(t)
  OBVIOUS
<1> HIDE DEF D, first
<1>5. /\ DOMAIN new \in SUBSET Free /\ new \in [DOMAIN new -> D]
      /\ \A b, c \in DOMAIN new : b # c => new[b] # new[c]
      /\ IsFiniteSet(DOMAIN new)
  BY <1>1, <1>2, PlacementsTyped, PlacementsFinite
<1>6. /\ \A b \in WrittenFor(u, u, new, {}) :
           DateOf(b, new) = new[b] /\ b \in DOMAIN new
  BY DEF WrittenFor, DateOf
<1>7. /\ \A b \in WrittenFor(u, u, new, {}) : DateOf(b, new) \in D
      /\ \A b, c \in WrittenFor(u, u, new, {}) :
           b # c => DateOf(b, new) # DateOf(c, new)
  BY <1>5, <1>6
<1>8. {} \in SUBSET Editable(BookingIds) /\ D \in SUBSET D
  OBVIOUS
<1>9. ASSUME NEW v \in Users
      PROVE  WithinOwnLimit(v)
  <2>1. Counted(u, s, t, first, new, {}, {}, D, D)
    BY <1>2, <1>3, <1>4, <1>7, <1>8 DEF Counted
  <2>2. QED
    BY <1>1, <2>1, RewriteWithinLimit
<1>10. QED
  BY <1>2, <1>5, <1>9, RewriteFinite DEF BoundedBut

LEMMA EditWholeBounded ==
  ASSUME TypeOK, SeriesTyped, MembersUnique, RowsFinite, NEW u \in Clients,
         NEW s \in SeriesIds, NEW patch \in Templates,
         EditWholeSeries(u, s, patch)
  PROVE  BoundedBut({})
<1> DEFINE t == Merged(patch, series[s].startDate)
           old == OldRows(s)
           D == {d \in Dates(t) : Occurrence(t, d, u).start > now}
           kept == {b \in old : member[b].date \in D}
           gone == old \ kept
           added == D \ DatesOf(old)
           own == {b \in kept : data[b].user = u}
           mine == added \cup DatesOf(own)
           first == FirstStatus(u, t.room)
<1>1. t \in Template /\ first \in {"PENDING", "CONFIRMED"}
  BY FirstStatusTyped, OwnerTyped, MergedTyped
<1>2. D \in SUBSET Dates(t) /\ added \in SUBSET D /\ mine \in SUBSET D
  BY DEF DatesOf
<1>3. /\ old \in SUBSET Editable(BookingIds) /\ old \in SUBSET InSeries(s)
      /\ kept \in SUBSET Editable(BookingIds)
      /\ gone \in SUBSET Editable(BookingIds)
      /\ kept \cup gone = old /\ kept \in SUBSET old
  BY DEF OldRows, Editable, InSeries
<1>4. WithinLimit(u, D, mine, kept \cup gone)
  BY <1>3 DEF EditWholeSeries, Accepted
<1>5. PICK new \in Placements(added) : Rewrite(u, s, t, first, new, kept, gone)
  BY DEF EditWholeSeries
<1>6. /\ \A b \in own : member[b].date \in mine /\ member[b].date \notin added
      /\ own = {b \in kept : data[b].user = u}
      /\ added \in SUBSET mine
  BY DEF DatesOf
<1>7. \A b \in kept, c \in kept : b # c => member[b].date # member[c].date
  BY <1>3 DEF InSeries, MembersUnique
<1>8. Dates(t) \in SUBSET Nat /\ IsFiniteSet(added) /\ added \in SUBSET Nat
  <2>1. Dates(t) \in SUBSET Nat
    BY <1>1, DatesTyped
  <2>2. IsFiniteSet(added)
    BY <1>1, <1>2, DatesFinite
  <2>3. QED
    BY <1>2, <2>1, <2>2
<1> HIDE DEF t, old, D, kept, gone, added, own, mine, first
<1>9. /\ DOMAIN new \in SUBSET Free /\ new \in [DOMAIN new -> added]
      /\ \A b, c \in DOMAIN new : b # c => new[b] # new[c]
      /\ IsFiniteSet(DOMAIN new)
  BY <1>5, <1>8, PlacementsTyped, PlacementsFinite
<1>10. \A b \in kept : b \notin DOMAIN new
  BY <1>3, <1>9 DEF Free, Editable, EditableStatuses
<1>11. \A b \in WrittenFor(u, u, new, kept) :
         \/ b \in DOMAIN new /\ DateOf(b, new) = new[b] /\ new[b] \in added
         \/ b \in own /\ b \in kept /\ DateOf(b, new) = member[b].date
  BY <1>6, <1>9, <1>10 DEF WrittenFor, DateOf
<1>12. /\ \A b \in WrittenFor(u, u, new, kept) : DateOf(b, new) \in mine
       /\ \A b, c \in WrittenFor(u, u, new, kept) :
            b # c => DateOf(b, new) # DateOf(c, new)
  <2>1. \A b \in WrittenFor(u, u, new, kept) : DateOf(b, new) \in mine
    BY <1>6, <1>11
  <2>2. \A b, c \in WrittenFor(u, u, new, kept) :
          b # c => DateOf(b, new) # DateOf(c, new)
    BY <1>6, <1>7, <1>9, <1>11
  <2>3. QED
    BY <2>1, <2>2
<1>13. ASSUME NEW v \in Users
       PROVE  WithinOwnLimit(v)
  <2>1. Counted(u, s, t, first, new, kept, gone, D, mine)
    BY <1>2, <1>3, <1>4, <1>5, <1>12 DEF Counted
  <2>2. QED
    BY <1>1, <2>1, RewriteWithinLimit
<1>14. QED
  BY <1>5, <1>9, <1>13, RewriteFinite DEF BoundedBut

\* An admin who splits somebody's series is asked for the admin's limit.
LEMMA SplitBounded ==
  ASSUME TypeOK, SeriesTyped, RowsFinite, NEW u \in Clients,
         NEW s \in SeriesIds, NEW n \in SeriesIds, NEW patch \in Templates,
         NEW p \in BookingIds, SplitSeries(u, s, n, patch, p)
  PROVE  BoundedBut(IF u \in Admins THEN {series[s].owner} ELSE {})
<1> DEFINE pivot == member[p].date
           owner == series[s].owner
           t == Merged(patch, pivot)
           D == Dates(t)
           old == {b \in Editable(InSeries(s)) : member[b].date >= pivot}
           first == FirstStatus(u, t.room)
<1>1. /\ t \in Template /\ D \in SUBSET Nat /\ IsFiniteSet(D)
      /\ first \in {"PENDING", "CONFIRMED"}
  <2>1. pivot \in Nat
    BY DEF SeriesTyped, Member
  <2>2. t \in Template
    BY <2>1, MergedTyped
  <2>3. QED
    BY <2>2, DatesTyped, DatesFinite, FirstStatusTyped
<1>2. PICK new \in Placements(D) : Rewrite(owner, n, t, first, new, {}, old)
  BY DEF SplitSeries
<1>3. /\ WithinLimit(u, D, IF u = owner THEN D ELSE {}, {} \cup old)
      /\ u \in Admins \/ owner = u
  BY DEF SplitSeries, Accepted, MayRewrite, MayManage
<1>4. D \in SUBSET Dates(t) /\ old \in SUBSET Editable(BookingIds)
  BY DEF Editable, InSeries
<1> HIDE DEF pivot, owner, t, D, old, first
<1>5. /\ DOMAIN new \in SUBSET Free /\ new \in [DOMAIN new -> D]
      /\ \A b, c \in DOMAIN new : b # c => new[b] # new[c]
      /\ IsFiniteSet(DOMAIN new)
  BY <1>1, <1>2, PlacementsTyped, PlacementsFinite
<1>6. \A b \in WrittenFor(owner, owner, new, {}) :
        DateOf(b, new) = new[b] /\ b \in DOMAIN new
  BY DEF WrittenFor, DateOf
<1>7. /\ \A b \in WrittenFor(owner, owner, new, {}) : DateOf(b, new) \in D
      /\ \A b, c \in WrittenFor(owner, owner, new, {}) :
           b # c => DateOf(b, new) # DateOf(c, new)
  BY <1>5, <1>6
<1>8. {} \in SUBSET Editable(BookingIds) /\ D \in SUBSET D
  OBVIOUS
<1>9. ASSUME NEW v \in Users, u = owner
      PROVE  WithinOwnLimit(v)
  <2>1. WithinLimit(owner, D, D, {} \cup old)
    BY <1>3, <1>9
  <2>2. Counted(owner, n, t, first, new, {}, old, D, D)
    BY <1>2, <1>4, <1>7, <1>8, <2>1 DEF Counted
  <2>3. QED
    BY <1>1, <2>2, RewriteWithinLimit
<1>10. ASSUME NEW v \in Users, v # owner
       PROVE  WithinOwnLimit(v)
  <2>1. Holds(v) \in SUBSET Held(v)
    BY <1>2, <1>8, <1>10, RewriteHolds
  <2>2. QED
    BY <2>1, NothingNew
<1>11. RowsFinite'
  BY <1>2, <1>5, RewriteFinite
<1>12. QED
  BY <1>3, <1>9, <1>10, <1>11 DEF BoundedBut, owner

\* The operations that end series or move one occurrence.
LEMMA OthersBounded ==
  ASSUME TypeOK, RowsFinite
  PROVE  /\ \A u, b, t, d : EditSeriesOccurrence(u, b, t, d) => BoundedBut({})
         /\ \A u, b : CancelOccurrence(u, b) => BoundedBut({})
         /\ \A u, s : CancelEntireSeries(u, s) => BoundedBut({})
         /\ \A u, s, p : CancelFutureOccurrences(u, s, p) => BoundedBut({})
         /\ PlanStep => BoundedBut({})
<1>1. ASSUME NEW B, Withdraw(B) PROVE BoundedBut({})
  <2>1. Quiet
    BY <1>1 DEF Withdraw, Quiet, Active, ActiveStatuses
  <2>2. QED
    BY <2>1, QuietBounded
<1>2. ASSUME NEW u, NEW b, NEW t, NEW d, EditSeriesOccurrence(u, b, t, d)
      PROVE  BoundedBut({})
  <2>1. /\ data' = [data EXCEPT ![b] = Occurrence(t, d, data[b].user)]
        /\ status' = status
    BY <1>2 DEF EditSeriesOccurrence
  <2>2. Quiet
    BY <2>1 DEF Quiet, Active, Occurrence, TypeOK
  <2>3. QED
    BY <2>2, QuietBounded
<1>3. ASSUME PlanStep PROVE BoundedBut({})
  <2>1. CASE \E x \in Deliveries : DowngradeCommits(x)
    <3>1. PICK B : /\ status' = [b \in BookingIds |->
                        IF b \in B THEN "CANCELLED" ELSE status[b]]
                   /\ data' = data
      BY <2>1 DEF DowngradeCommits
    <3>2. Quiet
      BY <3>1 DEF Quiet, Active, ActiveStatuses
    <3>3. QED
      BY <3>2, QuietBounded
  <2>2. CASE \E u \in Users : ExpireDueProAccess(u)
    BY <1>1, <2>2 DEF ExpireDueProAccess
  <2>3. CASE UNCHANGED <<status, data>>
    <3>1. Quiet
      BY <2>3 DEF Quiet, Active
    <3>2. QED
      BY <3>1, QuietBounded
  <2>4. QED
    BY <1>3, <2>1, <2>2, <2>3
    DEF PlanStep, UpgradeEvent, DowngradeBegins, DowngradeReads, DeliveryFails,
        vars, rows
<1>4. QED
  BY <1>1, <1>2, <1>3
  DEF CancelOccurrence, CancelEntireSeries, CancelFutureOccurrences

LEMMA EveryStepBounded ==
  ASSUME SeriesInv, RowsFinite, SNext
  PROVE  \/ BoundedBut({})
         \/ \E a \in Admins, s, n \in SeriesIds, t \in Templates,
               p \in BookingIds :
              SplitSeries(a, s, n, t, p) /\ BoundedBut({series[s].owner})
<1> USE DEF SeriesInv
<1>1. CASE Next /\ UNCHANGED seriesVars
  BY <1>1, EveryStep, ServiceBounded
<1>2. CASE PlanStep
  BY <1>2, OthersBounded
<1>3. CASE \E u \in Clients, s \in SeriesIds, t \in Templates :
             CreateSeries(u, s, t)
  BY <1>3, CreateBounded
<1>4. CASE \E u \in Clients, s \in SeriesIds, t \in Templates :
             EditWholeSeries(u, s, t)
  BY <1>4, EditWholeBounded
<1>5. CASE \E u \in Clients, s, n \in SeriesIds, t \in Templates,
              p \in BookingIds : SplitSeries(u, s, n, t, p)
  BY <1>5, SplitBounded
<1>6. QED
  BY <1>1, <1>2, <1>3, <1>4, <1>5, OthersBounded DEF SNext, SeriesStep

\* Whoever gains active bookings stays within the limit of plan and role, with
\* all the dates of a series counted: the limit asked at the last date, with
\* the earlier dates written and the replaced rows put aside, covers them all.
\* Only an admin who splits somebody's series takes the owner over it.
THEOREM SeriesStayWithinLimit == SSpec => SeriesLimitRespected
<1>1. SInit => RowsFinite
  <2>1. SInit => ActiveRows = {}
    BY DEF SInit, Init, ActiveRows, Active, ActiveStatuses
  <2>2. QED
    BY <2>1, FS_EmptySet DEF RowsFinite
<1>2. SeriesInv /\ RowsFinite /\ [SNext]_allVars => RowsFinite'
  <2>1. ASSUME SeriesInv, RowsFinite, SNext PROVE RowsFinite'
    BY <2>1, EveryStepBounded DEF BoundedBut
  <2>2. ASSUME RowsFinite, UNCHANGED allVars PROVE RowsFinite'
    <3>1. ActiveRows' = ActiveRows
      BY <2>2 DEF ActiveRows, Active, allVars, vars, rows
    <3>2. QED
      BY <2>2, <3>1 DEF RowsFinite
  <2>3. QED
    BY <2>1, <2>2
<1>3. SeriesInv /\ RowsFinite /\ RowsFinite' /\ [SNext]_allVars =>
        [\A u \in Users :
           (/\ Cardinality(Holds(u)) > Cardinality(Held(u))
            /\ Role[u] # "adminRole"
            /\ Cardinality(Holds(u)) > ActiveLimit(u))
             => \E a \in Admins, s, n \in SeriesIds, t \in Templates,
                   p \in BookingIds :
                  series[s].owner = u /\ SplitSeries(a, s, n, t, p)]_allVars
  <2>1. ASSUME SeriesInv, RowsFinite, RowsFinite', SNext, NEW u \in Users,
               Cardinality(Holds(u)) > Cardinality(Held(u)),
               Role[u] # "adminRole",
               Cardinality(Holds(u)) > ActiveLimit(u)
        PROVE  \E a \in Admins, s, n \in SeriesIds, t \in Templates,
                  p \in BookingIds :
                 series[s].owner = u /\ SplitSeries(a, s, n, t, p)
    <3>1. IsFiniteSet(Holds(u))
      <4>1. Holds(u) \in SUBSET ActiveRows'
        BY DEF Holds, ActiveRows, Active
      <4>2. QED
        BY <2>1, <4>1, FS_Subset DEF RowsFinite
    <3>2. /\ Cardinality(Holds(u)) \in Nat /\ Cardinality(Held(u)) \in Nat
          /\ ActiveLimit(u) \in Nat
      BY <2>1, <3>1, FS_CardinalityType, HeldFinite, LimitTyped
    <3> HIDE DEF ActiveLimit
    <3>3. ~WithinOwnLimit(u)
      BY <2>1, <3>2 DEF WithinOwnLimit
    <3>4. QED
      BY <2>1, <3>3, EveryStepBounded DEF BoundedBut
  <2>2. QED
    BY <2>1
<1>4. QED
  BY <1>1, <1>2, <1>3, SeriesTypeCorrect, PTL
  DEF SSpec, SeriesLimitRespected, Holds, Held
===============================================================================
