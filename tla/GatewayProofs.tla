---------------------------- MODULE GatewayProofs ----------------------------
(***************************************************************************)
(* The safety properties of Gateway.tla, for every number of keys,         *)
(* requests and clients and every length of the window and the month.      *)
(*                                                                         *)
(* The master key: the file is created by one client (MasterOK), and until *)
(* that client has written it nobody, the gateway included, can have read  *)
(* a key from it; a gateway whose up read nothing asks for no keys.  The rate limit: the times in a window are those of the  *)
(* requests that passed the rate check, one for one (Matches), so that the *)
(* length of the window counts them.  The budget: a request remembers how  *)
(* many usage rows there were when it was admitted, and those rows had not *)
(* reached the budget (AdmittedOK); the spend of more rows is no less      *)
(* (lemma SpendGrows).                                                     *)
(***************************************************************************)
EXTENDS Gateway, NumberLemmas, SequenceTheorems

PassedRate == Admitted \cup {"budget"}
Outcome == [st : PassedRate \cup {"rate"}, key : Keys, at : Nat, rows : Nat, life : Nat]
NoOutcome == [st : {"new", "checking", "unauthorized", "dropped", "master", "open", "logged"}]
UsageRow == [ts : Nat, key : Keys, cost : Nat, request : Requests]
Check == [request : Requests, key : Keys, row : Row]

TypeInv ==
  /\ now \in Month..MaxTime /\ restarts \in Nat
  /\ keys \in [Keys -> Row \cup {NoRow}]
  /\ usage \in Seq(UsageRow)
  /\ windows \in [Keys -> Seq(Nat)]
  /\ gateway \in {"down", "up", "open"} /\ masterHash \in {"unset", "empty"} \cup Clients
  /\ req \in [Requests -> Outcome \cup NoOutcome]
  /\ checking \in {NoCheck} \cup Check
  /\ keyFile \in {"none", "empty"} \cup Clients
  /\ asks \in [Clients -> {"idle", "create", "write", "read", "empty", "failed"} \cup Clients]

\* The one client that created the file is to write it; until then nobody has a key.
MasterOK ==
  /\ \A c \in Clients :
       /\ asks[c] = "write" => keyFile = "empty"
       /\ asks[c] \in {"read", "empty"} => keyFile # "none"
       /\ asks[c] \in Clients => keyFile = asks[c]
  /\ \A c, d \in Clients : asks[c] = "write" /\ asks[d] = "write" => c = d
  /\ gateway # "down" => keyFile # "none"
  /\ gateway = "up" => keyFile \in Clients /\ masterHash \in {"unset", keyFile}
  /\ gateway = "down" => masterHash = "unset"

\* The row that a check has read still gives the key's limits.
CheckOK ==
  checking # NoCheck =>
    /\ req[checking.request].st = "checking"
    /\ LET key == keys[checking.key]
       IN key \in Row /\ checking.row.rpm = key.rpm /\ checking.row.budget = key.budget

\* What was decided, was decided about a key that exists, before now and in this life of
\* the gateway or an earlier one.
DecidedOK ==
  \A r \in Requests : req[r] \in Outcome =>
    /\ keys[req[r].key] \in Row
    /\ req[r].at <= now /\ req[r].life <= restarts /\ req[r].rows <= Len(usage)

\* The requests of a key that passed the rate check in this life of the gateway.
Passed(k) ==
  {r \in Requests : req[r].st \in PassedRate /\ req[r].key = k /\ req[r].life = restarts}

\* m names for each time in a window w the request among those of P that put it there;
\* every request of P after a time t is named.
Matches(m, w, P, q, t) ==
  /\ m \in [1..Len(w) -> P]
  /\ \A i, j \in 1..Len(w) : m[i] = m[j] => i = j
  /\ \A i \in 1..Len(w) : q[m[i]].at = w[i]
  /\ \A r \in P : q[r].at > t => \E i \in 1..Len(w) : m[i] = r

Sorted(w) == \A i, j \in 1..Len(w) : i <= j => w[i] <= w[j]

WindowsOK ==
  \A k \in Keys :
    /\ Sorted(windows[k])
    /\ \A i \in 1..Len(windows[k]) : windows[k][i] \in Month..now
    /\ keys[k].rpm = 0 => windows[k] = << >>
    /\ keys[k].rpm # 0 =>
         \E m \in [1..Len(windows[k]) -> Requests] : Matches(m, windows[k], Passed(k), req, now - Window)

\* Usage rows are in the order of their times, each of a request that has ended.
UsageOK ==
  /\ \A i, j \in 1..Len(usage) : i <= j => usage[i].ts <= usage[j].ts
  /\ \A j \in 1..Len(usage) :
       /\ usage[j].ts <= now
       /\ req[usage[j].request].st = "recorded" /\ req[usage[j].request].key = usage[j].key

\* A request was admitted while the rows that were there had not reached the budget.
AdmittedOK ==
  \A r \in Requests : req[r].st \in Admitted =>
    LET key == keys[req[r].key]
        n   == req[r].rows
    IN /\ \A i \in 1..n : usage[i].ts <= req[r].at
       /\ key.budget # NoBudget =>
            SpendSince(SubSeq(usage, 1, n), req[r].key, MonthStart(req[r].at)) < key.budget

\* The inductive invariant.
IInv ==
  /\ TypeInv /\ MasterOK /\ CheckOK /\ DecidedOK /\ WindowsOK /\ WindowsFit /\ UsageOK /\ AdmittedOK
  /\ RateLimit /\ RefusedOnlyWhenFull /\ BudgetOvershoot

-----------------------------------------------------------------------------
(* The operators.                                                          *)

\* What is left of a window is its end: the times after a cut, in their order, and the
\* first that is left is past the cut.
LEMMA DropUntilIsSuffix ==
  ASSUME NEW w \in Seq(Nat), NEW cut \in Int
  PROVE  \E n \in 0..Len(w) :
           /\ DropUntil(w, cut) = SubSeq(w, n + 1, Len(w))
           /\ \A i \in 1..n : w[i] <= cut
           /\ n < Len(w) => w[n + 1] > cut
<1>. DEFINE P(n) == (\A i \in 1..n : w[i] <= cut) /\ (n < Len(w) => w[n + 1] > cut)
            T == {n \in 0..Len(w) : n = Len(w) \/ w[n + 1] > cut}
<1>1. PICK n \in T : \A x \in T : n <= x
  <2>1. Len(w) \in T /\ T \subseteq Nat
    OBVIOUS
  <2>. HIDE DEF T
  <2>. QED
    BY <2>1, LeastNumber
<1>2. P(n)
  <2>1. ASSUME NEW i \in 1..n PROVE w[i] <= cut
    <3>1. n \in 0..Len(w)
      OBVIOUS
    <3>2. i - 1 \in 0..Len(w) /\ ~ (n <= i - 1)
      BY <3>1
    <3>3. i - 1 \notin T
      <4>. HIDE DEF T
      <4>. QED
        BY <1>1, <3>2
    <3>. QED
      BY <3>1, <3>2, <3>3
  <2>. QED
    BY <1>1, <2>1
<1>3. \E m \in 0..Len(w) : P(m)
  BY <1>1, <1>2
<1>. DEFINE c == CHOOSE m \in 0..Len(w) : P(m)
<1>4. c \in 0..Len(w) /\ P(c)
  <2>. HIDE DEF P
  <2>. QED
    BY <1>3
<1>5. DropUntil(w, cut) = SubSeq(w, c + 1, Len(w))
  BY DEF DropUntil
<1>. HIDE DEF c
<1>. QED
  BY <1>4, <1>5

\* The suffix, position by position.
LEMMA DropUntilProperties ==
  ASSUME NEW w \in Seq(Nat), NEW cut \in Int
  PROVE  \E n \in 0..Len(w) :
           LET s == DropUntil(w, cut) IN
           /\ s \in Seq(Nat) /\ Len(s) = Len(w) - n
           /\ \A i \in 1..Len(s) : s[i] = w[n + i]
           /\ \A i \in 1..n : w[i] <= cut
           /\ n < Len(w) => w[n + 1] > cut
<1>1. PICK n \in 0..Len(w) :
           /\ DropUntil(w, cut) = SubSeq(w, n + 1, Len(w))
           /\ \A i \in 1..n : w[i] <= cut
           /\ n < Len(w) => w[n + 1] > cut
  BY DropUntilIsSuffix
<1>. DEFINE s == SubSeq(w, n + 1, Len(w))
<1>2. /\ s \in Seq(Nat)
      /\ Len(s) = Len(w) - n
      /\ \A i \in 1..Len(s) : s[i] = w[n + i]
  BY SubSeqProperties
<1>. QED
  BY <1>1, <1>2

\* Totals of costs up to each place exist.
LEMMA TotalsExist ==
  ASSUME NEW N \in Nat, NEW c \in [1..N -> Nat]
  PROVE  \E t \in [0..N -> Nat] : t[0] = 0 /\ \A n \in 1..N : t[n] = t[n - 1] + c[n]
<1>. DEFINE Totals(t, m) == t[0] = 0 /\ \A n \in 1..m : t[n] = t[n - 1] + c[n]
            S == {m \in Nat : m <= N => \E t \in [0..m -> Nat] : Totals(t, m)}
<1>1. 0 \in S
  <2>. DEFINE t == [n \in 0..0 |-> 0]
  <2>1. t \in [0..0 -> Nat] /\ Totals(t, 0)
    OBVIOUS
  <2>. QED
    BY <2>1
<1>2. ASSUME NEW m \in Nat, m \in S PROVE m + 1 \in S
  <2>. HIDE DEF Totals
  <2>. SUFFICES ASSUME m + 1 <= N PROVE \E u \in [0..(m + 1) -> Nat] : Totals(u, m + 1)
    BY SMTT(40)
  <2>1. PICK t \in [0..m -> Nat] : Totals(t, m)
    BY <1>2
  <2>. USE DEF Totals
  <2>. DEFINE u == [n \in 0..(m + 1) |-> IF n <= m THEN t[n] ELSE t[m] + c[m + 1]]
  <2>2. u \in [0..(m + 1) -> Nat]
    OBVIOUS
  <2>3. u[0] = 0
    BY <2>1
  <2>4. ASSUME NEW n \in 1..(m + 1) PROVE u[n] = u[n - 1] + c[n]
    <3>1. CASE n <= m
      BY <2>1, <3>1
    <3>2. CASE n = m + 1
      BY <3>2
    <3>. QED
      BY <3>1, <3>2
  <2>. HIDE DEF u
  <2>. QED
    BY <2>2, <2>3, <2>4
<1>3. N \in S
  <2>. HIDE DEF S
  <2>. QED
    BY <1>1, <1>2, SetInduction
<1>4. \E t \in [0..N -> Nat] : Totals(t, N)
  <2>. HIDE DEF Totals
  <2>. QED
    BY <1>3
<1>. QED
  BY <1>4, Zenon

\* A usage row adds a number.
LEMMA PaidType ==
  ASSUME NEW row \in UsageRow, NEW key, NEW since
  PROVE  Paid(row, key, since) \in Nat
BY DEF Paid, UsageRow

\* t totals what the rows add to the spend of a key, up to each of them.
TotalsOf(t, rows, key, since) ==
  /\ t[0] = 0
  /\ \A n \in 1..Len(rows) : t[n] = t[n - 1] + Paid(rows[n], key, since)
  /\ SpendSince(rows, key, since) = t[Len(rows)]

\* What a key spent is the last of the totals of what the rows add.
LEMMA SpendIsTotal ==
  ASSUME NEW rows \in Seq(UsageRow), NEW key, NEW since \in Nat
  PROVE  \E t \in [0..Len(rows) -> Nat] : TotalsOf(t, rows, key, since)
<1>. DEFINE c == [n \in 1..Len(rows) |-> Paid(rows[n], key, since)]
            Totals(t) == t = [n \in 0..Len(rows) |->
                                IF n = 0 THEN 0 ELSE t[n - 1] + Paid(rows[n], key, since)]
            total == CHOOSE t : Totals(t)
<1>1. c \in [1..Len(rows) -> Nat]
  BY PaidType, ElementOfSeq
<1>2. PICK t \in [0..Len(rows) -> Nat] : t[0] = 0 /\ \A n \in 1..Len(rows) : t[n] = t[n - 1] + c[n]
  <2>1. Len(rows) \in Nat
    OBVIOUS
  <2>. HIDE DEF c
  <2>. QED
    BY <1>1, <2>1, TotalsExist, Zenon
<1>3. Totals(t)
  <2>1. \A n \in 1..Len(rows) : t[n] = t[n - 1] + Paid(rows[n], key, since)
    BY <1>2
  <2>2. \A n \in 0..Len(rows) : n # 0 => n \in 1..Len(rows)
    OBVIOUS
  <2>. HIDE DEF c
  <2>. QED
    BY <1>2, <2>1, <2>2
<1>4. Totals(total)
  <2>. HIDE DEF Totals
  <2>. QED
    BY <1>3
<1>5. SpendSince(rows, key, since) = total[Len(rows)]
  BY DEF SpendSince
<1>. HIDE DEF total
<1>6. total[0] = 0 /\ \A n \in 1..Len(rows) : total[n] = total[n - 1] + Paid(rows[n], key, since)
  BY <1>4
<1>7. total \in [0..Len(rows) -> Nat]
  <2>. DEFINE S == {n \in Nat : n <= Len(rows) => total[n] \in Nat}
  <2>1. 0 \in S
    BY <1>6
  <2>2. ASSUME NEW n \in Nat, n \in S PROVE n + 1 \in S
    BY <1>1, <1>6, <2>2, SMTT(40)
  <2>3. Nat \subseteq S
    <3>. HIDE DEF S
    <3>. QED
      BY <2>1, <2>2, SetInduction
  <2>4. \A n \in 0..Len(rows) : total[n] \in Nat
    BY <2>3
  <2>. HIDE DEF S
  <2>. QED
    BY <1>4, <2>4
<1>. QED
  BY <1>5, <1>6, <1>7 DEF TotalsOf

\* More rows are no smaller spend.
LEMMA SpendGrows ==
  ASSUME NEW rows \in Seq(UsageRow), NEW key, NEW since \in Nat,
         NEW i \in 0..Len(rows), NEW j \in i..Len(rows)
  PROVE  /\ SpendSince(SubSeq(rows, 1, i), key, since) \in Nat
         /\ SpendSince(SubSeq(rows, 1, i), key, since) <= SpendSince(SubSeq(rows, 1, j), key, since)
<1>. DEFINE a == SubSeq(rows, 1, i)
            b == SubSeq(rows, 1, j)
<1>1. /\ a \in Seq(UsageRow) /\ Len(a) = i /\ b \in Seq(UsageRow) /\ Len(b) = j
      /\ \A n \in 1..i : a[n] = b[n]
  <2>1. a \in Seq(UsageRow) /\ Len(a) = i /\ \A n \in 1..i : a[n] = rows[n]
    BY SubSeqProperties
  <2>2. b \in Seq(UsageRow) /\ Len(b) = j /\ \A n \in 1..j : b[n] = rows[n]
    BY SubSeqProperties
  <2>. QED
    BY <2>1, <2>2
<1>. HIDE DEF a, b
<1>2. PICK t \in [0..i -> Nat] : TotalsOf(t, a, key, since)
  BY <1>1, SpendIsTotal
<1>3. PICK u \in [0..j -> Nat] : TotalsOf(u, b, key, since)
  BY <1>1, SpendIsTotal
<1>4. \A n \in 1..j : Paid(b[n], key, since) \in Nat
  <2>1. \A n \in 1..j : b[n] \in UsageRow
    BY <1>1, ElementOfSeq
  <2>. QED
    BY <2>1, PaidType
<1>. DEFINE S == {n \in Nat : n <= i => t[n] = u[n]}
            G == {n \in Nat : n \in i..j => u[i] <= u[n]}
<1>. USE DEF TotalsOf
<1>5. t[i] = u[i]
  <2>1. 0 \in S
    BY <1>2, <1>3
  <2>2. ASSUME NEW n \in Nat, n \in S PROVE n + 1 \in S
    <3>. SUFFICES ASSUME n + 1 <= i PROVE t[n + 1] = u[n + 1]
      OBVIOUS
    <3>1. t[n + 1] = t[n] + Paid(a[n + 1], key, since) /\ u[n + 1] = u[n] + Paid(b[n + 1], key, since)
      BY <1>1, <1>2, <1>3, SMTT(40)
    <3>. QED
      BY <1>1, <2>2, <3>1
  <2>3. Nat \subseteq S
    <3>. HIDE DEF S
    <3>. QED
      BY <2>1, <2>2, SetInduction
  <2>. QED
    BY <2>3
<1>6. u[i] <= u[j]
  <2>1. 0 \in G
    BY <1>3
  <2>2. ASSUME NEW n \in Nat, n \in G PROVE n + 1 \in G
    <3>. SUFFICES ASSUME n + 1 \in i..j PROVE u[i] <= u[n + 1]
      OBVIOUS
    <3>1. CASE n + 1 = i
      BY <1>3, <3>1
    <3>2. CASE n + 1 # i
      <4>1. u[n + 1] = u[n] + Paid(b[n + 1], key, since)
        BY <1>1, <1>3
      <4>2. Paid(b[n + 1], key, since) \in Nat
        BY <1>4
      <4>. QED
        BY <1>3, <2>2, <3>2, <4>1, <4>2, SMTT(40)
    <3>. QED
      BY <3>1, <3>2
  <2>3. Nat \subseteq G
    <3>. HIDE DEF G
    <3>. QED
      BY <2>1, <2>2, SetInduction
  <2>. QED
    BY <2>3
<1>. QED
  BY <1>1, <1>2, <1>3, <1>5, <1>6 DEF a, b

\* The rows that were there are the same after one more.
LEMMA PrefixOfAppend ==
  ASSUME NEW rows \in Seq(UsageRow), NEW row \in UsageRow, NEW i \in 0..Len(rows)
  PROVE  SubSeq(Append(rows, row), 1, i) = SubSeq(rows, 1, i)
<1>. DEFINE more == Append(rows, row)
<1>1. more \in Seq(UsageRow) /\ Len(more) = Len(rows) + 1 /\ \A n \in 1..Len(rows) : more[n] = rows[n]
  OBVIOUS
<1>2. /\ SubSeq(more, 1, i) \in Seq(UsageRow) /\ Len(SubSeq(more, 1, i)) = i
      /\ \A n \in 1..i : SubSeq(more, 1, i)[n] = more[n]
  <2>. HIDE DEF more
  <2>. QED
    BY <1>1, SubSeqProperties
<1>3. /\ SubSeq(rows, 1, i) \in Seq(UsageRow) /\ Len(SubSeq(rows, 1, i)) = i
      /\ \A n \in 1..i : SubSeq(rows, 1, i)[n] = rows[n]
  BY SubSeqProperties
<1>. HIDE DEF more
<1>4. SubSeq(more, 1, i) = SubSeq(rows, 1, i)
  BY <1>1, <1>2, <1>3, SeqEqual
<1>. QED
  BY <1>4 DEF more

\* The month of a time: it starts no later, and ends later.
LEMMA MonthOf ==
  ASSUME NEW t \in Nat
  PROVE  /\ t \div Month \in Nat /\ MonthStart(t) = (t \div Month) * Month
         /\ MonthStart(t) \in Nat /\ MonthStart(t) <= t /\ t < MonthStart(t) + Month
BY GatewayAssumption DEF MonthStart

\* What lies between two times of one month is in that month.
LEMMA MonthBetween ==
  ASSUME NEW a \in Nat, NEW c \in Nat, NEW b \in a..c, MonthStart(a) = MonthStart(c)
  PROVE  MonthStart(b) = MonthStart(c)
<1>. DEFINE k == a \div Month
            l == b \div Month
<1>1. k \in Nat /\ MonthStart(a) = k * Month /\ c < k * Month + Month /\ k * Month <= a
  BY MonthOf
<1>2. l \in Nat /\ MonthStart(b) = l * Month /\ b < l * Month + Month /\ l * Month <= b
  BY MonthOf
<1>. HIDE DEF k, l
<1>3. k * Month < l * Month + Month /\ l * Month < k * Month + Month
  BY <1>1, <1>2, GatewayAssumption
<1>4. k < l + 1 /\ l < k + 1
  BY <1>1, <1>2, <1>3, GatewayAssumption
<1>. QED
  BY <1>1, <1>2, <1>4

-----------------------------------------------------------------------------
(* Types and the master key.                                               *)

\* A window, without its old times: the times that are not 60 seconds old.
LEMMA InWindowIs ==
  ASSUME TypeInv, NEW k \in Keys
  PROVE  \E n \in 0..Len(windows[k]) :
           LET w == windows[k]
               s == InWindow(w)
           IN /\ s \in Seq(Nat) /\ Len(s) = Len(w) - n
              /\ \A i \in 1..Len(s) : s[i] = w[n + i]
              /\ \A i \in 1..n : w[i] <= now - Window
              /\ n < Len(w) => w[n + 1] > now - Window
<1>1. windows[k] \in Seq(Nat) /\ now - Window \in Int
  BY GatewayAssumption DEF TypeInv
<1>. QED
  BY <1>1, DropUntilProperties DEF InWindow

\* Every step keeps the types and what the writer of the master key has done.
LEMMA TypeStep ==
  ASSUME TypeInv, MasterOK, CheckOK, DecidedOK, [Next]_vars
  PROVE  TypeInv' /\ MasterOK'
<1>. USE GatewayAssumption DEF TypeInv, MasterOK, Ask, Got
<1>1. ASSUME NEW k \in Keys, Create(k) PROVE TypeInv' /\ MasterOK'
  <2>1. \A l \in Limits : [rpm |-> l.rpm, budget |-> l.budget, state |-> "active"] \in Row
    BY DEF Row
  <2>2. keys' \in [Keys -> Row \cup {NoRow}]
    BY <1>1, <2>1 DEF Create
  <2>. QED
    BY <1>1, <2>2 DEF Create
<1>2. ASSUME NEW text \in Texts, Revoke(text) PROVE TypeInv' /\ MasterOK'
  <2>1. \A row \in Row \cup {NoRow} : row.state = "active" => [row EXCEPT !.state = "revoked"] \in Row
    BY SMTT(40) DEF Row, NoRow
  <2>2. keys' \in [Keys -> Row \cup {NoRow}]
    BY <1>2, <2>1 DEF Revoke
  <2>. QED
    BY <1>2, <2>2 DEF Revoke
<1>3. ASSUME NEW c \in Clients,
             Look(c) \/ CreateFile(c) \/ WriteKey(c) \/ ReadKey(c) \/ Interrupt(c) \/ AskAgain(c)
      PROVE  TypeInv' /\ MasterOK'
  <2>1. CASE Look(c)
    BY <2>1 DEF Look
  <2>2. CASE CreateFile(c)
    BY <2>2 DEF CreateFile
  <2>3. CASE WriteKey(c)
    BY <2>3 DEF WriteKey
  <2>4. CASE ReadKey(c)
    BY <2>4 DEF ReadKey
  <2>5. CASE Interrupt(c)
    BY <2>5 DEF Interrupt
  <2>6. CASE AskAgain(c)
    BY <2>6 DEF AskAgain
  <2>. QED
    BY <1>3, <2>1, <2>2, <2>3, <2>4, <2>5, <2>6
<1>4. ASSUME StartGateway PROVE TypeInv' /\ MasterOK'
  BY <1>4 DEF StartGateway
<1>5. ASSUME Restart PROVE TypeInv' /\ MasterOK'
  <2>1. req' \in [Requests -> Outcome \cup NoOutcome]
    <3>1. \A o \in Outcome \cup NoOutcome :
            (CASE o.st = "admitted" -> [o EXCEPT !.st = "lost"]
               [] o.st \in {"checking", "open"} -> [st |-> "dropped"]
               [] OTHER -> o) \in Outcome \cup NoOutcome
      BY DEF Outcome, NoOutcome, PassedRate, Admitted
    <3>. QED
      BY <1>5, <3>1 DEF Restart
  <2>. QED
    BY <1>5, <2>1 DEF Restart, NoCheck
<1>6. ASSUME NEW r \in Requests, NEW c \in Clients, CheckMaster(r, c) PROVE TypeInv' /\ MasterOK'
  BY <1>6 DEF CheckMaster, KnownMaster, NoOutcome
<1>7. ASSUME NEW r \in Requests, NEW k \in Keys, Lookup(r, k) PROVE TypeInv' /\ MasterOK'
  <2>1. req' \in [Requests -> Outcome \cup NoOutcome]
    <3>1. [st |-> "checking"] \in NoOutcome /\ [st |-> "unauthorized"] \in NoOutcome
      BY DEF NoOutcome
    <3>2. CASE keys[k].state = "active"
      BY <1>7, <3>1, <3>2 DEF Lookup
    <3>3. CASE keys[k].state # "active"
      BY <1>7, <3>1, <3>3 DEF Lookup
    <3>. QED
      BY <3>2, <3>3
  <2>2. checking' \in {NoCheck} \cup Check
    BY <1>7 DEF Lookup, Check, NoRow
  <2>. QED
    BY <1>7, <2>1, <2>2 DEF Lookup, KnownMaster
<1>8. ASSUME Decide PROVE TypeInv' /\ MasterOK'
  <2>1. checking \in Check
    BY <1>8 DEF Decide
  <2>2. windows' \in [Keys -> Seq(Nat)]
    <3>1. InWindow(windows[checking.key]) \in Seq(Nat)
      BY <2>1, InWindowIs DEF Check
    <3>. QED
      BY <1>8, <2>1, <3>1 DEF Decide, Check
  <2>3. req' \in [Requests -> Outcome \cup NoOutcome]
    BY <1>8, <2>1 DEF Decide, Check, Outcome, PassedRate, Admitted
  <2>. QED
    BY <1>8, <2>2, <2>3 DEF Decide
<1>9. ASSUME NEW r \in Requests, Record(r) PROVE TypeInv' /\ MasterOK'
  <2>1. req[r] \in Outcome /\ req[r].key \in Keys
    BY <1>9 DEF Record, Outcome, NoOutcome
  <2>2. req' \in [Requests -> Outcome \cup NoOutcome]
    BY <1>9, <2>1 DEF Record, Outcome, PassedRate, Admitted
  <2>3. usage' \in Seq(UsageRow)
    BY <1>9, <2>1 DEF Record, UsageRow
  <2>. QED
    BY <1>9, <2>2, <2>3 DEF Record
<1>10. ASSUME Tick PROVE TypeInv' /\ MasterOK'
  BY <1>10 DEF Tick
<1>11. ASSUME UNCHANGED vars PROVE TypeInv' /\ MasterOK'
  BY <1>11 DEF vars
<1>12. ASSUME NEW r \in Requests, Unchecked(r) \/ RecordUnchecked(r) PROVE TypeInv' /\ MasterOK'
  <2>1. [st |-> "open"] \in NoOutcome /\ [st |-> "logged"] \in NoOutcome
    BY DEF NoOutcome
  <2>2. CASE Unchecked(r)
    BY <2>1, <2>2 DEF Unchecked
  <2>3. CASE RecordUnchecked(r)
    BY <2>1, <2>3 DEF RecordUnchecked, KnownMaster
  <2>. QED
    BY <1>12, <2>2, <2>3
<1>. HIDE DEF TypeInv, MasterOK
<1>. QED
  BY <1>1, <1>2, <1>3, <1>4, <1>5, <1>6, <1>7, <1>8, <1>9, <1>10, <1>11, <1>12 DEF Next

-----------------------------------------------------------------------------
(* What a step keeps.                                                      *)

\* The outcome of a request is final, but that an admitted call ends.
Kept(r) ==
  /\ req'[r] \in Outcome /\ req'[r].key = req[r].key /\ req'[r].at = req[r].at
  /\ req'[r].rows = req[r].rows /\ req'[r].life = req[r].life
  /\ \/ req'[r].st = req[r].st
     \/ req[r].st = "admitted" /\ req'[r].st \in {"recorded", "lost"}

\* A step gives an outcome to the request that is checked, or to none; the limits of a key
\* stay as they were; the clock and the count of restarts do not go back.
LEMMA StepKeeps ==
  ASSUME TypeInv, [Next]_vars
  PROVE  /\ \A k \in Keys : keys[k] \in Row =>
              keys'[k] \in Row /\ keys'[k].rpm = keys[k].rpm /\ keys'[k].budget = keys[k].budget
         /\ \A r \in Requests : req[r] \in Outcome => (Decide /\ r = checking.request) \/ Kept(r)
         /\ \A r \in Requests : req'[r] \in Outcome => (Decide /\ r = checking.request) \/ req[r] \in Outcome
         /\ now <= now' /\ restarts <= restarts'
<1>. DEFINE Keeps ==
         /\ \A k \in Keys : keys[k] \in Row =>
              keys'[k] \in Row /\ keys'[k].rpm = keys[k].rpm /\ keys'[k].budget = keys[k].budget
         /\ \A r \in Requests : req[r] \in Outcome => (Decide /\ r = checking.request) \/ Kept(r)
         /\ \A r \in Requests : req'[r] \in Outcome => (Decide /\ r = checking.request) \/ req[r] \in Outcome
         /\ now <= now' /\ restarts <= restarts'
<1>. USE GatewayAssumption DEF TypeInv
<1>0. \A r \in Requests : req[r] \in Outcome => req[r].st \in PassedRate \cup {"rate"}
  BY DEF Outcome
<1>1. ASSUME NEW k \in Keys, Create(k) PROVE Keeps
  <2>1. NoRow \notin Row
    <3>1. \A row \in Row : row.state # "none"
      BY DEF Row
    <3>. QED
      BY <3>1 DEF NoRow
  <2>. QED
    BY <1>1, <2>1 DEF Create, Kept
<1>2. ASSUME NEW text \in Texts, Revoke(text) PROVE Keeps
  <2>1. \A row \in Row : row.state = "active" =>
          LET new == [row EXCEPT !.state = "revoked"]
          IN new \in Row /\ new.rpm = row.rpm /\ new.budget = row.budget
    BY DEF Row
  <2>. QED
    BY <1>2, <2>1 DEF Revoke, Kept
<1>3. ASSUME UNCHANGED <<now, keys, req, restarts>> PROVE Keeps
  BY <1>3 DEF Kept
<1>4. ASSUME Restart PROVE Keeps
  <2>1. \A r \in Requests : req[r] \in Outcome => Kept(r)
    <3>. SUFFICES ASSUME NEW r \in Requests, req[r] \in Outcome PROVE Kept(r)
      OBVIOUS
    <3>1. CASE req[r].st = "admitted"
      <4>1. req'[r] = [req[r] EXCEPT !.st = "lost"]
        BY <1>4, <3>1 DEF Restart
      <4>. QED
        BY <3>1, <4>1 DEF Kept, Outcome, PassedRate, Admitted
    <3>2. CASE req[r].st # "admitted"
      <4>1. req[r].st \notin {"checking", "open"}
        BY <1>0 DEF PassedRate, Admitted
      <4>2. req'[r] = req[r]
        BY <1>4, <3>2, <4>1 DEF Restart
      <4>. QED
        BY <4>2 DEF Kept
    <3>. QED
      BY <3>1, <3>2
  <2>2. \A r \in Requests : req'[r] \in Outcome => req[r] \in Outcome
    <3>. SUFFICES ASSUME NEW r \in Requests, req'[r] \in Outcome, req[r] \in NoOutcome PROVE FALSE
      OBVIOUS
    <3>1. req[r].st # "admitted"
      BY DEF NoOutcome
    <3>2. req'[r] \in NoOutcome
      BY <1>4, <3>1 DEF Restart, NoOutcome
    <3>. QED
      BY <3>2 DEF NoOutcome, Outcome, PassedRate, Admitted
  <2>. QED
    BY <1>4, <2>1, <2>2 DEF Restart
<1>5. ASSUME NEW r \in Requests, NEW c \in Clients, CheckMaster(r, c) PROVE Keeps
  BY <1>0, <1>5 DEF CheckMaster, Kept, NotSent, Outcome, PassedRate, Admitted
<1>6. ASSUME NEW r \in Requests, NEW k \in Keys, Lookup(r, k) PROVE Keeps
  <2>1. req[r] \notin Outcome
    <3>1. req[r].st = "new"
      BY <1>6 DEF Lookup, NotSent
    <3>. QED
      BY <3>1 DEF Outcome, PassedRate, Admitted
  <2>2. req' = [req EXCEPT ![r] = [st |-> "checking"]] \/ req' = [req EXCEPT ![r] = [st |-> "unauthorized"]]
    BY <1>6 DEF Lookup
  <2>3. req'[r] \notin Outcome
    BY <2>2 DEF Outcome, PassedRate, Admitted
  <2>4. \A q \in Requests : q # r => req'[q] = req[q]
    BY <2>2
  <2>5. UNCHANGED <<now, keys, restarts>>
    BY <1>6 DEF Lookup
  <2>6. \A q \in Requests : req[q] \in Outcome => Kept(q)
    BY <2>1, <2>4 DEF Kept
  <2>7. \A q \in Requests : req'[q] \in Outcome => req[q] \in Outcome
    BY <2>3, <2>4
  <2>. QED
    BY <2>5, <2>6, <2>7
<1>7. ASSUME Decide PROVE Keeps
  <2>1. checking \in Check
    BY <1>7 DEF Decide
  <2>. QED
    BY <1>7, <2>1 DEF Decide, Kept, Check
<1>8. ASSUME NEW r \in Requests, Record(r) PROVE Keeps
  <2>1. req[r] \in Outcome
    BY <1>8 DEF Record, Outcome, NoOutcome
  <2>2. Kept(r)
    BY <1>8, <2>1 DEF Record, Kept, Outcome, PassedRate, Admitted
  <2>. QED
    BY <1>8, <2>1, <2>2 DEF Record, Kept
<1>9. ASSUME Tick PROVE Keeps
  BY <1>9 DEF Tick, Kept
<1>10. ASSUME NEW c \in Clients,
              Look(c) \/ CreateFile(c) \/ WriteKey(c) \/ ReadKey(c) \/ Interrupt(c) \/ AskAgain(c)
       PROVE  Keeps
  BY <1>3, <1>10 DEF Look, CreateFile, WriteKey, ReadKey, Interrupt, AskAgain
<1>11. StartGateway \/ UNCHANGED vars => Keeps
  BY <1>3 DEF StartGateway, vars
<1>12. ASSUME NEW r \in Requests, Unchecked(r) \/ RecordUnchecked(r) PROVE Keeps
  <2>1. req[r].st \in {"new", "open"}
    BY <1>12 DEF Unchecked, RecordUnchecked, NotSent
  <2>2. req' = [req EXCEPT ![r] = [st |-> "open"]] \/ req' = [req EXCEPT ![r] = [st |-> "logged"]]
    BY <1>12 DEF Unchecked, RecordUnchecked
  <2>3. req[r] \notin Outcome
    BY <2>1 DEF Outcome, PassedRate, Admitted
  <2>4. req'[r] \notin Outcome
    BY <2>2 DEF Outcome, PassedRate, Admitted
  <2>5. \A q \in Requests : q # r => req'[q] = req[q]
    BY <2>2
  <2>6. UNCHANGED <<now, keys, restarts>>
    BY <1>12 DEF Unchecked, RecordUnchecked
  <2>7. \A q \in Requests : req[q] \in Outcome => Kept(q)
    BY <2>3, <2>5 DEF Kept
  <2>8. \A q \in Requests : req'[q] \in Outcome => req[q] \in Outcome
    BY <2>4, <2>5
  <2>. QED
    BY <2>6, <2>7, <2>8
<1>. HIDE DEF Keeps
<1>13. Keeps
  BY <1>1, <1>2, <1>4, <1>5, <1>6, <1>7, <1>8, <1>9, <1>10, <1>11, <1>12 DEF Next
<1>. QED
  BY <1>13 DEF Keeps

\* The row that is being checked is still that of its key.
LEMMA CheckStep ==
  ASSUME TypeInv, CheckOK, [Next]_vars
  PROVE  CheckOK'
<1>. USE DEF CheckOK, TypeInv
<1>1. ASSUME UNCHANGED checking, checking # NoCheck,
             req'[checking.request] = req[checking.request]
      PROVE  CheckOK'
  <2>1. checking \in Check
    BY <1>1
  <2>. QED
    BY <1>1, <2>1, StepKeeps DEF Check
<1>2. CASE checking' = NoCheck
  BY <1>2
<1>3. ASSUME NEW r \in Requests, NEW k \in Keys, Lookup(r, k) PROVE CheckOK'
  <2>1. CASE keys[k].state = "active"
    <3>1. keys[k] \in Row
      BY <2>1 DEF NoRow
    <3>. QED
      BY <1>3, <2>1, <3>1 DEF Lookup
  <2>2. CASE keys[k].state # "active"
    BY <1>3, <2>2 DEF Lookup
  <2>. QED
    BY <2>1, <2>2
<1>4. ASSUME NEW r \in Requests, Record(r), checking # NoCheck PROVE CheckOK'
  <2>1. req'[checking.request] = req[checking.request] /\ UNCHANGED checking
    BY <1>4 DEF Record, Check
  <2>. QED
    BY <1>1, <1>4, <2>1
<1>5. ASSUME UNCHANGED <<checking, req>> PROVE CheckOK'
  BY <1>1, <1>2, <1>5
<1>. HIDE DEF CheckOK
<1>6. (\A k \in Keys : Create(k) => CheckOK') /\ (\A text \in Texts : Revoke(text) => CheckOK')
  BY <1>5 DEF Create, Revoke
<1>7. \A c \in Clients :
        Look(c) \/ CreateFile(c) \/ WriteKey(c) \/ ReadKey(c) \/ Interrupt(c) \/ AskAgain(c) => CheckOK'
  BY <1>5 DEF Look, CreateFile, WriteKey, ReadKey, Interrupt, AskAgain
<1>8. StartGateway \/ Tick \/ UNCHANGED vars => CheckOK'
  BY <1>5 DEF StartGateway, Tick, vars
<1>9. Restart \/ Decide => CheckOK'
  BY <1>2 DEF Restart, Decide
<1>10. \A r \in Requests, c \in Clients : CheckMaster(r, c) => CheckOK'
  BY <1>2 DEF CheckMaster
<1>11. \A r \in Requests : Record(r) => CheckOK'
  BY <1>2, <1>4 DEF Record
<1>12. \A r \in Requests : Unchecked(r) \/ RecordUnchecked(r) => CheckOK'
  <2>. SUFFICES ASSUME NEW r \in Requests, Unchecked(r) \/ RecordUnchecked(r) PROVE CheckOK'
    OBVIOUS
  <2>1. UNCHANGED checking /\ req[r].st \in {"new", "open"} /\ \A q \in Requests : q # r => req'[q] = req[q]
    BY DEF Unchecked, RecordUnchecked, NotSent
  <2>2. CASE checking = NoCheck
    BY <1>2, <2>1, <2>2
  <2>3. CASE checking # NoCheck
    <3>1. checking.request \in Requests /\ req[checking.request].st = "checking"
      BY <2>3 DEF CheckOK, Check
    <3>. QED
      BY <1>1, <2>1, <2>3, <3>1
  <2>. QED
    BY <2>2, <2>3
<1>. QED
  BY <1>3, <1>6, <1>7, <1>8, <1>9, <1>10, <1>11, <1>12 DEF Next

\* Only Record writes usage, only Decide and Restart write the windows.
LEMMA WhoWrites ==
  ASSUME [Next]_vars
  PROVE  /\ UNCHANGED usage \/ \E r \in Requests : Record(r)
         /\ UNCHANGED <<windows, restarts>> \/ Decide \/ Restart
BY DEF Next, vars, Create, Revoke, Look, CreateFile, WriteKey, ReadKey, Interrupt, AskAgain, StartGateway,
       Restart, Unchecked, RecordUnchecked, Record, Lookup, CheckMaster, Decide, Tick

\* One more usage row, of a call that had been admitted.
LEMMA RecordIs ==
  ASSUME TypeInv, NEW r \in Requests, Record(r)
  PROVE  /\ req[r] \in Outcome /\ req[r].st = "admitted"
         /\ Kept(r) /\ req'[r].st = "recorded"
         /\ \A q \in Requests : q # r => req'[q] = req[q]
         /\ \E row \in UsageRow :
              row.ts = now /\ row.key = req[r].key /\ row.request = r /\ usage' = Append(usage, row)
         /\ UNCHANGED <<now, keys>>
<1>. USE GatewayAssumption DEF TypeInv, Record
<1>1. req[r] \in Outcome /\ req[r].st = "admitted"
  BY DEF Outcome, NoOutcome
<1>2. Kept(r) /\ req'[r].st = "recorded"
  BY <1>1 DEF Kept, Outcome, PassedRate, Admitted
<1>3. PICK c \in Costs : usage' = Append(usage, [ts |-> now, key |-> req[r].key, cost |-> c, request |-> r])
  OBVIOUS
<1>4. [ts |-> now, key |-> req[r].key, cost |-> c, request |-> r] \in UsageRow
  BY <1>1 DEF UsageRow, Outcome
<1>. QED
  BY <1>1, <1>2, <1>3, <1>4

\* There are never fewer usage rows.
LEMMA UsageGrows ==
  ASSUME TypeInv, [Next]_vars
  PROVE  Len(usage) <= Len(usage')
<1>1. CASE UNCHANGED usage
  BY <1>1 DEF TypeInv
<1>2. ASSUME NEW r \in Requests, Record(r) PROVE Len(usage) <= Len(usage')
  BY <1>2, RecordIs DEF TypeInv
<1>. QED
  BY <1>1, <1>2, WhoWrites

\* The limits in a row are those that a key can be given.
LEMMA RowType == \A row \in Row : row.rpm \in Nat /\ row.budget \in Nat \cup {NoBudget}
<1>1. \A l \in Limits : l.rpm \in Nat /\ l.budget \in Nat \cup {NoBudget}
  BY GatewayAssumption
<1>. QED
  BY <1>1 DEF Row

\* A check, seen from the request and its key.
LEMMA DecideIs ==
  ASSUME TypeInv, CheckOK, Decide
  PROVE  LET r == checking.request
             k == checking.key
             w == InWindow(windows[k])
         IN /\ r \in Requests /\ k \in Keys /\ req[r].st = "checking"
            /\ keys[k] \in Row /\ keys[k].rpm \in Nat /\ keys[k].budget \in Nat \cup {NoBudget}
            /\ req'[r] \in Outcome /\ req'[r].key = k /\ req'[r].at = now
            /\ req'[r].rows = Len(usage) /\ req'[r].life = restarts
            /\ \A q \in Requests : q # r => req'[q] = req[q]
            /\ \A j \in Keys : j # k => windows'[j] = windows[j]
            /\ UNCHANGED <<now, keys, usage, restarts>>
            /\ req'[r].st \in {"rate", "budget", "admitted"}
            /\ req'[r].st = "admitted" /\ keys[k].budget # NoBudget =>
                 ~ (SpendSince(usage, k, MonthStart(now)) >= keys[k].budget)
            /\ keys[k].rpm = 0 => windows'[k] = windows[k] /\ req'[r].st # "rate"
            /\ keys[k].rpm # 0 /\ Len(w) >= keys[k].rpm => windows'[k] = w /\ req'[r].st = "rate"
            /\ keys[k].rpm # 0 /\ ~ (Len(w) >= keys[k].rpm) =>
                 windows'[k] = Append(w, now) /\ req'[r].st # "rate"
<1>. DEFINE r == checking.request
            k == checking.key
            w == InWindow(windows[k])
<1>1. /\ checking \in Check /\ req[r].st = "checking" /\ keys[k] \in Row
      /\ checking.row.rpm = keys[k].rpm /\ checking.row.budget = keys[k].budget
  BY DEF Decide, CheckOK, TypeInv
<1>2. keys[k].rpm \in Nat /\ keys[k].budget \in Nat \cup {NoBudget}
  BY <1>1, RowType
<1>3. r \in Requests /\ k \in Keys
  BY <1>1 DEF Check
<1>4. Len(usage) \in Nat /\ now \in Nat /\ restarts \in Nat
  BY GatewayAssumption DEF TypeInv
<1>. DEFINE full == keys[k].rpm # 0 /\ Len(w) >= keys[k].rpm
            after == IF keys[k].rpm = 0 THEN windows[k] ELSE IF full THEN w ELSE Append(w, now)
            over == keys[k].budget # NoBudget /\ SpendSince(usage, k, MonthStart(now)) >= keys[k].budget
            st == IF full THEN "rate" ELSE IF over THEN "budget" ELSE "admitted"
            out == [st |-> st, key |-> k, at |-> now, rows |-> Len(usage), life |-> restarts]
<1>5. /\ windows' = [windows EXCEPT ![k] = after]
      /\ req' = [req EXCEPT ![r] = out]
      /\ UNCHANGED <<now, keys, usage, restarts>>
  BY <1>1 DEF Decide, OverBudget
<1>6. req'[r] = out /\ \A q \in Requests : q # r => req'[q] = req[q]
  BY <1>3, <1>5 DEF TypeInv
<1>7. windows'[k] = after /\ \A j \in Keys : j # k => windows'[j] = windows[j]
  BY <1>3, <1>5 DEF TypeInv
<1>8. st \in {"rate", "budget", "admitted"}
  OBVIOUS
<1>9. out \in Outcome
  BY <1>3, <1>4, <1>8 DEF Outcome, PassedRate, Admitted
<1>10. (st = "admitted" => ~ over) /\ (st = "rate" <=> full)
  OBVIOUS
<1>11. /\ out.key = k /\ out.at = now /\ out.rows = Len(usage) /\ out.life = restarts /\ out.st = st
  OBVIOUS
<1>12. /\ keys[k].rpm = 0 => after = windows[k] /\ ~ full
       /\ keys[k].rpm # 0 /\ Len(w) >= keys[k].rpm => after = w /\ full
       /\ keys[k].rpm # 0 /\ ~ (Len(w) >= keys[k].rpm) => after = Append(w, now) /\ ~ full
  OBVIOUS
<1>13. over <=> keys[k].budget # NoBudget /\ SpendSince(usage, k, MonthStart(now)) >= keys[k].budget
  OBVIOUS
<1>. HIDE DEF out, after, st, full, over, w, r, k
<1>. QED
  BY <1>1, <1>2, <1>3, <1>5, <1>6, <1>7, <1>8, <1>9, <1>10, <1>11, <1>12, <1>13 DEF r, k, w

\* Outcomes speak of keys that exist and of times that have been.
LEMMA DecidedStep ==
  ASSUME TypeInv, TypeInv', CheckOK, DecidedOK, [Next]_vars
  PROVE  DecidedOK'
<1>. SUFFICES ASSUME NEW r \in Requests, req'[r] \in Outcome
              PROVE  /\ keys'[req'[r].key] \in Row
                     /\ req'[r].at <= now' /\ req'[r].life <= restarts' /\ req'[r].rows <= Len(usage')
  BY DEF DecidedOK
<1>1. CASE Decide /\ r = checking.request
  BY <1>1, DecideIs, SMTT(40) DEF TypeInv
<1>2. CASE ~ (Decide /\ r = checking.request)
  <2>1. req[r] \in Outcome /\ Kept(r)
    BY <1>2, StepKeeps
  <2>2. req[r].key \in Keys /\ req[r].at \in Nat /\ req[r].life \in Nat /\ req[r].rows \in Nat
    BY <2>1 DEF Outcome
  <2>3. /\ keys[req[r].key] \in Row
        /\ req[r].at <= now /\ req[r].life <= restarts /\ req[r].rows <= Len(usage)
    BY <2>1 DEF DecidedOK
  <2>4. /\ keys'[req[r].key] \in Row
        /\ now <= now' /\ restarts <= restarts' /\ Len(usage) <= Len(usage')
    BY <2>2, <2>3, StepKeeps, UsageGrows
  <2>5. /\ now \in Nat /\ now' \in Nat /\ restarts \in Nat /\ restarts' \in Nat
        /\ Len(usage) \in Nat /\ Len(usage') \in Nat
    BY GatewayAssumption DEF TypeInv
  <2>. QED
    BY <2>1, <2>2, <2>3, <2>4, <2>5 DEF Kept
<1>. QED
  BY <1>1, <1>2

-----------------------------------------------------------------------------
(* The rate window.                                                        *)

\* After the old times have left, the window is that of the requests that passed in the
\* last 60 seconds.
LEMMA WindowLeft ==
  ASSUME TypeInv, WindowsOK, NEW k \in Keys, keys[k].rpm # 0
  PROVE  LET s == InWindow(windows[k]) IN
           /\ s \in Seq(Nat) /\ Sorted(s)
           /\ \A i \in 1..Len(s) : s[i] \in Month..now /\ s[i] > now - Window
           /\ \E m \in [1..Len(s) -> Requests] : Matches(m, s, Passed(k), req, now - Window)
<1>. DEFINE w == windows[k]
            s == InWindow(w)
<1>1. PICK n \in 0..Len(w) :
        /\ s \in Seq(Nat) /\ Len(s) = Len(w) - n
        /\ \A i \in 1..Len(s) : s[i] = w[n + i]
        /\ \A i \in 1..n : w[i] <= now - Window
        /\ n < Len(w) => w[n + 1] > now - Window
  BY InWindowIs
<1>2. /\ w \in Seq(Nat) /\ Sorted(w) /\ \A i \in 1..Len(w) : w[i] \in Month..now
      /\ now \in Nat /\ Month \in Nat /\ Window \in Nat
  BY GatewayAssumption DEF TypeInv, WindowsOK
<1>3. PICK m \in [1..Len(w) -> Requests] : Matches(m, w, Passed(k), req, now - Window)
  BY DEF WindowsOK
<1>. HIDE DEF w, s
<1>4. \A i \in 1..Len(s) : n + i \in 1..Len(w) /\ n + 1 <= n + i /\ n + 1 \in 1..Len(w)
  BY <1>1, <1>2, SMTT(40)
<1>5. Sorted(s)
  <2>. SUFFICES ASSUME NEW i \in 1..Len(s), NEW j \in 1..Len(s), i <= j PROVE s[i] <= s[j]
    BY DEF Sorted
  <2>1. n + i \in 1..Len(w) /\ n + j \in 1..Len(w) /\ n + i <= n + j
    BY <1>4
  <2>2. s[i] = w[n + i] /\ s[j] = w[n + j]
    BY <1>1
  <2>. QED
    BY <1>2, <2>1, <2>2 DEF Sorted
<1>6. \A i \in 1..Len(s) : s[i] \in Month..now /\ s[i] > now - Window
  <2>. SUFFICES ASSUME NEW i \in 1..Len(s) PROVE s[i] \in Month..now /\ s[i] > now - Window
    OBVIOUS
  <2>1. w[n + 1] <= w[n + i]
    BY <1>2, <1>4 DEF Sorted
  <2>2. w[n + 1] > now - Window
    BY <1>1, <1>2, <1>4
  <2>3. w[n + 1] \in Nat /\ w[n + i] \in Month..now
    BY <1>2, <1>4, SMTT(40)
  <2>4. s[i] = w[n + i]
    BY <1>1
  <2>. QED
    BY <1>2, <2>1, <2>2, <2>3, <2>4, SMTT(40)
<1>. DEFINE f == [i \in 1..Len(s) |-> m[n + i]]
<1>7. f \in [1..Len(s) -> Passed(k)]
  BY <1>3, <1>4 DEF Matches
<1>8. \A i, j \in 1..Len(s) : f[i] = f[j] => i = j
  BY <1>1, <1>3, <1>4, SMTT(40) DEF Matches
<1>9. \A i \in 1..Len(s) : req[f[i]].at = s[i]
  BY <1>1, <1>3, <1>4 DEF Matches
<1>10. \A r \in Passed(k) : req[r].at > now - Window => \E i \in 1..Len(s) : f[i] = r
  <2>. SUFFICES ASSUME NEW r \in Passed(k), req[r].at > now - Window
                PROVE  \E i \in 1..Len(s) : f[i] = r
    OBVIOUS
  <2>1. PICK j \in 1..Len(w) : m[j] = r /\ w[j] = req[r].at
    BY <1>3 DEF Matches
  <2>2. j \notin 1..n
    BY <1>1, <1>2, <2>1
  <2>3. j - n \in 1..Len(s) /\ n + (j - n) = j
    BY <1>1, <1>2, <2>2
  <2>4. f[j - n] = r
    BY <2>1, <2>3
  <2>. QED
    BY <2>3, <2>4
<1>11. f \in [1..Len(s) -> Requests]
  BY <1>7 DEF Passed
<1>12. Matches(f, s, Passed(k), req, now - Window)
  <2>. HIDE DEF f
  <2>. QED
    BY <1>7, <1>8, <1>9, <1>10 DEF Matches
<1>. HIDE DEF f
<1>. QED
  BY <1>1, <1>5, <1>6, <1>11, <1>12 DEF s, w

\* Its length counts those requests.
LEMMA WindowCounts ==
  ASSUME TypeInv, DecidedOK, WindowsOK, NEW k \in Keys, keys[k].rpm # 0
  PROVE  LET D == Decided(k, restarts, now, PassedRate)
         IN IsFiniteSet(D) /\ Cardinality(D) = Len(InWindow(windows[k]))
<1>. DEFINE s == InWindow(windows[k])
            D == Decided(k, restarts, now, PassedRate)
<1>1. /\ s \in Seq(Nat)
      /\ \A i \in 1..Len(s) : s[i] \in Month..now /\ s[i] > now - Window
      /\ \E m \in [1..Len(s) -> Requests] : Matches(m, s, Passed(k), req, now - Window)
  BY WindowLeft
<1>2. PICK m \in [1..Len(s) -> Requests] : Matches(m, s, Passed(k), req, now - Window)
  BY <1>1
<1>3. now \in Nat /\ Month \in Nat /\ Window \in Nat
  BY GatewayAssumption DEF TypeInv
<1>. HIDE DEF s
<1>4. \A r \in Requests : r \in D <=> r \in Passed(k) /\ req[r].at > now - Window
  <2>. SUFFICES ASSUME NEW r \in Requests, r \in Passed(k)
                PROVE  req[r].at \in (now - Window + 1)..now <=> req[r].at > now - Window
    BY <1>3 DEF Decided, Passed
  <2>1. req[r] \in Outcome
    BY DEF Passed, TypeInv, NoOutcome, PassedRate, Admitted
  <2>2. req[r].at \in Nat /\ req[r].at <= now
    BY <2>1 DEF Outcome, DecidedOK
  <2>. QED
    BY <1>3, <2>2
<1>5. m \in [1..Len(s) -> D]
  <2>1. \A i \in 1..Len(s) : m[i] \in Passed(k) /\ req[m[i]].at = s[i] /\ s[i] > now - Window
    BY <1>1, <1>2 DEF Matches
  <2>2. Passed(k) \subseteq Requests
    BY DEF Passed
  <2>3. \A i \in 1..Len(s) : m[i] \in D
    BY <1>4, <2>1, <2>2
  <2>. QED
    BY <1>2, <2>3
<1>6. \A r \in D : \E i \in 1..Len(s) : m[i] = r
  <2>1. D \subseteq Requests
    BY DEF Decided
  <2>. QED
    BY <1>2, <1>4, <2>1 DEF Matches
<1>7. \A i, j \in 1..Len(s) : m[i] = m[j] => i = j
  BY <1>2 DEF Matches
<1>8. IsFiniteSet(1..Len(s)) /\ Cardinality(1..Len(s)) = Len(s)
  <2>1. Len(s) \in Nat /\ Len(s) \in Int /\ 1 \in Int
    BY <1>1
  <2>2. /\ IsFiniteSet(1..Len(s))
        /\ Cardinality(1..Len(s)) = IF 1 > Len(s) THEN 0 ELSE Len(s) - 1 + 1
    BY <2>1, FS_Interval, Zenon
  <2>. QED
    BY <2>1, <2>2
<1>. HIDE DEF D
<1>9. m \in Injection(1..Len(s), D) /\ m \in Surjection(1..Len(s), D)
  BY <1>5, <1>6, <1>7 DEF Injection, Surjection, IsInjective
<1>10. IsFiniteSet(D) /\ Cardinality(D) = Cardinality(1..Len(s))
  BY <1>8, <1>9, FS_Surjection
<1>. QED
  BY <1>8, <1>10 DEF s, D

\* Who has passed the rate check in this life has an outcome.
LEMMA PassedHasOutcome ==
  ASSUME TypeInv, NEW r \in Requests, req[r].st \in PassedRate
  PROVE  req[r] \in Outcome
BY DEF TypeInv, NoOutcome, PassedRate, Admitted

\* Where nothing is decided and the gateway goes on, the same requests have passed.
LEMMA PassedKept ==
  ASSUME TypeInv, TypeInv', [Next]_vars, ~ Decide, UNCHANGED restarts, NEW k \in Keys
  PROVE  Passed(k)' = Passed(k) /\ \A r \in Passed(k) : req'[r].at = req[r].at
<1>1. \A r \in Requests : req[r].st \in PassedRate => Kept(r)
  BY PassedHasOutcome, StepKeeps
<1>2. \A r \in Requests : req'[r].st \in PassedRate => req'[r] \in Outcome
  BY DEF TypeInv, NoOutcome, PassedRate, Admitted
<1>3. \A r \in Requests : req'[r].st \in PassedRate => Kept(r)
  BY <1>2, StepKeeps
<1>4. \A r \in Requests : r \in Passed(k)' <=> r \in Passed(k)
  BY <1>1, <1>3 DEF Passed, Kept, PassedRate, Admitted
<1>5. Passed(k)' = Passed(k)
  BY <1>4 DEF Passed
<1>. QED
  BY <1>1, <1>5 DEF Passed, Kept

\* Windows stay in step with the requests that passed.
LEMMA WindowsStep ==
  ASSUME TypeInv, TypeInv', CheckOK, DecidedOK, DecidedOK', WindowsOK, [Next]_vars
  PROVE  WindowsOK'
<1>. SUFFICES ASSUME NEW k \in Keys
              PROVE  /\ Sorted(windows'[k])
                     /\ \A i \in 1..Len(windows'[k]) : windows'[k][i] \in Month..now'
                     /\ keys'[k].rpm = 0 => windows'[k] = << >>
                     /\ keys'[k].rpm # 0 =>
                          \E m \in [1..Len(windows'[k]) -> Requests] :
                             Matches(m, windows'[k], Passed(k)', req', now' - Window)
  BY DEF WindowsOK, Sorted
<1>1. /\ now \in Nat /\ now' \in Nat /\ now <= now' /\ Month \in Nat /\ Month <= now /\ Window \in Nat
      /\ windows[k] \in Seq(Nat) /\ windows'[k] \in Seq(Nat)
  BY StepKeeps, GatewayAssumption DEF TypeInv
<1>2. /\ Sorted(windows[k]) /\ \A i \in 1..Len(windows[k]) : windows[k][i] \in Month..now
      /\ keys[k].rpm = 0 => windows[k] = << >>
      /\ keys[k].rpm # 0 =>
           \E m \in [1..Len(windows[k]) -> Requests] : Matches(m, windows[k], Passed(k), req, now - Window)
  BY DEF WindowsOK
<1>3. ASSUME windows'[k] = << >>, Passed(k)' = {}
      PROVE  \E m \in [1..Len(windows'[k]) -> Requests] :
                Matches(m, windows'[k], Passed(k)', req', now' - Window)
  <2>. DEFINE f == [i \in 1..0 |-> k]
  <2>1. f \in [1..0 -> Requests] /\ f \in [1..0 -> {}] /\ Len(windows'[k]) = 0
    BY <1>3
  <2>2. Matches(f, windows'[k], Passed(k)', req', now' - Window)
    BY <1>3, <2>1 DEF Matches
  <2>. HIDE DEF f
  <2>. QED
    BY <2>1, <2>2
<1>4. CASE ~ Decide /\ UNCHANGED <<windows, restarts>>
  <2>1. Passed(k)' = Passed(k) /\ \A r \in Passed(k) : req'[r].at = req[r].at
    BY <1>4, PassedKept
  <2>2. keys[k] \in Row \/ keys[k] = NoRow
    BY DEF TypeInv
  <2>3. CASE keys[k] \in Row
    <3>1. keys'[k].rpm = keys[k].rpm
      BY <2>3, StepKeeps
    <3>2. ASSUME NEW m \in [1..Len(windows[k]) -> Requests], Matches(m, windows[k], Passed(k), req, now - Window)
          PROVE  Matches(m, windows'[k], Passed(k)', req', now' - Window)
      <4>1. \A r \in Passed(k) : req[r].at \in Nat
        BY PassedHasOutcome DEF Passed, Outcome
      <4>2. \A r \in Passed(k) : req'[r].at > now' - Window => req[r].at > now - Window
        BY <1>1, <2>1, <4>1
      <4>3. windows'[k] = windows[k]
        BY <1>4
      <4>. QED
        BY <2>1, <3>2, <4>2, <4>3 DEF Matches
    <3>. QED
      BY <1>1, <1>2, <1>4, <3>1, <3>2, SMTT(40)
  <2>4. CASE keys[k] = NoRow
    <3>1. keys[k].rpm = 0 /\ keys[k] \notin Row
      <4>1. \A row \in Row : row.state # "none"
        BY DEF Row
      <4>. QED
        BY <2>4, <4>1 DEF NoRow
    <3>2. Passed(k) = {}
      BY <3>1, PassedHasOutcome DEF Passed, DecidedOK
    <3>. QED
      BY <1>2, <1>3, <1>4, <2>1, <3>1, <3>2 DEF Sorted
  <2>. QED
    BY <2>2, <2>3, <2>4
<1>5. CASE Restart
  <2>1. windows'[k] = << >> /\ restarts' = restarts + 1 /\ ~ Decide
    BY <1>5 DEF Restart, Decide
  <2>2. Passed(k)' = {}
    <3>. SUFFICES ASSUME NEW r \in Requests, req'[r].st \in PassedRate, req'[r].life = restarts'
                  PROVE  FALSE
      BY DEF Passed
    <3>1. req'[r] \in Outcome
      BY DEF TypeInv, NoOutcome, PassedRate, Admitted
    <3>2. req[r] \in Outcome /\ req[r].life = req'[r].life
      BY <2>1, <3>1, StepKeeps DEF Kept
    <3>3. req[r].life <= restarts /\ restarts \in Nat
      BY <3>2 DEF DecidedOK, TypeInv
    <3>. QED
      BY <2>1, <3>2, <3>3
  <2>. QED
    BY <1>3, <2>1, <2>2 DEF Sorted
<1>6. CASE Decide /\ k # checking.key
  <2>1. /\ windows'[k] = windows[k] /\ UNCHANGED <<now, keys, restarts>>
        /\ checking.request \in Requests /\ req[checking.request].st = "checking"
        /\ req'[checking.request].key # k
        /\ \A q \in Requests : q # checking.request => req'[q] = req[q]
    BY <1>6, DecideIs
  <2>2. Passed(k)' = Passed(k) /\ \A r \in Passed(k) : req'[r].at = req[r].at
    BY <2>1 DEF Passed, PassedRate, Admitted
  <2>3. \A m \in [1..Len(windows[k]) -> Requests] :
          Matches(m, windows[k], Passed(k), req, now - Window)
            => Matches(m, windows'[k], Passed(k)', req', now' - Window)
    BY <2>1, <2>2 DEF Matches
  <2>. QED
    BY <1>1, <1>2, <2>1, <2>3
<1>7. CASE Decide /\ k = checking.key
  <2>. DEFINE r == checking.request
              w == InWindow(windows[k])
  <2>1. /\ r \in Requests /\ req[r].st = "checking" /\ UNCHANGED <<now, keys, restarts>>
        /\ req'[r].key = k /\ req'[r].at = now /\ req'[r].life = restarts
        /\ \A q \in Requests : q # r => req'[q] = req[q]
        /\ req'[r].st \in {"rate", "budget", "admitted"}
        /\ keys[k].rpm \in Nat
        /\ keys[k].rpm = 0 => windows'[k] = windows[k]
        /\ keys[k].rpm # 0 /\ Len(w) >= keys[k].rpm => windows'[k] = w /\ req'[r].st = "rate"
        /\ keys[k].rpm # 0 /\ ~ (Len(w) >= keys[k].rpm) => windows'[k] = Append(w, now) /\ req'[r].st # "rate"
    BY <1>7, DecideIs
  <2>2. CASE keys[k].rpm = 0
    BY <1>1, <1>2, <2>1, <2>2
  <2>3. CASE keys[k].rpm # 0
    <3>1. /\ w \in Seq(Nat) /\ Sorted(w)
          /\ \A i \in 1..Len(w) : w[i] \in Month..now /\ w[i] > now - Window
          /\ \E m \in [1..Len(w) -> Requests] : Matches(m, w, Passed(k), req, now - Window)
      BY <2>3, WindowLeft
    <3>. HIDE DEF w, r
    <3>2. PICK m \in [1..Len(w) -> Requests] : Matches(m, w, Passed(k), req, now - Window)
      BY <3>1
    <3>3. r \notin Passed(k) /\ \A q \in Passed(k) : req'[q] = req[q]
      BY <2>1 DEF Passed, PassedRate, Admitted
    <3>4. CASE Len(w) >= keys[k].rpm
      <4>1. Passed(k)' = Passed(k)
        BY <2>1, <2>3, <3>4 DEF Passed, PassedRate, Admitted
      <4>2. windows'[k] = w
        BY <2>1, <2>3, <3>4
      <4>3. Matches(m, w, Passed(k), req', now' - Window)
        BY <2>1, <3>2, <3>3 DEF Matches
      <4>4. Sorted(w) /\ \A i \in 1..Len(w) : w[i] \in Month..now'
        BY <2>1, <3>1
      <4>. QED
        BY <2>1, <2>3, <4>1, <4>2, <4>3, <4>4
    <3>5. CASE ~ (Len(w) >= keys[k].rpm)
      <4>. DEFINE v == Append(w, now)
                  f == [i \in 1..Len(v) |-> IF i <= Len(w) THEN m[i] ELSE r]
      <4>1. windows'[k] = v /\ Passed(k)' = Passed(k) \cup {r}
        BY <2>1, <2>3, <3>5 DEF Passed, PassedRate, Admitted
      <4>2. /\ Len(w) \in Nat /\ Len(v) = Len(w) + 1 /\ v[Len(v)] = now
            /\ \A i \in 1..Len(w) : v[i] = w[i]
        BY <1>1, <3>1
      <4>. HIDE DEF v
      <4>3. Sorted(v) /\ \A i \in 1..Len(v) : v[i] \in Month..now
        <5>1. \A i \in 1..Len(v) : i \in 1..Len(w) \/ i = Len(v)
          BY <4>2
        <5>2. \A i \in 1..Len(v) : v[i] \in Month..now
          <6>1. \A i \in 1..Len(w) : v[i] \in Month..now
            BY <3>1, <4>2
          <6>2. v[Len(v)] \in Month..now
            BY <1>1, <4>2
          <6>. QED
            BY <5>1, <6>1, <6>2
        <5>3. \A i \in 1..Len(w), j \in 1..Len(w) : i <= j => v[i] <= v[j]
          BY <3>1, <4>2 DEF Sorted
        <5>4. ASSUME NEW i \in 1..Len(v), NEW j \in 1..Len(v), i <= j PROVE v[i] <= v[j]
          <6>1. CASE j = Len(v)
            <7>1. v[j] = now /\ v[i] \in Month..now
              BY <4>2, <5>2, <6>1
            <7>. QED
              BY <1>1, <7>1
          <6>2. CASE j \in 1..Len(w)
            <7>1. i \in 1..Len(w)
              BY <4>2, <5>4, <6>2
            <7>. QED
              BY <5>3, <5>4, <6>2, <7>1
          <6>. QED
            BY <5>1, <6>1, <6>2
        <5>. QED
          BY <5>2, <5>4 DEF Sorted
      <4>4. /\ \A i \in 1..Len(w) : f[i] = m[i]
            /\ f[Len(v)] = r
            /\ \A i \in 1..Len(w) : m[i] \in Passed(k)
        BY <3>2, <4>2 DEF Matches
      <4>5. f \in [1..Len(v) -> Passed(k)']
        BY <4>1, <4>4
      <4>6. f \in [1..Len(v) -> Requests]
        BY <2>1, <4>2
      <4>. HIDE DEF f
      <4>7. \A i, j \in 1..Len(v) : f[i] = f[j] => i = j
        <5>1. \A i \in 1..Len(w) : f[i] # r
          BY <3>3, <4>4
        <5>2. \A i, j \in 1..Len(w) : f[i] = f[j] => i = j
          BY <3>2, <4>4 DEF Matches
        <5>. QED
          BY <4>2, <4>4, <5>1, <5>2
      <4>8. \A i \in 1..Len(v) : req'[f[i]].at = v[i]
        <5>1. \A i \in 1..Len(w) : req'[f[i]].at = v[i]
          BY <3>2, <3>3, <4>2, <4>4 DEF Matches
        <5>. QED
          BY <2>1, <4>2, <4>4, <5>1
      <4>9. \A q \in Passed(k)' : req'[q].at > now - Window => \E i \in 1..Len(v) : f[i] = q
        <5>. SUFFICES ASSUME NEW q \in Passed(k)', req'[q].at > now - Window
                      PROVE  \E i \in 1..Len(v) : f[i] = q
          OBVIOUS
        <5>1. CASE q = r
          BY <4>2, <4>4, <5>1
        <5>2. CASE q # r
          <6>1. q \in Passed(k) /\ req[q].at > now - Window
            BY <3>3, <4>1, <5>2
          <6>2. PICK i \in 1..Len(w) : m[i] = q
            BY <3>2, <6>1 DEF Matches
          <6>. QED
            BY <4>2, <4>4, <6>2
        <5>. QED
          BY <5>1, <5>2
      <4>10. Matches(f, windows'[k], Passed(k)', req', now' - Window)
        BY <2>1, <4>1, <4>5, <4>7, <4>8, <4>9 DEF Matches
      <4>. QED
        BY <2>1, <2>3, <4>1, <4>3, <4>6, <4>10
    <3>. QED
      BY <3>4, <3>5
  <2>. QED
    BY <2>2, <2>3
<1>. QED
  BY <1>4, <1>5, <1>6, <1>7, WhoWrites

\* No step puts more times into a window than the limit of its key.
LEMMA FitStep ==
  ASSUME TypeInv, TypeInv', CheckOK, WindowsFit, [Next]_vars
  PROVE  WindowsFit'
<1>. SUFFICES ASSUME NEW k \in Keys PROVE Len(windows'[k]) <= keys'[k].rpm
  BY DEF WindowsFit
<1>1. /\ windows[k] \in Seq(Nat) /\ windows'[k] \in Seq(Nat) /\ Len(windows[k]) <= keys[k].rpm
      /\ \A key \in Row \cup {NoRow} : key.rpm \in Nat
      /\ keys[k] \in Row \cup {NoRow} /\ keys'[k] \in Row \cup {NoRow}
  BY RowType DEF TypeInv, NoRow, WindowsFit
<1>2. CASE UNCHANGED windows
  <2>1. CASE keys[k] \in Row
    BY <1>1, <1>2, <2>1, StepKeeps
  <2>2. CASE keys[k] = NoRow
    BY <1>1, <1>2, <2>2 DEF NoRow
  <2>. QED
    BY <1>1, <2>1, <2>2
<1>3. CASE Restart
  <2>1. windows'[k] = << >>
    BY <1>3 DEF Restart
  <2>. QED
    BY <1>1, <2>1
<1>4. CASE Decide /\ k # checking.key
  BY <1>1, <1>4, DecideIs
<1>5. CASE Decide /\ k = checking.key
  <2>. DEFINE w == InWindow(windows[k])
  <2>1. w \in Seq(Nat) /\ Len(w) <= Len(windows[k])
    BY <1>1, InWindowIs
  <2>. HIDE DEF w
  <2>2. /\ keys' = keys /\ keys[k].rpm \in Nat
        /\ \/ windows'[k] = windows[k] \/ windows'[k] = w
           \/ ~ (Len(w) >= keys[k].rpm) /\ windows'[k] = Append(w, now)
    BY <1>5, DecideIs DEF w
  <2>3. Len(Append(w, now)) = Len(w) + 1
    BY <2>1
  <2>. QED
    BY <1>1, <2>1, <2>2, <2>3
<1>. QED
  BY <1>2, <1>3, <1>4, <1>5, WhoWrites

\* A set of decided requests is finite.
LEMMA DecidedFinite ==
  ASSUME NEW k, NEW life, NEW t, NEW sts
  PROVE  /\ IsFiniteSet(Decided(k, life, t, sts)) /\ Cardinality(Decided(k, life, t, sts)) \in Nat
         /\ IsFiniteSet(Decided(k, life, t, sts)') /\ Cardinality(Decided(k, life, t, sts)') \in Nat
<1>1. \A T \in SUBSET Requests : IsFiniteSet(T) /\ Cardinality(T) \in Nat
  BY FS_Subset, FS_CardinalityType, GatewayAssumption
<1>2. Decided(k, life, t, sts) \in SUBSET Requests /\ Decided(k, life, t, sts)' \in SUBSET Requests
  BY DEF Decided
<1>. QED
  BY <1>1, <1>2

\* Only a check adds to the requests that were decided, and only its own.
LEMMA DecidedGrows ==
  ASSUME TypeInv, TypeInv', CheckOK, [Next]_vars,
         NEW k, NEW life, NEW t, NEW sts \in {Admitted, PassedRate}
  PROVE  /\ ~ Decide => Decided(k, life, t, sts)' = Decided(k, life, t, sts)
         /\ Decide => LET r == checking.request IN
              /\ Decided(k, life, t, sts) \subseteq Decided(k, life, t, sts)'
              /\ Decided(k, life, t, sts)' \subseteq Decided(k, life, t, sts) \cup {r}
              /\ r \in Decided(k, life, t, sts)' =>
                   /\ req'[r].st \in sts /\ k = checking.key /\ life = restarts
                   /\ now \in (t - Window + 1)..t
<1>1. \A r \in Requests : req[r].st \in sts => req[r] \in Outcome
  BY PassedHasOutcome DEF PassedRate
<1>2. \A r \in Requests : req'[r].st \in sts => req'[r] \in Outcome
  BY DEF TypeInv, NoOutcome, PassedRate, Admitted
<1>3. CASE ~ Decide
  <2>1. \A r \in Requests : req[r].st \in sts \/ req'[r].st \in sts => Kept(r)
    BY <1>1, <1>2, <1>3, StepKeeps
  <2>2. \A r \in Requests : r \in Decided(k, life, t, sts)' <=> r \in Decided(k, life, t, sts)
    BY <2>1 DEF Decided, Kept, PassedRate, Admitted
  <2>. QED
    BY <1>3, <2>2 DEF Decided
<1>4. CASE Decide
  <2>. DEFINE r == checking.request
  <2>1. /\ r \in Requests /\ req[r].st = "checking"
        /\ req'[r].key = checking.key /\ req'[r].at = now /\ req'[r].life = restarts
        /\ \A q \in Requests : q # r => req'[q] = req[q]
    BY <1>4, DecideIs
  <2>2. r \notin Decided(k, life, t, sts)
    BY <2>1 DEF Decided, PassedRate, Admitted
  <2>3. \A q \in Requests : q # r => (q \in Decided(k, life, t, sts)' <=> q \in Decided(k, life, t, sts))
    BY <2>1 DEF Decided
  <2>4. r \in Decided(k, life, t, sts)' =>
          /\ req'[r].st \in sts /\ k = checking.key /\ life = restarts
          /\ now \in (t - Window + 1)..t
    BY <2>1 DEF Decided
  <2>5. Decided(k, life, t, sts)' \subseteq Requests /\ Decided(k, life, t, sts) \subseteq Requests
    BY DEF Decided
  <2>. HIDE DEF r
  <2>6. /\ Decided(k, life, t, sts) \subseteq Decided(k, life, t, sts)'
        /\ Decided(k, life, t, sts)' \subseteq Decided(k, life, t, sts) \cup {r}
    BY <2>2, <2>3, <2>5
  <2>. QED
    BY <1>4, <2>4, <2>6 DEF r
<1>. QED
  BY <1>3, <1>4

\* A request that passes finds fewer than the limit in the window.
LEMMA RateStep ==
  ASSUME TypeInv, TypeInv', CheckOK, DecidedOK, WindowsOK, RateLimit, [Next]_vars
  PROVE  RateLimit'
<1>. SUFFICES ASSUME NEW k \in Keys, NEW life \in 0..restarts', NEW t \in Month..MaxTime, keys'[k].rpm # 0
              PROVE  Cardinality(Decided(k, life, t, Admitted)') <= keys'[k].rpm
  BY DEF RateLimit
<1>. DEFINE D == Decided(k, life, t, Admitted)
            E == Decided(k, restarts, now, PassedRate)
            r == checking.request
<1>1. keys'[k].rpm \in Nat
  BY RowType DEF TypeInv, NoRow
<1>2. IsFiniteSet(D) /\ Cardinality(D) \in Nat
  BY DecidedFinite
<1>3. keys[k] \in Row => keys'[k].rpm = keys[k].rpm
  BY StepKeeps
<1>4. Cardinality(D) <= keys'[k].rpm
  <2>1. CASE keys[k] \in Row /\ life \in 0..restarts
    BY <1>3, <2>1 DEF RateLimit
  <2>2. CASE ~ (keys[k] \in Row /\ life \in 0..restarts)
    <3>1. \A q \in Requests : q \notin D
      <4>. SUFFICES ASSUME NEW q \in Requests, q \in D PROVE FALSE
        OBVIOUS
      <4>1. req[q] \in Outcome /\ req[q].key = k /\ req[q].life = life
        BY PassedHasOutcome DEF Decided, PassedRate
      <4>2. keys[k] \in Row /\ life <= restarts /\ life \in Nat
        BY <4>1 DEF DecidedOK, Outcome
      <4>. QED
        BY <2>2, <4>2 DEF TypeInv
    <3>2. D = {}
      BY <3>1 DEF Decided
    <3>. HIDE DEF D
    <3>3. Cardinality(D) = 0
      BY <3>2, FS_EmptySet
    <3>. QED
      BY <1>1, <3>3
  <2>. QED
    BY <2>1, <2>2
<1>5. CASE ~ Decide \/ r \notin D'
  <2>1. D' = D
    BY <1>5, DecidedGrows
  <2>. QED
    BY <1>4, <2>1
<1>6. CASE Decide /\ r \in D'
  <2>1. /\ D' \subseteq D \cup {r} /\ req'[r].st \in Admitted /\ k = checking.key
        /\ life = restarts /\ now \in (t - Window + 1)..t
    BY <1>6, DecidedGrows
  <2>2. /\ keys[k] \in Row /\ keys'[k] = keys[k] /\ keys[k].rpm \in Nat
        /\ ~ (keys[k].rpm # 0 /\ Len(InWindow(windows[k])) >= keys[k].rpm)
    BY <1>6, <2>1, DecideIs DEF Admitted
  <2>3. /\ IsFiniteSet(E) /\ Cardinality(E) = Len(InWindow(windows[k])) /\ Cardinality(E) \in Nat
    BY <2>2, WindowCounts, DecidedFinite
  <2>4. D \subseteq E
    <3>. SUFFICES ASSUME NEW q \in D PROVE q \in E
      OBVIOUS
    <3>1. q \in Requests /\ req[q] \in Outcome /\ req[q].at \in (t - Window + 1)..t
      BY PassedHasOutcome DEF Decided, PassedRate
    <3>2. req[q].at \in Nat /\ req[q].at <= now
      BY <3>1 DEF DecidedOK, Outcome
    <3>3. req[q].at \in (now - Window + 1)..now
      BY <2>1, <3>1, <3>2, GatewayAssumption DEF TypeInv
    <3>. QED
      BY <2>1, <3>3 DEF Decided, PassedRate
  <2>5. D' \subseteq E \cup {r}
    BY <2>1, <2>4
  <2>. HIDE DEF D, E
  <2>6. IsFiniteSet(E \cup {r}) /\ Cardinality(E \cup {r}) <= Cardinality(E) + 1
        /\ Cardinality(E \cup {r}) \in Nat
    <3>1. /\ IsFiniteSet(E \cup {r})
          /\ Cardinality(E \cup {r}) = IF r \in E THEN Cardinality(E) ELSE Cardinality(E) + 1
      BY <2>3, FS_AddElement
    <3>. QED
      BY <2>3, <3>1
  <2>7. Cardinality(D') <= Cardinality(E \cup {r}) /\ Cardinality(D') \in Nat
    <3>1. D' \in SUBSET (E \cup {r})
      BY <2>5
    <3>. QED
      BY <2>6, <3>1, FS_Subset, FS_CardinalityType
  <2>8. Cardinality(D') <= keys'[k].rpm
    BY <2>2, <2>3, <2>6, <2>7
  <2>. QED
    BY <2>8 DEF D
<1>. QED
  BY <1>5, <1>6

\* A request that is refused for its rate finds the window full, and it stays so.
LEMMA RefusedStep ==
  ASSUME TypeInv, TypeInv', CheckOK, DecidedOK, WindowsOK, RefusedOnlyWhenFull, [Next]_vars
  PROVE  RefusedOnlyWhenFull'
<1>1. ASSUME NEW r \in Requests, req'[r].st = "rate",
             NEW k \in Keys, NEW life \in Nat, NEW t \in Nat,
             k = req'[r].key, life = req'[r].life, t = req'[r].at
      PROVE  Cardinality(Decided(k, life, t, PassedRate)') >= keys'[k].rpm
  <2>. DEFINE D == Decided(k, life, t, PassedRate)
  <2>1. req'[r] \in Outcome
    BY <1>1 DEF TypeInv, NoOutcome
  <2>2. D \subseteq D'
    BY DecidedGrows
  <2>3. Cardinality(D) \in Nat /\ Cardinality(D') \in Nat /\ Cardinality(D) <= Cardinality(D')
    <3>1. IsFiniteSet(D) /\ IsFiniteSet(D') /\ Cardinality(D) \in Nat /\ Cardinality(D') \in Nat
      BY DecidedFinite
    <3>2. D \in SUBSET D'
      BY <2>2
    <3>. HIDE DEF D
    <3>. QED
      BY <3>1, <3>2, FS_Subset
  <2>4. CASE Decide /\ r = checking.request
    <3>1. /\ k = checking.key /\ t = now /\ life = restarts
          /\ keys'[k] = keys[k] /\ keys[k].rpm \in Nat
          /\ keys[k].rpm # 0 /\ Len(InWindow(windows[k])) >= keys[k].rpm
      BY <1>1, <2>4, DecideIs
    <3>2. Cardinality(D) = Len(InWindow(windows[k]))
      BY <3>1, WindowCounts
    <3>3. Cardinality(D) >= keys'[k].rpm
      BY <3>1, <3>2
    <3>. HIDE DEF D
    <3>4. Cardinality(D') >= keys'[k].rpm
      BY <2>3, <3>1, <3>3
    <3>. QED
      BY <3>4 DEF D
  <2>5. CASE ~ (Decide /\ r = checking.request)
    <3>1. req[r] \in Outcome /\ Kept(r)
      BY <2>1, <2>5, StepKeeps
    <3>2. req[r].st = "rate" /\ req[r].key = k /\ req[r].life = life /\ req[r].at = t
      BY <1>1, <3>1 DEF Kept
    <3>3. Cardinality(D) >= keys[k].rpm
      BY <3>2 DEF RefusedOnlyWhenFull, PassedRate
    <3>4. keys'[k].rpm = keys[k].rpm /\ keys[k].rpm \in Nat
      BY <3>1, <3>2, StepKeeps, RowType DEF DecidedOK
    <3>. HIDE DEF D
    <3>5. Cardinality(D') >= keys'[k].rpm
      BY <2>3, <3>3, <3>4
    <3>. QED
      BY <3>5 DEF D
  <2>. QED
    BY <2>4, <2>5
<1>2. ASSUME NEW r \in Requests, req'[r].st = "rate"
      PROVE  req'[r].key \in Keys /\ req'[r].life \in Nat /\ req'[r].at \in Nat
  BY <1>2 DEF TypeInv, NoOutcome, Outcome
<1>3. ASSUME NEW r \in Requests, req'[r].st = "rate"
      PROVE  (Cardinality(Decided(req[r].key, req[r].life, req[r].at, PassedRate)) >= keys[req[r].key].rpm)'
  <2>. DEFINE k == req'[r].key
              life == req'[r].life
              t == req'[r].at
  <2>1. k \in Keys /\ life \in Nat /\ t \in Nat
    BY <1>2, <1>3
  <2>2. Decided(req[r].key, req[r].life, req[r].at, PassedRate)'
          = {q \in Requests : /\ req'[q].st \in PassedRate /\ req'[q].key = k /\ req'[q].life = life
                              /\ req'[q].at \in (t - Window + 1)..t}
    BY DEF Decided, PassedRate, Admitted
  <2>. HIDE DEF k, life, t
  <2>3. Cardinality({q \in Requests : /\ req'[q].st \in PassedRate /\ req'[q].key = k /\ req'[q].life = life
                                      /\ req'[q].at \in (t - Window + 1)..t}) >= keys'[k].rpm
    BY <1>1, <1>3, <2>1 DEF k, life, t, Decided, PassedRate, Admitted
  <2>. QED
    BY <2>2, <2>3 DEF k
<1>. QED
  BY <1>3 DEF RefusedOnlyWhenFull, PassedRate

-----------------------------------------------------------------------------
(* The budget.                                                             *)

\* Usage rows are written in the order of their times, when a call ends.
LEMMA UsageStep ==
  ASSUME TypeInv, TypeInv', CheckOK, UsageOK, [Next]_vars
  PROVE  UsageOK'
<1>1. now \in Nat /\ now' \in Nat /\ now <= now' /\ usage \in Seq(UsageRow) /\ usage' \in Seq(UsageRow)
  BY StepKeeps, GatewayAssumption DEF TypeInv
<1>2. \A j \in 1..Len(usage) : usage[j] \in UsageRow /\ usage[j].request \in Requests /\ usage[j].ts \in Nat
  <2>1. \A j \in 1..Len(usage) : usage[j] \in UsageRow
    BY <1>1, ElementOfSeq
  <2>. QED
    BY <2>1 DEF UsageRow
<1>3. \A j \in 1..Len(usage) : LET q == usage[j].request IN
        req'[q].st = "recorded" /\ req'[q].key = usage[j].key
  <2>. SUFFICES ASSUME NEW j \in 1..Len(usage), NEW q \in Requests, q = usage[j].request
                PROVE  req'[q].st = "recorded" /\ req'[q].key = usage[j].key
    BY <1>2
  <2>1. req[q].st = "recorded" /\ req[q].key = usage[j].key
    BY DEF UsageOK
  <2>2. req[q] \in Outcome /\ ~ (Decide /\ q = checking.request)
    BY <2>1, PassedHasOutcome, DecideIs DEF PassedRate, Admitted
  <2>. QED
    BY <2>1, <2>2, StepKeeps DEF Kept
<1>4. CASE UNCHANGED usage
  BY <1>1, <1>2, <1>3, <1>4 DEF UsageOK
<1>5. ASSUME NEW r \in Requests, Record(r) PROVE UsageOK'
  <2>1. PICK row \in UsageRow :
          row.ts = now /\ row.key = req[r].key /\ row.request = r /\ usage' = Append(usage, row)
    BY <1>5, RecordIs
  <2>2. /\ Len(usage') = Len(usage) + 1 /\ Len(usage) \in Nat /\ usage'[Len(usage')] = row
        /\ \A j \in 1..Len(usage) : usage'[j] = usage[j]
    BY <1>1, <2>1
  <2>3. \A j \in 1..Len(usage') : j \in 1..Len(usage) \/ j = Len(usage')
    BY <2>2
  <2>4. req'[r].st = "recorded" /\ req'[r].key = req[r].key /\ now' = now
    BY <1>5, RecordIs DEF Kept
  <2>5. ASSUME NEW j \in 1..Len(usage')
        PROVE  /\ usage'[j].ts <= now'
               /\ req'[usage'[j].request].st = "recorded" /\ req'[usage'[j].request].key = usage'[j].key
    <3>1. CASE j \in 1..Len(usage)
      BY <1>3, <2>2, <2>4, <3>1 DEF UsageOK
    <3>2. CASE j = Len(usage')
      BY <1>1, <2>1, <2>2, <2>4, <3>2
    <3>. QED
      BY <2>3, <3>1, <3>2
  <2>6. ASSUME NEW i \in 1..Len(usage'), NEW j \in 1..Len(usage'), i <= j
        PROVE  usage'[i].ts <= usage'[j].ts
    <3>1. CASE j \in 1..Len(usage)
      <4>1. i \in 1..Len(usage)
        BY <2>2, <2>6, <3>1
      <4>. QED
        BY <2>2, <2>6, <3>1, <4>1 DEF UsageOK
    <3>2. CASE j = Len(usage')
      BY <2>1, <2>2, <2>4, <2>5, <3>2
    <3>. QED
      BY <2>3, <3>1, <3>2
  <2>. QED
    BY <2>5, <2>6 DEF UsageOK
<1>. QED
  BY <1>4, <1>5, WhoWrites

\* The rows that a request found when it was admitted stay as they were.
LEMMA PrefixKept ==
  ASSUME TypeInv, [Next]_vars, NEW i \in 0..Len(usage)
  PROVE  /\ SubSeq(usage', 1, i) = SubSeq(usage, 1, i)
         /\ \A j \in 1..i : usage'[j] = usage[j]
<1>1. CASE UNCHANGED usage
  BY <1>1
<1>2. ASSUME NEW r \in Requests, Record(r)
      PROVE  /\ SubSeq(usage', 1, i) = SubSeq(usage, 1, i)
             /\ \A j \in 1..i : usage'[j] = usage[j]
  <2>1. PICK row \in UsageRow : usage' = Append(usage, row)
    BY <1>2, RecordIs
  <2>2. usage \in Seq(UsageRow)
    BY DEF TypeInv
  <2>3. \A j \in 1..i : Append(usage, row)[j] = usage[j]
    BY <2>2
  <2>. QED
    BY <2>1, <2>2, <2>3, PrefixOfAppend
<1>. QED
  BY <1>1, <1>2, WhoWrites

\* A request that is admitted finds its key's spend below the budget.
LEMMA AdmittedStep ==
  ASSUME TypeInv, TypeInv', CheckOK, DecidedOK, UsageOK, AdmittedOK, [Next]_vars
  PROVE  AdmittedOK'
<1>. SUFFICES ASSUME NEW r \in Requests, req'[r].st \in Admitted
              PROVE  LET key == keys'[req'[r].key]
                         n   == req'[r].rows
                     IN /\ \A i \in 1..n : usage'[i].ts <= req'[r].at
                        /\ key.budget # NoBudget =>
                             SpendSince(SubSeq(usage', 1, n), req'[r].key, MonthStart(req'[r].at)) < key.budget
  BY DEF AdmittedOK
<1>1. req'[r] \in Outcome
  BY DEF TypeInv, NoOutcome, Admitted
<1>2. usage \in Seq(UsageRow) /\ now \in Nat
  BY GatewayAssumption DEF TypeInv
<1>3. CASE Decide /\ r = checking.request
  <2>. DEFINE k == checking.key
  <2>1. /\ k \in Keys /\ req'[r].key = k /\ req'[r].at = now /\ req'[r].rows = Len(usage)
        /\ UNCHANGED <<keys, usage>> /\ req'[r].st = "admitted"
        /\ keys[k].budget \in Nat \cup {NoBudget}
        /\ keys[k].budget # NoBudget => ~ (SpendSince(usage, k, MonthStart(now)) >= keys[k].budget)
    BY <1>3, DecideIs DEF Admitted
  <2>. HIDE DEF k
  <2>2. SubSeq(usage, 1, Len(usage)) = usage /\ Len(usage) \in Nat
    BY <1>2, SubSeqFull
  <2>3. SpendSince(usage, k, MonthStart(now)) \in Nat
    <3>1. MonthStart(now) \in Nat
      BY <1>2, MonthOf
    <3>2. Len(usage) \in 0..Len(usage) /\ Len(usage) \in Len(usage)..Len(usage)
      BY <2>2
    <3>3. SpendSince(SubSeq(usage, 1, Len(usage)), k, MonthStart(now)) \in Nat
      BY <1>2, <3>1, <3>2, SpendGrows
    <3>. QED
      BY <2>2, <3>3
  <2>4. \A i \in 1..Len(usage) : usage[i].ts <= now
    BY DEF UsageOK
  <2>5. keys[k].budget # NoBudget => SpendSince(usage, k, MonthStart(now)) < keys[k].budget
    BY <2>1, <2>3
  <2>. QED
    BY <2>1, <2>2, <2>4, <2>5
<1>4. CASE ~ (Decide /\ r = checking.request)
  <2>1. req[r] \in Outcome /\ Kept(r)
    BY <1>1, <1>4, StepKeeps
  <2>2. req[r].st \in Admitted
    BY <2>1 DEF Kept, Admitted
  <2>3. /\ req[r].rows \in 0..Len(usage) /\ req[r].key \in Keys
        /\ keys'[req[r].key].budget = keys[req[r].key].budget
    <3>1. req[r].key \in Keys /\ req[r].rows \in Nat /\ req[r].rows <= Len(usage) /\ keys[req[r].key] \in Row
      BY <2>1 DEF Outcome, DecidedOK
    <3>. QED
      BY <1>2, <3>1, StepKeeps
  <2>. DEFINE n == req[r].rows
  <2>4. SubSeq(usage', 1, n) = SubSeq(usage, 1, n) /\ \A i \in 1..n : usage'[i] = usage[i]
    BY <2>3, PrefixKept
  <2>. QED
    BY <2>1, <2>2, <2>3, <2>4 DEF AdmittedOK, Kept
<1>. QED
  BY <1>3, <1>4

\* A call that ends after the budget was reached had been admitted before.
LEMMA BudgetStep ==
  ASSUME TypeInv, TypeInv', CheckOK, DecidedOK, UsageOK, AdmittedOK, BudgetOvershoot, [Next]_vars
  PROVE  BudgetOvershoot'
<1>1. usage \in Seq(UsageRow) /\ usage' \in Seq(UsageRow) /\ now \in Nat
  BY GatewayAssumption DEF TypeInv
<1>2. SUFFICES ASSUME NEW i \in 1..Len(usage'), NEW j \in 1..Len(usage'), i < j,
                      NEW k, k = usage'[i].key, NEW m, m = MonthStart(usage'[i].ts),
                      usage'[j].key = k, MonthStart(usage'[j].ts) = m, keys'[k].budget # NoBudget,
                      SpendSince(SubSeq(usage', 1, i), k, m) >= keys'[k].budget
               PROVE  req'[usage'[j].request].rows < i
  BY <1>1 DEF BudgetOvershoot
<1>3. /\ Len(usage) \in Nat /\ Len(usage') \in Nat /\ Len(usage) <= Len(usage')
      /\ \A n \in 1..Len(usage) : usage[n].ts \in Nat /\ usage[n].key \in Keys /\ usage[n].request \in Requests
      /\ i \in Nat /\ j \in Nat /\ i >= 1
  <2>1. Len(usage) \in Nat /\ Len(usage') \in Nat
    BY <1>1
  <2>2. \A n \in 1..Len(usage) : usage[n] \in UsageRow
    BY <1>1, ElementOfSeq
  <2>3. \A row \in UsageRow : row.ts \in Nat /\ row.key \in Keys /\ row.request \in Requests
    BY DEF UsageRow
  <2>. QED
    BY <2>1, <2>2, <2>3, UsageGrows
<1>4. CASE j \in 1..Len(usage)
  <2>1. i \in 0..Len(usage) /\ i \in 1..Len(usage) /\ j \in 0..Len(usage)
    BY <1>2, <1>3, <1>4
  <2>2. usage'[i] = usage[i] /\ usage'[j] = usage[j] /\ SubSeq(usage', 1, i) = SubSeq(usage, 1, i)
    BY <1>4, <2>1, PrefixKept
  <2>. DEFINE q == usage[j].request
  <2>3. q \in Requests /\ req[q].st = "recorded" /\ req[q].key = k
    BY <1>2, <1>3, <1>4, <2>2 DEF UsageOK
  <2>4. req[q] \in Outcome /\ ~ (Decide /\ q = checking.request)
    BY <2>3, PassedHasOutcome, DecideIs DEF PassedRate, Admitted
  <2>5. Kept(q) /\ keys'[k].budget = keys[k].budget
    BY <2>3, <2>4, StepKeeps DEF DecidedOK, Outcome
  <2>6. req[q].rows < i
    <3>1. i \in DOMAIN usage /\ j \in DOMAIN usage
      BY <1>1, <1>4, <2>1
    <3>2. k = usage[i].key /\ m = MonthStart(usage[i].ts) /\ usage[j].key = k /\ MonthStart(usage[j].ts) = m
      BY <1>2, <2>2
    <3>3. keys[k].budget # NoBudget /\ SpendSince(SubSeq(usage, 1, i), k, m) >= keys[k].budget
      BY <1>2, <2>2, <2>5
    <3>. QED
      BY <1>2, <3>1, <3>2, <3>3 DEF BudgetOvershoot
  <2>. QED
    BY <2>2, <2>5, <2>6 DEF Kept
<1>5. ASSUME NEW r \in Requests, Record(r), j \notin 1..Len(usage)
      PROVE  req'[usage'[j].request].rows < i
  <2>1. PICK row \in UsageRow :
          row.ts = now /\ row.key = req[r].key /\ row.request = r /\ usage' = Append(usage, row)
    BY <1>5, RecordIs
  <2>2. j = Len(usage) + 1 /\ usage'[j] = row /\ i \in 1..Len(usage) /\ usage'[i] = usage[i]
    BY <1>1, <1>2, <1>3, <1>5, <2>1
  <2>3. /\ req[r] \in Outcome /\ req[r].st = "admitted" /\ req'[r].rows = req[r].rows
        /\ keys' = keys /\ req[r].key = k
    <3>1. /\ req[r] \in Outcome /\ req[r].st = "admitted" /\ Kept(r) /\ keys' = keys
      BY <1>5, RecordIs
    <3>. QED
      BY <1>2, <2>1, <2>2, <3>1 DEF Kept
  <2>4. /\ req[r].at \in Nat /\ req[r].at <= now /\ req[r].rows \in Nat /\ req[r].rows <= Len(usage)
        /\ k \in Keys /\ keys[k] \in Row
    BY <2>3 DEF Outcome, DecidedOK
  <2>5. SUFFICES ASSUME i <= req[r].rows PROVE FALSE
    BY <1>3, <2>1, <2>2, <2>3, <2>4
  <2>. DEFINE n == req[r].rows
  <2>6. usage[i].ts <= req[r].at /\ usage[i].ts \in Nat
    BY <1>3, <2>2, <2>3, <2>4, <2>5 DEF AdmittedOK, Admitted
  <2>7. MonthStart(req[r].at) = m
    <3>1. MonthStart(usage[i].ts) = m /\ MonthStart(now) = m
      BY <1>2, <2>1, <2>2
    <3>2. req[r].at \in usage[i].ts..now
      BY <1>1, <2>4, <2>6
    <3>. QED
      BY <1>1, <2>6, <3>1, <3>2, MonthBetween
  <2>8. SpendSince(SubSeq(usage, 1, n), k, m) < keys[k].budget
    BY <1>2, <2>3, <2>7 DEF AdmittedOK, Admitted
  <2>9. m \in Nat
    BY <2>4, <2>7, MonthOf
  <2>10. /\ SpendSince(SubSeq(usage, 1, i), k, m) \in Nat
         /\ SpendSince(SubSeq(usage, 1, n), k, m) \in Nat
         /\ SpendSince(SubSeq(usage, 1, i), k, m) <= SpendSince(SubSeq(usage, 1, n), k, m)
    <3>1. i \in 0..Len(usage) /\ n \in i..Len(usage) /\ n \in 0..Len(usage) /\ n \in n..Len(usage)
      BY <1>3, <2>2, <2>4, <2>5
    <3>. HIDE DEF n
    <3>. QED
      BY <1>1, <2>9, <3>1, SpendGrows
  <2>11. SubSeq(usage', 1, i) = SubSeq(usage, 1, i)
    <3>1. i \in 0..Len(usage)
      BY <1>3, <2>2
    <3>. QED
      BY <3>1, PrefixKept
  <2>12. keys[k].budget \in Nat
    BY <1>2, <2>3, <2>4, RowType
  <2>13. SpendSince(SubSeq(usage, 1, i), k, m) >= keys[k].budget
    BY <1>2, <2>3, <2>11
  <2>. HIDE DEF n
  <2>. QED
    BY <2>8, <2>10, <2>12, <2>13
<1>. QED
  BY <1>3, <1>4, <1>5, WhoWrites

-----------------------------------------------------------------------------
(* The invariant.                                                          *)

\* The inductive invariant holds initially.
LEMMA InitInvariant == Init => IInv
<1>. SUFFICES ASSUME Init PROVE IInv
  OBVIOUS
<1>. USE GatewayAssumption DEF Init
<1>1. TypeInv
  <2>1. usage \in Seq(UsageRow) /\ windows \in [Keys -> Seq(Nat)]
    OBVIOUS
  <2>2. req \in [Requests -> Outcome \cup NoOutcome]
    BY DEF NotSent, NoOutcome
  <2>. QED
    BY <2>1, <2>2 DEF TypeInv
<1>2. MasterOK /\ CheckOK
  BY DEF MasterOK, CheckOK
<1>3. \A r \in Requests : req[r].st = "new" /\ req[r] \notin Outcome
  BY DEF NotSent, Outcome, PassedRate, Admitted
<1>4. DecidedOK /\ AdmittedOK /\ RefusedOnlyWhenFull
  BY <1>3 DEF DecidedOK, AdmittedOK, RefusedOnlyWhenFull, Admitted
<1>5. WindowsOK /\ WindowsFit
  BY DEF WindowsOK, WindowsFit, Sorted, NoRow
<1>6. UsageOK /\ BudgetOvershoot
  BY DEF UsageOK, BudgetOvershoot
<1>7. RateLimit
  BY DEF RateLimit, NoRow
<1>. QED
  BY <1>1, <1>2, <1>4, <1>5, <1>6, <1>7 DEF IInv

\* Every step keeps the inductive invariant.
LEMMA StepInvariant == IInv /\ [Next]_vars => IInv'
<1>. SUFFICES ASSUME IInv, [Next]_vars PROVE IInv'
  OBVIOUS
<1>. USE DEF IInv
<1>1. TypeInv' /\ MasterOK'
  BY TypeStep
<1>2. CheckOK'
  BY CheckStep
<1>3. DecidedOK'
  BY <1>1, DecidedStep
<1>4. WindowsOK' /\ WindowsFit' /\ RateLimit' /\ RefusedOnlyWhenFull'
  BY <1>1, <1>3, WindowsStep, FitStep, RateStep, RefusedStep
<1>5. UsageOK' /\ AdmittedOK' /\ BudgetOvershoot'
  BY <1>1, UsageStep, AdmittedStep, BudgetStep
<1>. QED
  BY <1>1, <1>2, <1>3, <1>4, <1>5

\* IInv is an invariant.
THEOREM Invariant == Spec => []IInv
<1>. QED
  BY InitInvariant, StepInvariant, PTL DEF Spec

\* Every variable of the gateway's authentication keeps its type, and no window ever holds
\* more times than the limit of its key.
THEOREM TypeCorrect == Spec => []GatewayTypeOK
<1>1. IInv => GatewayTypeOK
  <2>. SUFFICES ASSUME IInv PROVE GatewayTypeOK
    OBVIOUS
  <2>1. \A k \in Keys : ToSet(windows[k]) \subseteq Month..MaxTime
    <3>. SUFFICES ASSUME NEW k \in Keys PROVE ToSet(windows[k]) \subseteq Month..MaxTime
      OBVIOUS
    <3>1. DOMAIN windows[k] = 1..Len(windows[k])
      BY DEF IInv, TypeInv
    <3>2. \A i \in 1..Len(windows[k]) : windows[k][i] \in Month..MaxTime
      BY GatewayAssumption DEF IInv, TypeInv, WindowsOK
    <3>. QED
      BY <3>1, <3>2 DEF ToSet
  <2>2. \A r \in Requests : req[r].st \in Denials \cup
          {"new", "checking", "admitted", "recorded", "lost", "dropped", "master", "refused", "open", "logged"}
    BY DEF IInv, TypeInv, Outcome, NoOutcome, PassedRate, Admitted, Denials
  <2>. QED
    BY <2>1, <2>2 DEF IInv, TypeInv, GatewayTypeOK
<1>. QED
  BY <1>1, Invariant, PTL

\* In no window of 60 seconds does one gateway process admit more requests of a key than its
\* limit, for every number of requests and keys.  (litellm_hooks.py check)
THEOREM RateIsLimited == Spec => []RateLimit
<1>1. IInv => RateLimit
  BY DEF IInv
<1>. QED
  BY <1>1, Invariant, PTL

\* A request is refused for its rate only when as many as the limit passed in the 60
\* seconds before it.  (litellm_hooks.py check)
THEOREM RefusalsAreJust == Spec => []RefusedOnlyWhenFull
<1>1. IInv => RefusedOnlyWhenFull
  BY DEF IInv
<1>. QED
  BY <1>1, Invariant, PTL

\* A budget is overrun only by calls under way when it was reached, however many calls and
\* months there are.  (litellm_hooks.py check; keys.py spend_this_month)
THEOREM OvershootIsBounded == Spec => []BudgetOvershoot
<1>1. IInv => BudgetOvershoot
  BY DEF IInv
<1>. QED
  BY <1>1, Invariant, PTL

\* However many processes ask for the master key at once, all that get one get the same.
\* (keys.py master_key)
THEOREM MasterKeyIsOne == Spec => []OneMasterKey
<1>1. IInv => OneMasterKey
  BY DEF IInv, MasterOK, OneMasterKey, Got
<1>. QED
  BY <1>1, Invariant, PTL

\* A gateway that asks for keys knows the one of the file, refuses nobody who sends it, and
\* no gateway runs before there is a file, whichever processes ask for the key, are killed
\* and ask again.  (runtime.py up; litellm_hooks.py store)
THEOREM GatewayKnowsMaster == Spec => []MasterIsKnown
<1>1. IInv => MasterIsKnown
  <2>. SUFFICES ASSUME IInv PROVE MasterIsKnown
    OBVIOUS
  <2>1. \A r \in Requests : req[r].st # "refused"
    BY DEF IInv, TypeInv, Outcome, NoOutcome, PassedRate, Admitted
  <2>. QED
    BY <2>1 DEF IInv, MasterOK, MasterIsKnown
<1>. QED
  BY <1>1, Invariant, PTL
=============================================================================
