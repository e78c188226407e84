------------------------------- MODULE Gateway -------------------------------
(***************************************************************************)
(* The gateway's authentication: virtual keys with a rate limit and a      *)
(* monthly budget, the usage recorded when a call ends, and the master     *)
(* key.  The hooks run in the gateway's one event loop, where a check is   *)
(* not interrupted; the key store is shared with the commands and the      *)
(* console, which create and revoke keys at any moment.                    *)
(***************************************************************************)
EXTENDS Integers, Sequences, SequencesExt, FiniteSets

CONSTANTS
  Keys,         \* virtual keys
  NameOf,       \* [Keys -> name]; two keys may have one name
  PrefixOf,     \* [Keys -> the first ten characters of the key], by which lists show it
  Limits,       \* what a new key can be given: a set of [rpm, budget]
  NoBudget,     \* budget of a key without one
  Window,       \* length of the rate window: 60 seconds
  Month,        \* length of a calendar month
  Requests,     \* requests, each sent once
  Costs,        \* what a call can cost
  Clients,      \* processes that ask for the master key: "up" and others
  MaxTime, MaxRestarts   \* bounds

\* The limits of a key are numbers, of which 0 requests per minute is no limit; costs are
\* not negative; a client has no name that stands for another state of a call or a file.
ASSUME GatewayAssumption ==
  /\ NoBudget \notin Nat /\ Limits \subseteq [rpm : Nat, budget : Nat \cup {NoBudget}]
  /\ Costs \subseteq Nat /\ IsFiniteSet(Requests)
  /\ Window \in Nat \ {0} /\ Month \in Nat \ {0} /\ MaxTime \in Nat /\ Month <= MaxTime
  /\ "up" \in Clients
  /\ Clients \cap {"none", "empty", "unset", "idle", "create", "write", "read", "failed"} = {}

VARIABLES
  now,        \* the clock
  keys,       \* [Keys -> row of the keys table, NoRow before its creation]
  usage,      \* the usage table
  windows,    \* [Keys -> times in the window], in the gateway's memory
  gateway,    \* "down", "up", or "open": up, but its configuration asks for no keys
  checking,   \* the request being checked and the row read for it, or NoCheck
  req,        \* [Requests -> what became of the request]
  keyFile,    \* secrets/master_key: "none", "empty", or the key, which names its writer
  asks,       \* [Clients -> where in master_key the process is]
  masterHash, \* the text that the hooks took for the key, "unset" until they have read it
  restarts    \* counter for the bound

vars == <<now, keys, usage, windows, gateway, checking, req, keyFile, asks, masterHash, restarts>>

NoRow    == [rpm |-> 0, budget |-> NoBudget, state |-> "none"]
Row      == {[rpm |-> l.rpm, budget |-> l.budget, state |-> s] : l \in Limits, s \in {"active", "revoked"}}
NoCheck  == [request |-> "none"]
NotSent  == [st |-> "new"]
Denials  == {"unauthorized", "rate", "budget"}
MonthStart(t) == (t \div Month) * Month

\* Recorded provider cost of a key from a time on.
Paid(row, key, since) == IF row.key = key /\ row.ts >= since THEN row.cost ELSE 0
SpendSince(rows, key, since) ==
  LET total[n \in 0..Len(rows)] == IF n = 0 THEN 0 ELSE total[n - 1] + Paid(rows[n], key, since)
  IN total[Len(rows)]

-----------------------------------------------------------------------------
(* Keys: the command line and the console.                                 *)

Create(k) ==
  /\ keys[k] = NoRow
  /\ \E l \in Limits :
       keys' = [keys EXCEPT ![k] = [rpm |-> l.rpm, budget |-> l.budget, state |-> "active"]]
  /\ UNCHANGED <<now, usage, windows, gateway, checking, req, keyFile, asks, masterHash, restarts>>

\* What a key can be revoked by.
Texts == {NameOf[k] : k \in Keys} \cup {PrefixOf[k] : k \in Keys}

\* Every active key of that name or prefix, in one statement: several, one, or none.
Revoke(text) ==
  /\ keys' = [k \in Keys |-> IF keys[k].state = "active" /\ text \in {NameOf[k], PrefixOf[k]}
                             THEN [keys[k] EXCEPT !.state = "revoked"] ELSE keys[k]]
  /\ UNCHANGED <<now, usage, windows, gateway, checking, req, keyFile, asks, masterHash, restarts>>

-----------------------------------------------------------------------------
(* The master key: KeyStore.master_key, one system call at a time.         *)

Ask(c, to) == asks' = [asks EXCEPT ![c] = to]

\* path.exists()
Look(c) ==
  /\ asks[c] = "idle"
  /\ Ask(c, IF keyFile = "none" THEN "create" ELSE "read")
  /\ UNCHANGED <<now, keys, usage, windows, gateway, checking, req, keyFile, masterHash, restarts>>

\* Mutant: without O_EXCL the file is opened, and emptied, by everybody.
CreateAnyway(c) ==
  /\ asks[c] = "create"
  /\ Ask(c, "write")
  /\ keyFile' = "empty"
  /\ UNCHANGED <<now, keys, usage, windows, gateway, checking, req, masterHash, restarts>>

\* O_CREAT | O_EXCL: raises FileExistsError when somebody was faster.
CreateFile(c) ==
  /\ asks[c] = "create"
  /\ Ask(c, IF keyFile = "none" THEN "write" ELSE "failed")
  /\ keyFile' = IF keyFile = "none" THEN "empty" ELSE keyFile
  /\ UNCHANGED <<now, keys, usage, windows, gateway, checking, req, masterHash, restarts>>

WriteKey(c) ==
  /\ asks[c] = "write"
  /\ keyFile' = c
  /\ Ask(c, "read")
  /\ UNCHANGED <<now, keys, usage, windows, gateway, checking, req, masterHash, restarts>>

\* What the process got: a key, or an empty text from a file not yet written.
ReadKey(c) ==
  /\ asks[c] = "read"
  /\ Ask(c, keyFile)
  /\ UNCHANGED <<now, keys, usage, windows, gateway, checking, req, keyFile, masterHash, restarts>>

Got(c) == asks[c] \in Clients

\* A process is killed inside master_key: a file that it was to write stays empty.
Interrupt(c) ==
  /\ asks[c] \in {"create", "write", "read"}
  /\ Ask(c, "failed")
  /\ UNCHANGED <<now, keys, usage, windows, gateway, checking, req, keyFile, masterHash, restarts>>

\* The command is given again; up not while its gateway runs.
AskAgain(c) ==
  /\ asks[c] \in {"empty", "failed"} \cup Clients /\ (c = "up" => gateway = "down")
  /\ Ask(c, "idle")
  /\ UNCHANGED <<now, keys, usage, windows, gateway, checking, req, keyFile, masterHash, restarts>>

-----------------------------------------------------------------------------
(* The gateway process.                                                    *)

\* Mutant: `if master_key is not None`, so that an empty text counts as a key.
StartAnyway ==
  /\ gateway = "down" /\ asks["up"] \in Clients \cup {"empty"}
  /\ gateway' = "up"
  /\ UNCHANGED <<now, keys, usage, windows, checking, req, keyFile, asks, masterHash, restarts>>

\* up starts the gateway with what master_key returned.  `if master_key:` leaves the
\* authentication out of the configuration when that is the empty text.
StartGateway ==
  /\ gateway = "down" /\ asks["up"] \in Clients \cup {"empty"}
  /\ gateway' = IF Got("up") THEN "up" ELSE "open"
  /\ UNCHANGED <<now, keys, usage, windows, checking, req, keyFile, asks, masterHash, restarts>>

\* The process ends, and with it its windows and the calls under way; another up,
\* which asks for the key anew, starts it again.
Restart ==
  /\ gateway # "down" /\ restarts < MaxRestarts
  /\ gateway' = "down" /\ Ask("up", "idle")
  /\ windows' = [k \in Keys |-> << >>]
  /\ checking' = NoCheck
  /\ req' = [r \in Requests |-> CASE req[r].st = "admitted" -> [req[r] EXCEPT !.st = "lost"]
                                   [] req[r].st \in {"checking", "open"} -> [st |-> "dropped"]
                                   [] OTHER -> req[r]]
  /\ masterHash' = "unset"
  /\ restarts' = restarts + 1
  /\ UNCHANGED <<now, keys, usage, keyFile>>

\* store(): the first request makes the process call master_key.  It only reads: the file
\* has been there since up's own call (MasterIsKnown).
KnownMaster == IF masterHash = "unset" THEN keyFile ELSE masterHash

\* A request of one of the clients with what it got: the key, or nothing.
CheckMaster(r, c) ==
  /\ gateway = "up" /\ checking = NoCheck /\ req[r] = NotSent /\ asks[c] \in Clients \cup {"empty"}
  /\ masterHash' = KnownMaster
  /\ req' = [req EXCEPT ![r] = [st |-> IF ~ Got(c) THEN "unauthorized"
                                      ELSE IF asks[c] = KnownMaster THEN "master" ELSE "refused"]]
  /\ UNCHANGED <<now, keys, usage, windows, gateway, checking, keyFile, asks, restarts>>

\* A gateway without authentication lets every request through.
Unchecked(r) ==
  /\ gateway = "open" /\ req[r] = NotSent
  /\ req' = [req EXCEPT ![r] = [st |-> "open"]]
  /\ UNCHANGED <<now, keys, usage, windows, gateway, checking, keyFile, asks, masterHash, restarts>>

\* Its usage is recorded too, in a row without a key, which no spend counts.
RecordUnchecked(r) ==
  /\ gateway = "open" /\ req[r].st = "open"
  /\ masterHash' = KnownMaster
  /\ req' = [req EXCEPT ![r] = [st |-> "logged"]]
  /\ UNCHANGED <<now, keys, usage, windows, gateway, checking, keyFile, asks, restarts>>

\* A request with a virtual key: its row is read.
Lookup(r, k) ==
  /\ gateway = "up" /\ checking = NoCheck /\ req[r] = NotSent
  /\ masterHash' = KnownMaster
  /\ IF keys[k].state = "active"
     THEN /\ checking' = [request |-> r, key |-> k, row |-> keys[k]]
          /\ req' = [req EXCEPT ![r] = [st |-> "checking"]]
     ELSE /\ req' = [req EXCEPT ![r] = [st |-> "unauthorized"]]
          /\ UNCHANGED checking
  /\ UNCHANGED <<now, keys, usage, windows, gateway, keyFile, asks, restarts>>

\* while w and w[0] <= cut: w.popleft()
DropUntil(w, cut) ==
  LET n == CHOOSE n \in 0..Len(w) : (\A i \in 1..n : w[i] <= cut) /\ (n < Len(w) => w[n + 1] > cut)
  IN SubSeq(w, n + 1, Len(w))

\* Mutant: the window is a second short.
ShortWindow(w) == DropUntil(w, now - Window + 1)

\* Mutant: the window is a second long.
LongWindow(w) == DropUntil(w, now - Window - 1)

\* Times that are 60 seconds old have left the window.
InWindow(w) == DropUntil(w, now - Window)

\* Mutant: a budget may be spent and then exceeded by one call.
PastBudget(k, row) == row.budget # NoBudget /\ SpendSince(usage, k, MonthStart(now)) > row.budget

OverBudget(k, row) == row.budget # NoBudget /\ SpendSince(usage, k, MonthStart(now)) >= row.budget

\* Mutant: w.append(now) before len(w) is compared with the limit.
AppendFirst ==
  /\ checking # NoCheck
  /\ LET k     == checking.key
         row   == checking.row
         after == IF row.rpm = 0 THEN windows[k] ELSE Append(InWindow(windows[k]), now)
         full  == row.rpm # 0 /\ Len(after) > row.rpm
     IN /\ windows' = [windows EXCEPT ![k] = after]
        /\ req' = [req EXCEPT ![checking.request] =
                     [st |-> IF full THEN "rate" ELSE IF OverBudget(k, row) THEN "budget" ELSE "admitted",
                      key |-> k, at |-> now, rows |-> Len(usage), life |-> restarts]]
  /\ checking' = NoCheck
  /\ UNCHANGED <<now, keys, usage, gateway, keyFile, asks, masterHash, restarts>>

\* Rate first, then budget: a request that the budget refuses has its place in the window.
Decide ==
  /\ checking # NoCheck
  /\ LET k     == checking.key
         row   == checking.row
         w     == InWindow(windows[k])
         full  == row.rpm # 0 /\ Len(w) >= row.rpm
         after == IF row.rpm = 0 THEN windows[k] ELSE IF full THEN w ELSE Append(w, now)
     IN /\ windows' = [windows EXCEPT ![k] = after]
        /\ req' = [req EXCEPT ![checking.request] =
                     [st |-> IF full THEN "rate" ELSE IF OverBudget(k, row) THEN "budget" ELSE "admitted",
                      key |-> k, at |-> now, rows |-> Len(usage), life |-> restarts]]
  /\ checking' = NoCheck
  /\ UNCHANGED <<now, keys, usage, gateway, keyFile, asks, masterHash, restarts>>

\* The call has ended, well or not: its usage is recorded.
Record(r) ==
  /\ req[r].st = "admitted"
  /\ \E c \in Costs : usage' = Append(usage, [ts |-> now, key |-> req[r].key, cost |-> c, request |-> r])
  /\ req' = [req EXCEPT ![r].st = "recorded"]
  /\ UNCHANGED <<now, keys, windows, gateway, checking, keyFile, asks, masterHash, restarts>>

Tick ==
  /\ now < MaxTime
  /\ now' = now + 1
  /\ UNCHANGED <<keys, usage, windows, gateway, checking, req, keyFile, asks, masterHash, restarts>>

Init ==
  /\ now = Month                      \* some month
  /\ keys = [k \in Keys |-> NoRow] /\ usage = << >>
  /\ windows = [k \in Keys |-> << >>]
  /\ gateway = "down" /\ checking = NoCheck
  /\ req = [r \in Requests |-> NotSent]
  /\ keyFile = "none" /\ asks = [c \in Clients |-> "idle"] /\ masterHash = "unset"
  /\ restarts = 0

Next ==
  \/ (\E k \in Keys : Create(k)) \/ (\E text \in Texts : Revoke(text))
  \/ \E c \in Clients : \/ Look(c) \/ CreateFile(c) \/ WriteKey(c) \/ ReadKey(c)
                         \/ Interrupt(c) \/ AskAgain(c)
  \/ StartGateway \/ Restart
  \/ \E r \in Requests : Unchecked(r) \/ RecordUnchecked(r)
  \/ \E r \in Requests : Record(r) \/ (\E k \in Keys : Lookup(r, k)) \/ (\E c \in Clients : CheckMaster(r, c))
  \/ Decide \/ Tick

Spec == Init /\ [][Next]_vars

-----------------------------------------------------------------------------
\* No window holds more times than its key's limit lets pass.
WindowsFit == \A k \in Keys : Len(windows[k]) <= keys[k].rpm

\* Type invariant; a window is a list of times, no more of them than the limit of its key.
\* (litellm_hooks.py check appends a time only for a request that passes the rate)
GatewayTypeOK ==
  /\ now \in Month..MaxTime /\ keys \in [Keys -> Row \cup {NoRow}]
  /\ \A k \in Keys : ToSet(windows[k]) \subseteq Month..MaxTime
  /\ WindowsFit
  /\ gateway \in {"down", "up", "open"} /\ masterHash \in {"unset", "empty"} \cup Clients
  /\ \A r \in Requests : req[r].st \in Denials \cup
       {"new", "checking", "admitted", "recorded", "lost", "dropped", "master", "refused", "open", "logged"}
  /\ keyFile \in {"none", "empty"} \cup Clients
  /\ asks \in [Clients -> {"idle", "create", "write", "read", "empty", "failed"} \cup Clients]

\* Requests of a key with one of these outcomes, decided by one gateway process in the
\* 60 seconds up to t.
Decided(k, life, t, sts) ==
  {r \in Requests : /\ req[r].st \in sts /\ req[r].key = k /\ req[r].life = life
                    /\ req[r].at \in (t - Window + 1)..t}
Admitted == {"admitted", "recorded", "lost"}

\* "requests per minute": in no window of 60 seconds does a gateway process admit more
\* requests of a key than its limit, however admissions, refusals and months fall.
\* (litellm_hooks.py check)
RateLimit ==
  \A k \in Keys, life \in 0..restarts, t \in Month..MaxTime :
    keys[k].rpm # 0 => Cardinality(Decided(k, life, t, Admitted)) <= keys[k].rpm

\* A request is refused for its rate only if the window is really full: as many requests
\* of the key as its limit passed the rate check in the 60 seconds before.
RefusedOnlyWhenFull ==
  \A r \in Requests : req[r].st = "rate" =>
    Cardinality(Decided(req[r].key, req[r].life, req[r].at, Admitted \cup {"budget"}))
      >= keys[req[r].key].rpm

\* The budget is overrun only by calls that were under way when it was reached: of two
\* rows of a key in one month, if the first brings the spend to the budget, the second
\* was admitted before the first was recorded.
BudgetOvershoot ==
  \A i, j \in DOMAIN usage :
    LET k == usage[i].key
        m == MonthStart(usage[i].ts)
    IN /\ i < j /\ usage[j].key = k /\ MonthStart(usage[j].ts) = m
       /\ keys[k].budget # NoBudget
       /\ SpendSince(SubSeq(usage, 1, i), k, m) >= keys[k].budget
       => req[usage[j].request].rows < i

\* There is one master key: whoever gets a key gets the same, also when several
\* processes ask for it first at the same time.  (keys.py master_key)
OneMasterKey == \A c, d \in Clients : Got(c) /\ Got(d) => asks[c] = asks[d]

\* A gateway that asks for keys knows the master key, the one in the file, and refuses
\* nobody who sends it; and the file is there before any gateway runs, so that the hooks
\* never create one.  An up that read the text of a file not yet written, or left empty by
\* a process that was killed, starts an open gateway instead: it asks for no keys at all.
\* (runtime.py up and gateway_config; litellm_hooks.py store)
MasterIsKnown ==
  /\ gateway # "down" => keyFile # "none"
  /\ gateway = "up" => keyFile \in Clients /\ masterHash \in {"unset", keyFile}
  /\ \A r \in Requests : req[r].st # "refused"
=============================================================================
