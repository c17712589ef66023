------------------------------ MODULE Journal ------------------------------
(***************************************************************************)
(* The journal of a zone (lib/dns/journal.c): the order in which a         *)
(* transaction reaches the file, the index, the search for a serial        *)
(* number, compaction, and what a restart makes of the master file and the *)
(* journal after a crash; with the parts of the zone that use it           *)
(* (lib/dns/zone.c, bin/named/update.c, lib/dns/xfrin.c).                  *)
(*                                                                         *)
(* A position is an offset with the serial number of the transaction that  *)
(* starts there.  Transactions have size 1, and so has what precedes them, *)
(* the header with the index: offset k is that of the kth transaction.     *)
(* Records are left out; a transaction leads from one version of the zone  *)
(* to another.  A write is in the hands of the kernel when the next one    *)
(* begins (journal_seek() flushes) and on the disk after journal_fsync();  *)
(* a process that dies loses nothing the kernel has, a loss of power any   *)
(* part of what is not on the disk.                                        *)
(***************************************************************************)
EXTENDS Integers

CONSTANTS
    SerialMod,        \* 2^32: serial numbers are compared by RFC 1982
    IndexSize,        \* 56
    TargetSize,       \* zone->journalsize
    FirstSerials,     \* serial numbers the zone may start with
    MaxVersions,      \* bound: versions of the zone that are ever made
    None

Offsets   == 1 .. MaxVersions
Serials   == 0 .. SerialMod - 1
Positions == [serial : Serials, offset : Nat]
Indices   == [1 .. IndexSize -> Positions]

\* Versions of the zone: line holds the version and all it was made from, n is its
\* serial number before it is cut to 32 bits.
Versions == [line : SUBSET Nat, n : Nat]

\* The two parts of a transaction in the file, the file, and the transaction in the
\* making.
Xhdrs  == [serial0 : Serials, serial1 : Serials]
Bodies == [from : Versions, to : Versions]
Files  == [begin : Positions, end : Positions, index : Indices,
           xhdr : [Offsets -> Xhdrs \cup {None}], body : [Offsets -> Bodies \cup {None}]]
Txns   == [at : {"data", "xhdr", "header", "index", "sync"}, to : Versions,
           pos0 : Positions, pos1 : Positions,
           begin : Positions, end : Positions, index : Indices]

ASSUME JournalAssumption ==
    /\ {SerialMod, IndexSize, TargetSize, MaxVersions} \subseteq Nat \ {0}
    /\ SerialMod % 2 = 0 /\ FirstSerials \subseteq Serials
    /\ None \notin Versions \cup Xhdrs \cup Bodies \cup Txns

VARIABLES
    file,     \* the journal file as the kernel has it
    synced,   \* as the disk is sure to have it
    jnw,      \* the .jnw file of a compaction that was not finished
    txn,      \* the transaction in the making (dns_journal_t), or None
    zone,     \* the version that is served, None if the zone is not loaded
    master,   \* the version in the master file
    dumping,  \* the dump under way: its version, and whether it is the master file yet
    compact,  \* the version whose serial number is compact_serial, if NEEDCOMPACT
    acked,    \* the version of the last update that was acknowledged
    made,     \* versions made so far
    excused   \* what has happened that the code does not cope with:
              \*   "serial": a serial number moved by half the range without a dump or
              \*   during a transfer,
              \*   "power": a loss of power left a transaction without its header,
              \*   "index": a transaction was cut short when the header was written and
              \*   the index, which has entries it drops, was not

vars == <<file, synced, jnw, txn, zone, master, dumping, compact, acked, made, excused>>

SerialOf(v) == v.n % SerialMod

DNS_SERIAL_GT(a, b) == LET d == (a - b) % SerialMod IN d # 0 /\ d < SerialMod \div 2
DNS_SERIAL_GE(a, b) == a = b \/ DNS_SERIAL_GT(a, b)

Pos(serial, offset) == [serial |-> serial, offset |-> offset]
NoPos == Pos(0, 0)
POS_VALID(p) == p.offset # 0

\* journal_file_create()
NewFile == [begin |-> NoPos, end |-> NoPos, index |-> [i \in 1 .. IndexSize |-> NoPos],
            xhdr |-> [k \in Offsets |-> None], body |-> [k \in Offsets |-> None]]

JOURNAL_EMPTY(f) == f.begin.offset = f.end.offset

\* The serial number with which journal_next() arrives at offset k, from the
\* header of the transaction before.
SerialAt(f, k) ==
    CASE k = f.begin.offset -> f.begin.serial
      [] k # f.begin.offset /\ k = f.end.offset -> f.end.serial
      [] OTHER -> IF f.xhdr[k - 1] = None THEN 0 ELSE f.xhdr[k - 1].serial1

\* journal_next() from a to b finds the headers it expects.
Readable(f, a, b) ==
    \A k \in a .. b - 1 : f.xhdr[k] # None /\ f.xhdr[k].serial0 = SerialAt(f, k)

-----------------------------------------------------------------------------
(* The index *)

\* The best guess for serial: the entry closest to it, not beyond it.
index_find(f, serial, guess) ==
    LET best[i \in 0 .. IndexSize] ==
          IF i = 0 THEN guess
          ELSE IF /\ POS_VALID(f.index[i]) /\ DNS_SERIAL_GE(serial, f.index[i].serial)
                  /\ DNS_SERIAL_GT(f.index[i].serial, best[i - 1].serial)
            THEN f.index[i] ELSE best[i - 1]
    IN  best[IndexSize]

\* A new entry; to make room every other one is removed.
index_add(index, p) ==
    LET vacant(ix) == CHOOSE i \in 1 .. IndexSize :
                         ~POS_VALID(ix[i]) /\ \A j \in 1 .. i - 1 : POS_VALID(ix[j])
        half == [i \in 1 .. IndexSize |-> IF 2 * i - 1 <= IndexSize THEN index[2 * i - 1] ELSE NoPos]
        room == IF \A i \in 1 .. IndexSize : POS_VALID(index[i]) THEN half ELSE index
    IN  [room EXCEPT ![vacant(room)] = p]

\* Mutant: entries that become ambiguous stay.
index_invalidate_not(index, serial) == index

index_invalidate(index, serial) ==
    [i \in 1 .. IndexSize |-> IF DNS_SERIAL_GT(serial, index[i].serial) THEN index[i] ELSE NoPos]

\* Where the transaction from serial starts.  The walk starts with the serial number
\* of the guess; it checks each header it reads, and reads none if that is the one.
journal_find(f, serial) ==
    LET guess == index_find(f, serial, f.begin)
        at(k) == IF k = guess.offset THEN guess.serial ELSE SerialAt(f, k)
        stops == {k \in guess.offset .. f.end.offset : DNS_SERIAL_GE(at(k), serial)}
        k     == CHOOSE k \in stops : \A l \in stops : k <= l
        found(p)    == [result |-> "success", pos |-> p]
        failed(why) == [result |-> why, pos |-> NoPos]
    IN  IF DNS_SERIAL_GT(f.begin.serial, serial) \/ DNS_SERIAL_GT(serial, f.end.serial)
          THEN failed("range")
        ELSE IF serial = f.end.serial THEN found(f.end)
        ELSE IF guess.serial = serial THEN found(guess)
        ELSE IF \/ guess.offset >= f.end.offset
                \/ \E l \in guess.offset .. k - 1 : f.xhdr[l] = None \/ f.xhdr[l].serial0 # at(l)
          THEN failed("unexpected")
        ELSE IF at(k) = serial THEN found(Pos(serial, k))
        ELSE failed("notfound")

-----------------------------------------------------------------------------
(* Restart *)

\* dns_journal_rollforward2() on a database that holds v: the version it holds
\* then, or None for an error.  The differences are applied whether they fit or
\* not: the result may be no version the zone ever had.
roll_forward(f, v) ==
    LET at    == journal_find(f, SerialOf(v))
        p     == at.pos
        todo  == p.offset .. f.end.offset - 1
        before(k) == IF k = p.offset THEN v ELSE f.body[k - 1].to
        sane  == \A k \in todo : /\ f.body[k] # None /\ f.xhdr[k] # None
                                 /\ f.xhdr[k].serial0 = SerialOf(before(k))
    IN  CASE JOURNAL_EMPTY(f) -> v
          [] ~JOURNAL_EMPTY(f) /\ at.result # "success" -> None
          [] OTHER -> IF SerialOf(v) = f.end.serial THEN v
                      ELSE IF todo = {} \/ ~sane THEN None
                      ELSE IF \A k \in todo : f.body[k].from = before(k)
                             THEN f.body[f.end.offset - 1].to
                             ELSE [line |-> {}, n |-> f.end.serial]

\* What a transaction that was cut short leaves behind in f.
Excuses(f) ==
    (IF Readable(f, f.begin.offset, f.end.offset) THEN {} ELSE {"power"})
    \cup (IF \A i \in 1 .. IndexSize : POS_VALID(f.index[i]) => f.index[i].offset >= f.begin.offset
            THEN {} ELSE {"index"})

\* zone_postload(): a journal that does not end with the zone's serial number is
\* removed.
Restarts(f, g) ==
    /\ zone' = roll_forward(f, master)
    /\ LET removed == zone' # None /\ f.end.serial # SerialOf(zone')
       IN  /\ file' = IF removed THEN NewFile ELSE f
           /\ synced' = IF removed THEN NewFile ELSE g
    /\ txn' = None /\ dumping' = None /\ compact' = None
    /\ excused' = excused \cup Excuses(file')
    /\ UNCHANGED <<master, acked, made>>

\* What a loss of power leaves: of each block the old contents or the new; the
\* header and the index are one block.
Part(what, k) == <<what, k>>

Torn(S) ==
    [begin |-> IF Part("header", 0) \in S THEN file.begin ELSE synced.begin,
     end   |-> IF Part("header", 0) \in S THEN file.end ELSE synced.end,
     index |-> IF Part("header", 0) \in S THEN file.index ELSE synced.index,
     xhdr  |-> [k \in Offsets |-> IF Part("xhdr", k) \in S THEN file.xhdr[k] ELSE synced.xhdr[k]],
     body  |-> [k \in Offsets |-> IF Part("body", k) \in S THEN file.body[k] ELSE synced.body[k]]]

Dirty == (IF <<file.begin, file.end, file.index>> # <<synced.begin, synced.end, synced.index>>
            THEN {Part("header", 0)} ELSE {})
         \cup {Part("xhdr", k) : k \in {k \in Offsets : file.xhdr[k] # synced.xhdr[k]}}
         \cup {Part("body", k) : k \in {k \in Offsets : file.body[k] # synced.body[k]}}

-----------------------------------------------------------------------------
(* A transaction *)

\* dns_journal_open(), dns_journal_begin_transaction(), dns_journal_writediff():
\* a header of zeros and the records, where nothing is addressable.  An update or
\* a transfer makes a new version; step is what it adds to the serial number.
dns_journal_writediff(step) ==
    /\ zone # None /\ txn = None /\ made < MaxVersions
    /\ LET k  == IF JOURNAL_EMPTY(file) THEN 1 ELSE file.end.offset
           to == [line |-> zone.line \cup {made + 1}, n |-> zone.n + step]
       IN  /\ k \in Offsets
           /\ file' = [file EXCEPT !.xhdr[k] = None, !.body[k] = [from |-> zone, to |-> to]]
           /\ txn' = [at |-> "data", to |-> to,
                      pos0 |-> Pos(SerialOf(zone), k), pos1 |-> Pos(SerialOf(to), k + 1),
                      begin |-> file.begin, end |-> file.end, index |-> file.index]
    /\ made' = made + 1
    /\ excused' = IF \A v \in {master, compact} \ {None} : txn'.to.n - v.n < SerialMod \div 2
                    THEN excused ELSE excused \cup {"serial"}
    /\ UNCHANGED <<synced, jnw, zone, master, dumping, compact, acked>>

\* Mutant: a transaction that does not start where the last one ended is accepted.
Consistent_any == TRUE

\* "Perform some basic consistency checks."
Consistent == JOURNAL_EMPTY(txn) \/ txn.pos0.serial = txn.end.serial

\* dns_journal_commit() up to the first journal_fsync(): transactions that are no
\* longer addressable are dropped.
commit_data ==
    /\ txn # None /\ txn.at = "data" /\ Consistent
    /\ LET new   == txn.pos1.serial
           begin == CHOOSE k \in txn.begin.offset .. txn.end.offset :
                       /\ DNS_SERIAL_GT(new, SerialAt(file, k))
                       /\ \A l \in txn.begin.offset .. k - 1 : ~DNS_SERIAL_GT(new, SerialAt(file, l))
       IN  /\ ~JOURNAL_EMPTY(txn) => Readable(file, txn.begin.offset, begin)
           /\ txn' = IF JOURNAL_EMPTY(txn) THEN [txn EXCEPT !.at = "xhdr"]
                     ELSE [txn EXCEPT !.at = "xhdr", !.begin = Pos(SerialAt(file, begin), begin),
                                      !.index = index_invalidate(@, new)]
    /\ synced' = file
    /\ UNCHANGED <<file, jnw, zone, master, dumping, compact, acked, made, excused>>

commit_xhdr ==
    /\ txn # None /\ txn.at = "xhdr"
    /\ file' = [file EXCEPT !.xhdr[txn.pos0.offset] =
                  [serial0 |-> txn.pos0.serial, serial1 |-> txn.pos1.serial]]
    /\ txn' = [txn EXCEPT !.at = "header"]
    /\ UNCHANGED <<synced, jnw, zone, master, dumping, compact, acked, made, excused>>

commit_header ==
    /\ txn # None /\ txn.at = "header"
    /\ file' = [file EXCEPT !.begin = IF JOURNAL_EMPTY(txn) THEN txn.pos0 ELSE txn.begin,
                            !.end = txn.pos1]
    /\ txn' = [txn EXCEPT !.at = "index", !.index = index_add(@, txn.pos0)]
    /\ UNCHANGED <<synced, jnw, zone, master, dumping, compact, acked, made, excused>>

\* index_to_disk()
commit_index ==
    /\ txn # None /\ txn.at = "index"
    /\ file' = [file EXCEPT !.index = txn.index]
    /\ txn' = [txn EXCEPT !.at = "sync"]
    /\ UNCHANGED <<synced, jnw, zone, master, dumping, compact, acked, made, excused>>

\* The second journal_fsync(); then the caller commits the version to the
\* database: the update is acknowledged.
commit_done ==
    /\ txn # None /\ txn.at = "sync"
    /\ synced' = file /\ zone' = txn.to /\ acked' = txn.to /\ txn' = None
    /\ UNCHANGED <<file, jnw, master, dumping, compact, made, excused>>

\* A check or an I/O operation of the transaction fails: the caller destroys the
\* journal object and gives the version up.  What was written stays.
fail ==
    /\ txn # None /\ txn' = None
    /\ excused' = excused \cup Excuses(file)
    /\ UNCHANGED <<file, synced, jnw, zone, master, dumping, compact, acked, made>>

-----------------------------------------------------------------------------
(* Dump and compaction *)

IndexEnd == 1

\* "Cope with very small target sizes."
Target == IF TargetSize < 2 * IndexEnd THEN TargetSize \div 2 + IndexEnd ELSE TargetSize

\* dns_journal_compact() has something to do.
NeedsCompaction(f, serial) ==
    /\ ~JOURNAL_EMPTY(f)
    /\ ~DNS_SERIAL_GT(f.begin.serial, serial) /\ ~DNS_SERIAL_GT(serial, f.end.serial)
    /\ f.end.offset >= Target

\* Enough remains for the file to be worth cutting at offset k.
Enough(f, k) == f.end.offset - k >= (Target - IndexEnd) \div 2

\* The entry of the index that cuts off most and is not beyond serial.
compact_guess(f, serial) ==
    LET best[i \in 0 .. IndexSize] ==
          IF i = 0 THEN f.begin
          ELSE IF /\ POS_VALID(f.index[i]) /\ DNS_SERIAL_GE(serial, f.index[i].serial)
                  /\ Enough(f, f.index[i].offset) /\ f.index[i].offset > best[i - 1].offset
            THEN f.index[i] ELSE best[i - 1]
    IN  best[IndexSize]

\* From there a walk, and one transaction more unless it has arrived at serial.
compact_from(f, serial) ==
    LET guess  == compact_guess(f, serial)
        walked == {k \in guess.offset .. f.end.offset - 1 :
                     \A l \in guess.offset + 1 .. k :
                         DNS_SERIAL_GE(serial, SerialAt(f, l)) /\ Enough(f, l)}
        best   == CHOOSE k \in walked : \A l \in walked : l <= k
    IN  IF SerialAt(f, best) = serial THEN best ELSE best + 1

\* "Build new index."
new_index(f, from, old) ==
    LET built[k \in 0 .. f.end.offset - from] ==
          IF k = 0 THEN old ELSE index_add(built[k - 1], Pos(SerialAt(f, k + from - 1), k))
    IN  built[f.end.offset - from]

\* The file that is to replace f: it keeps what follows serial and, as far as the
\* target size allows, what precedes it.  It is not new if there is a .jnw file.
Compacted(f, serial) ==
    LET from   == compact_from(f, serial)
        length == f.end.offset - from
        old    == IF jnw = None THEN NewFile ELSE jnw
        moved(part, was) == [k \in Offsets |-> IF k <= length THEN part[k + from - 1] ELSE was[k]]
    IN  IF length = 0 THEN old
        ELSE [begin |-> Pos(SerialAt(f, from), 1), end |-> Pos(f.end.serial, 1 + length),
              index |-> new_index(f, from, old.index),
              xhdr  |-> moved(f.xhdr, old.xhdr), body |-> moved(f.body, old.body)]

\* The new file is synced and renamed; if anything fails it is removed.
dns_journal_compact(serial) ==
    \/ /\ ~NeedsCompaction(file, serial)
       /\ UNCHANGED <<file, synced, jnw>>
    \/ /\ NeedsCompaction(file, serial)
       /\ \/ file' = Compacted(file, serial) /\ synced' = file'
          \/ UNCHANGED <<file, synced>>
       /\ jnw' = None

zone_dump ==
    /\ zone # None /\ dumping = None
    /\ dumping' = [version |-> zone, renamed |-> FALSE]
    /\ UNCHANGED <<file, synced, jnw, txn, zone, master, compact, acked, made, excused>>

\* The dump is complete and on the disk: it becomes the master file.
closeandrename ==
    /\ dumping # None /\ ~dumping.renamed
    /\ master' = dumping.version /\ dumping' = [dumping EXCEPT !.renamed = TRUE]
    /\ UNCHANGED <<file, synced, jnw, txn, zone, compact, acked, made, excused>>

\* A dump that succeeded is followed by compaction, or if there is a transfer, of
\* one transaction or several, by a note to do it later.
dump_done ==
    /\ dumping # None /\ dumping' = None
    /\ \/ /\ dumping.renamed /\ txn = None
          /\ dns_journal_compact(SerialOf(dumping.version)) /\ UNCHANGED compact
       \/ /\ dumping.renamed
          /\ compact' = dumping.version /\ UNCHANGED <<file, synced, jnw>>
       \/ /\ ~dumping.renamed
          /\ UNCHANGED <<file, synced, jnw, compact>>
    /\ UNCHANGED <<txn, zone, master, acked, made, excused>>

\* "Handle any deferred journal compaction."
zone_xfrdone ==
    /\ compact # None /\ txn = None
    /\ dns_journal_compact(SerialOf(compact)) /\ compact' = None
    /\ UNCHANGED <<txn, zone, master, dumping, acked, made, excused>>

-----------------------------------------------------------------------------
(* Crashes *)

\* named dies and is started again.
crash ==
    /\ zone # None
    /\ Restarts(file, synced) /\ UNCHANGED jnw

power_loss ==
    /\ zone # None
    /\ \E S \in SUBSET Dirty : Restarts(Torn(S), Torn(S))
    /\ UNCHANGED jnw

\* named dies when the new file of a compaction is written, and not yet renamed.
crash_in_compact ==
    /\ dumping # None /\ dumping.renamed /\ txn = None
    /\ NeedsCompaction(file, SerialOf(dumping.version))
    /\ jnw' = Compacted(file, SerialOf(dumping.version))
    /\ Restarts(file, synced)

-----------------------------------------------------------------------------
Init ==
    /\ file = NewFile /\ synced = NewFile /\ jnw = None
    /\ txn = None /\ dumping = None /\ compact = None
    /\ \E n \in FirstSerials : master = [line |-> {1}, n |-> n]
    /\ zone = master /\ acked = master
    /\ made = 1 /\ excused = {}

\* A serial number may grow by less than half the range at a time.
Steps == 1 .. SerialMod \div 2 - 1

Next ==
    \/ \E step \in Steps : dns_journal_writediff(step)
    \/ commit_data \/ commit_xhdr \/ commit_header \/ commit_index \/ commit_done \/ fail
    \/ zone_dump \/ closeandrename \/ dump_done \/ zone_xfrdone
    \/ crash \/ power_loss

Spec == Init /\ [][Next]_vars

SpecLeftover == Init /\ [][Next \/ crash_in_compact]_vars

-----------------------------------------------------------------------------
(* A restart serves what was acknowledged (the ARM: "it will replay the     *)
(* journal file to incorporate into the zone any updates that took place    *)
(* after the last zone dump").  Whenever named dies, in the middle of a     *)
(* transaction or after one that failed, the master file and the journal    *)
(* give the version that was served or one made from it.  After a loss of   *)
(* power the journal may be refused, but what it leads to has every update  *)
(* that was acknowledged.  (Excused: no dump is forced before the serial    *)
(* number has moved by half the range, "notyet" in dns_journal_commit(); a  *)
(* transaction header, the file header and the index are synced together.)  *)
RecoveryIsExact ==
    zone # None /\ excused = {} =>
        /\ roll_forward(file, master) # None
        /\ zone.line \subseteq roll_forward(file, master).line
        /\ \A S \in SUBSET Dirty :
              LET v == roll_forward(Torn(S), master) IN v # None => acked.line \subseteq v.line

(* The index never leads astray: for every serial number journal_find()     *)
(* finds the addressable transaction that starts with it, if there is one,  *)
(* after any number of transactions, removals from the index, turns of the  *)
(* serial number, failures, compactions and restarts.                       *)
FindIsExact ==
    zone # None /\ excused \subseteq {"serial"} /\ ~JOURNAL_EMPTY(file) =>
        \A serial \in 0 .. SerialMod - 1 :
            LET starts == {k \in file.begin.offset .. file.end.offset : SerialAt(file, k) = serial}
                found  == journal_find(file, serial)
            IN  IF starts = {} THEN found.result # "success"
                ELSE starts = {found.pos.offset} /\ found.pos.serial = serial
=============================================================================
