------------------------------- MODULE RaftLog -------------------------------
(***************************************************************************)
(* The entry log of a replicated partition (lib/raftlog/entrylog.go,       *)
(* log.go): a list of full files and the current one, each a table of      *)
(* slots, with the searches and updates RaftDiskStorage makes on them.     *)
(*                                                                         *)
(* A file is the sequence of its used slots; slots and files are counted   *)
(* from 0, the current file is file -1 and a slot that does not exist is   *)
(* -1, as in the code.  A slot keeps term, index and an abstraction of the *)
(* data.  Files are rotated after MaxNumEntries slots or when the data of  *)
(* an entry does not fit (which entries are large is an input).            *)
(***************************************************************************)
EXTENDS Integers, FiniteSets, SequencesExt

CONSTANT MaxNumEntries   \* maxNumEntries

ASSUME SlotsAssumption == MaxNumEntries \in Nat \ {0}

\* The data of an entry: rows, nothing, or a ClearEntryLog proposal with its
\* index and (a history) the lowest Match its leader read, 0 for another node's.
Rows == [kind |-> "rows", index |-> 0, match |-> 0]
NoData == [kind |-> "none", index |-> 0, match |-> 0]
ClearEntryLog(i, m) == [kind |-> "clear", index |-> i, match |-> m]

\* The elements of s that are in S, in their order.
Filter(s, S) ==
  LET kept[k \in 0..Len(s)] == IF k = 0 THEN <<>>
                               ELSE IF s[k] \in S THEN Append(kept[k - 1], s[k])
                               ELSE kept[k - 1]
  IN  kept[Len(s)]

\* The slots of a sequence of files, file after file.
Joined(files) ==
  LET upTo[k \in 0..Len(files)] == IF k = 0 THEN <<>> ELSE upTo[k - 1] \o files[k]
  IN  upTo[Len(files)]

EmptyLog == [files |-> <<>>, current |-> <<>>, next |-> 0]

FirstOf(file) == IF file = <<>> THEN 0 ELSE file[1].index

\* logFile.slotGe: the first slot that is empty or holds an index >= i.  (The
\* look at slot i - first that precedes the search finds the same slot.)
FileSlotGe(file, i) ==
  IF file = <<>> \/ i < FirstOf(file) THEN -1
  ELSE Min({k \in 0..(MaxNumEntries - 1) : k >= Len(file) \/ file[k + 1].index >= i}
           \cup {MaxNumEntries})

\* entryLog.slotGe: file and slot of the first entry with an index >= i.
SlotGe(log, i) ==
  LET n == Len(log.files)
      ge == Min({k \in 0..(n - 1) : FirstOf(log.files[k + 1]) >= i} \cup {n})
      back == IF ge > 0 THEN ge - 1 ELSE ge
  IN  IF FileSlotGe(log.current, i) >= 0 THEN <<-1, FileSlotGe(log.current, i)>>
      ELSE IF n = 0 THEN <<-1, -1>>
      ELSE IF ge < n /\ FirstOf(log.files[ge + 1]) = i THEN <<ge, 0>>
      ELSE <<back, FileSlotGe(log.files[back + 1], i)>>

FileAt(log, f) == IF f = -1 THEN log.current ELSE log.files[f + 1]
Slots(file, n) == SubSeq(file, 1, Min({n, Len(file)}))

\* The write that zeroes the slots of an earlier file starts with a length of
\* its own and so ends four bytes into the data: they are the length of the data
\* of the file's first entry.
ZeroedTail(file, n) ==
  IF n = 0 THEN <<>> ELSE [Slots(file, n) EXCEPT ![1].data = NoData]

\* Mutant of DiscardFrom: entries of an earlier file are not looked for.
DiscardFromCurrent(log, i) ==
  LET n == FileSlotGe(log.current, i)
  IN  IF n < 0 THEN log ELSE [log EXCEPT !.current = Slots(@, n), !.next = n]

\* First part of AddEntries: discard the entries from index i on.
DiscardFrom(log, i) ==
  LET f == SlotGe(log, i)[1]
      n == SlotGe(log, i)[2]
  IN  IF n < 0 THEN log
      ELSE IF f = -1 THEN [log EXCEPT !.current = Slots(@, n), !.next = n]
      ELSE [files |-> SubSeq(log.files, 1, f),
            current |-> ZeroedTail(log.files[f + 1], n), next |-> n]

\* Mutant of WriteEntry: the file is rotated one entry too late.
WriteEntryLate(log, e, full) ==
  LET l == IF log.next > MaxNumEntries \/ full
           THEN [files |-> Append(log.files, log.current), current |-> <<>>, next |-> 0]
           ELSE log
  IN  [l EXCEPT !.current = Append(@, e), !.next = @ + 1]

\* Mutant of WriteEntry: rotate does not put the full file on the list.
WriteEntryUnlisted(log, e, full) ==
  LET l == IF log.next >= MaxNumEntries \/ full
           THEN [files |-> log.files, current |-> <<>>, next |-> 0]
           ELSE log
  IN  [l EXCEPT !.current = Append(@, e), !.next = @ + 1]

\* Second part: write one entry, into a new file when the current one is full.
WriteEntry(log, e, full) ==
  LET l == IF log.next >= MaxNumEntries \/ full
           THEN [files |-> Append(log.files, log.current), current |-> <<>>, next |-> 0]
           ELSE log
  IN  [l EXCEPT !.current = Append(@, e), !.next = @ + 1]

\* large holds the indexes whose data does not fit behind other data.  An entry
\* that exceeds maxLogFileSize (32MB) all alone, which would rotate an empty file
\* too, is assumed away: max-body-size is below it unless it is raised.
WriteEntries(log, entries, large) ==
  LET after[k \in 0..Len(entries)] ==
        IF k = 0 THEN log
        ELSE WriteEntry(after[k - 1], entries[k],
                        entries[k].index \in large /\ after[k - 1].next > 0)
  IN  after[Len(entries)]

AddEntries(log, entries, large) ==
  IF entries = <<>> THEN log
  ELSE WriteEntries(DiscardFrom(log, entries[1].index), entries, large)

\* The extra files AddEntries deletes when index i is in an earlier file, and
\* the directory when the process ends after k of them.
ExtraFiles(log, i) ==
  LET at == SlotGe(log, i)
  IN  IF at[2] < 0 \/ at[1] = -1 THEN 0 ELSE Len(log.files) - at[1]
DeletedExtra(log, i, k) ==
  LET f == SlotGe(log, i)[1] + 1
      all == Append(log.files, log.current)
      left == SubSeq(all, 1, f) \o SubSeq(all, f + k + 1, Len(all))
  IN  [files |-> Front(left), current |-> Last(left), next |-> Len(Last(left))]

\* deleteBefore: remove the files before the one that holds index i.
DeleteBefore(log, i) ==
  LET f == SlotGe(log, i)[1]
      n == SlotGe(log, i)[2]
  IN  IF n < 0 \/ f >= Len(log.files) THEN log
      ELSE IF f = -1 THEN [log EXCEPT !.files = <<>>]
      ELSE [log EXCEPT !.files = SubSeq(@, f + 1, Len(@))]

\* openEntryLogs: files without an entry are removed, the last one is current.
OpenEntryLogs(log) ==
  LET all == Append(log.files, log.current)
      used == Filter(all, ToSet(all) \ {<<>>})
  IN  IF used = <<>> THEN EmptyLog
      ELSE [files |-> Front(used), current |-> Last(used), next |-> Len(Last(used))]

FirstIndex(log) ==
  LET fi == IF log.files = <<>> THEN FirstOf(log.current) ELSE FirstOf(log.files[1])
  IN  IF fi = 0 THEN 1 ELSE fi

LastIndex(log) ==
  LET used == Filter(log.files, ToSet(log.files) \ {<<>>})
  IN  IF log.next > 0 THEN log.current[log.next].index
      ELSE IF used = <<>> THEN 0 ELSE Last(Last(used)).index

\* seekEntry: the term of entry i, or why there is none.
SeekEntry(log, i) ==
  LET f == SlotGe(log, i)[1]
      n == SlotGe(log, i)[2]
      Failed(why) == [err |-> why, term |-> 0]
  IN  IF i = 0 THEN [err |-> "nil", term |-> 0]
      ELSE IF n = -1 THEN Failed("compacted")
      ELSE IF n >= MaxNumEntries THEN Failed("unavailable")
      ELSE IF n >= Len(FileAt(log, f)) THEN Failed("unavailable")
      ELSE IF FileAt(log, f)[n + 1].index # i THEN Failed("notFound")
      ELSE [err |-> "nil", term |-> FileAt(log, f)[n + 1].term]

\* allEntries: from the slot of lo through the later files, up to the first index
\* that is not below hi (the callers here give no size limit).
AllEntries(log, lo, hi) ==
  LET all == Append(log.files, log.current)
      at == SlotGe(log, lo)
      first == IF at[1] = -1 THEN Len(all) ELSE at[1] + 1
      slots == Joined(SubSeq(all, first, Len(all)))
      from == Max({at[2], 0}) + 1
      end == Min({k \in from..Len(slots) : slots[k].index >= hi} \cup {Len(slots) + 1})
  IN  SubSeq(slots, from, end - 1)

\* Entries, as RaftDiskStorage answers it.
Entries(log, lo, hi) ==
  IF lo < FirstIndex(log) THEN [err |-> "compacted", ents |-> <<>>]
  ELSE IF hi > LastIndex(log) + 1 THEN [err |-> "unavailable", ents |-> <<>>]
  ELSE [err |-> "nil", ents |-> AllEntries(log, lo, hi)]

\* All entries the log holds, file after file.
Contents(log) == Joined(Append(log.files, log.current))
=============================================================================
