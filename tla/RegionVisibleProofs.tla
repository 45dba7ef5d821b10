------------------------ MODULE RegionVisibleProofs ------------------------
(***************************************************************************)
(* Proofs about RegionLog, last part: what a walk over a region returns    *)
(* and where it ends (Scan, TailOf), where the next entry goes, and what   *)
(* an iterator has seen.  Together with where the entries lie              *)
(* (RegionLayoutProofs) that is an invariant, and it says what a reader    *)
(* sees, in memory and after any power failures; that the regions          *)
(* implement LogSpec, step by step; and that every value stays in its      *)
(* range.                                                                  *)
(***************************************************************************)
EXTENDS RegionLayoutProofs, SequenceTheorems

-----------------------------------------------------------------------------
(* What is found at the start of an entry, and behind the last one         *)

Valid(r) == Smaller(committed, maxValid[r])

LEMMA ValidBound ==
  ASSUME HistoryIInv, NEW r \in allocated
  PROVE  /\ Valid(r) \in Nat /\ Valid(r) <= committed /\ Valid(r) <= maxValid[r]
         /\ \A k \in 1 .. Len(log[r]) :
              /\ log[r][k].timestamp \in Nat /\ 0 < log[r][k].timestamp
              /\ log[r][k].timestamp <= maxValid[r]
              /\ log[r][k].timestamp <= Valid(r) <=> log[r][k].timestamp <= committed
              /\ log[r][k].timestamp <= committed =>
                   log[r][k].timestamp \in Published /\ log[r][k].timestamp \in Copied
                   /\ log[r][k].timestamp \in Durable
<1>1. Types /\ History /\ r \in Regions
  BY StateTypes DEF HistoryIInv, RuntimeIInv
<1>2. committed \in Nat /\ maxValid[r] \in Nat
  BY <1>1, StateTypes
<1>3. Valid(r) \in Nat /\ Valid(r) <= committed /\ Valid(r) <= maxValid[r]
      /\ (Valid(r) = committed \/ Valid(r) = maxValid[r])
  BY <1>2 DEF Valid, Smaller
<1>4. \A k \in 1 .. Len(log[r]) : log[r][k].timestamp \in Nat /\ 0 < log[r][k].timestamp
  BY <1>1, LogTypes DEF History, LogTimes
<1>5. \A k \in 1 .. Len(log[r]) : log[r][k].timestamp <= maxValid[r]
  BY MarksHide DEF MarksHideNothing
<1>6. \A k \in 1 .. Len(log[r]) : log[r][k].timestamp <= Valid(r) <=> log[r][k].timestamp <= committed
  BY <1>2, <1>3, <1>4, <1>5
<1>7. \A t \in Nat : t <= committed => t \in Published /\ t \in Copied /\ t \in Durable
  BY DEF Published, Copied, Durable
<1> QED
  BY <1>3, <1>4, <1>5, <1>6, <1>7

\* The header of a published entry, and its cells when it is copied too.
LEMMA EntryRead ==
  ASSUME HistoryIInv, NEW r \in allocated, Laid(r), NEW k \in 1 .. Len(log[r]),
         log[r][k].timestamp \in Published, log[r][k].timestamp \in Copied
  PROVE  /\ Header(r, k).span = Len(log[r][k].payload) /\ Header(r, k).span > 0
         /\ Header(r, k).timestamp = log[r][k].timestamp
         /\ EntryAt(r, log[r][k].offset) = log[r][k]
<1>1. Types /\ History /\ r \in Regions /\ Tiled(r)
  BY StateTypes DEF HistoryIInv, RuntimeIInv, Laid
<1> DEFINE e == log[r][k]
           o == e.offset
           n == Len(e.payload)
<1>2. /\ e \in Entries /\ o \in Nat /\ n \in Nat /\ n > 0 /\ o + 1 + n <= Capacity /\ Capacity \in Nat
      /\ e.payload \in Seq(Nat)
  <2>1. EntryEnd(e) = o + 1 + n /\ EntryEnd(e) <= Capacity /\ n > 0 /\ o \in Nat /\ n \in Nat
    BY <1>1, Geometry
  <2> QED
    BY <1>1, <2>1, LogTypes, Constants
<1>3. WrittenAt(r, k)
  BY DEF Laid, Written
<1>4. Header(r, k).span = n /\ Header(r, k).timestamp = e.timestamp
  BY <1>3 DEF WrittenAt
<1>5. \A j \in 1 .. n : cells[<<r, o + j>>].payload = e.payload[j]
  BY <1>3 DEF WrittenAt
<1>6. \A j \in 1 .. n : o + j < Capacity
  <2>1. \A x, y, z \in Nat : x + 1 + y <= z => \A j \in 1 .. y : x + j < z
    OBVIOUS
  <2> QED
    BY <1>2, <2>1
<1>7. cells[<<r, o>>].span = n /\ cells[<<r, o>>].timestamp = e.timestamp
  BY <1>4 DEF Header
<1>8. e.payload = [j \in 1 .. n |-> e.payload[j]]
  <2>1. \A s \in Seq(Nat) : s = [j \in 1 .. Len(s) |-> s[j]]
    OBVIOUS
  <2>2. e.payload \in Seq(Nat)
    BY <1>2 DEF Entries
  <2> HIDE DEF e
  <2> QED
    BY <2>1, <2>2
<1>9. e = [timestamp |-> e.timestamp, offset |-> e.offset, payload |-> e.payload]
  BY <1>2 DEF Entries
<1> HIDE DEF e, o, n
<1>10. [j \in 1 .. cells[<<r, o>>].span |->
          IF o + j < Capacity THEN cells[<<r, o + j>>].payload ELSE 0] = [j \in 1 .. n |-> e.payload[j]]
  BY <1>5, <1>6, <1>7
<1>11. EntryAt(r, o) = [timestamp |-> e.timestamp, offset |-> o, payload |-> e.payload]
  BY <1>7, <1>8, <1>10 DEF EntryAt
<1>12. EntryAt(r, o) = e
  BY <1>9, <1>11 DEF o
<1> QED
  BY <1>2, <1>4, <1>12 DEF e, o, n

\* The header of an entry is valid when the entry is committed, and not before.
LEMMA ValidAtEntry ==
  ASSUME HistoryIInv, NEW r \in allocated, Laid(r), NEW k \in 1 .. Len(log[r])
  PROVE  /\ log[r][k].timestamp <= committed =>
              /\ ValidAt(r, log[r][k].offset) /\ EntryAt(r, log[r][k].offset) = log[r][k]
              /\ log[r][k].offset + 1 + Header(r, k).span = Start(r, k + 1)
         /\ ~(log[r][k].timestamp <= committed) => ~ValidAt(r, log[r][k].offset)
         /\ log[r][k].offset \in 0 .. Capacity - 1
<1>1. Types /\ History /\ r \in Regions /\ Tiled(r)
  BY StateTypes DEF HistoryIInv, RuntimeIInv, Laid
<1>2. log[r][k].offset \in 0 .. Capacity - 1 /\ log[r][k].offset < Capacity /\ log[r][k].offset \in Nat
  <2>1. log[r][k].offset \in 0 .. Capacity - 1 /\ Capacity \in Nat
    BY <1>1, HeaderIndex, Constants
  <2> QED
    BY <2>1
<1>3. /\ Valid(r) \in Nat /\ Valid(r) <= committed
      /\ log[r][k].timestamp \in Nat /\ 0 < log[r][k].timestamp
      /\ log[r][k].timestamp <= Valid(r) <=> log[r][k].timestamp <= committed
      /\ log[r][k].timestamp <= committed =>
           log[r][k].timestamp \in Published /\ log[r][k].timestamp \in Copied
  BY ValidBound
<1>4. ValidAt(r, log[r][k].offset) <=>
        /\ Header(r, k).span # Empty /\ Header(r, k).timestamp # 0
        /\ Header(r, k).timestamp <= Valid(r)
  BY <1>2 DEF ValidAt, IsValid, Header, Valid
<1>5. ASSUME log[r][k].timestamp <= committed
      PROVE  /\ ValidAt(r, log[r][k].offset) /\ EntryAt(r, log[r][k].offset) = log[r][k]
             /\ log[r][k].offset + 1 + Header(r, k).span = Start(r, k + 1)
  <2>1. /\ Header(r, k).span = Len(log[r][k].payload) /\ Header(r, k).span > 0
        /\ Header(r, k).timestamp = log[r][k].timestamp
        /\ EntryAt(r, log[r][k].offset) = log[r][k]
    BY <1>3, <1>5, EntryRead
  <2>2. Start(r, k + 1) = log[r][k].offset + 1 + Len(log[r][k].payload)
    BY <1>1, Geometry
  <2>3. Header(r, k).span # Empty /\ Header(r, k).timestamp # 0 /\ Header(r, k).timestamp <= Valid(r)
    BY <1>3, <1>5, <2>1 DEF Empty
  <2> QED
    BY <1>4, <2>1, <2>2, <2>3
<1>6. ASSUME ~(log[r][k].timestamp <= committed) PROVE ~ValidAt(r, log[r][k].offset)
  <2>1. HeaderOK(Header(r, k), log[r][k].timestamp)
    BY DEF Laid, Headed, HeadedAt
  <2> QED
    BY <1>3, <1>4, <1>6, <2>1 DEF HeaderOK
<1> QED
  BY <1>2, <1>5, <1>6

\* Nothing is valid behind the last entry when that is committed.
LEMMA InvalidAtEnd ==
  ASSUME HistoryIInv, NEW r \in allocated, Laid(r),
         \A k \in 1 .. Len(log[r]) : log[r][k].timestamp <= committed
  PROVE  ~ValidAt(r, LogEnd(r))
<1> SUFFICES ASSUME LogEnd(r) < Capacity
             PROVE  ~IsValid(cells[<<r, LogEnd(r)>>], Valid(r))
  BY DEF ValidAt, Valid
<1>1. Types /\ History /\ Marks /\ r \in Regions /\ Tiled(r)
  BY StateTypes DEF HistoryIInv, RuntimeIInv, Laid
<1>2. Valid(r) \in Nat /\ Valid(r) <= committed /\ Valid(r) <= maxValid[r]
      /\ committed \in Nat /\ maxValid[r] \in Nat
  BY <1>1, ValidBound, StateTypes
<1>3. AllDurable(r)
  <2>1. Len(log[r]) # 0 => Len(log[r]) \in 1 .. Len(log[r])
    BY <1>1, LogTypes
  <2> QED
    BY <2>1, ValidBound DEF AllDurable
<1> DEFINE c == cells[<<r, LogEnd(r)>>]
<1>4. c \in cellsMedium[<<r, LogEnd(r)>>] /\ c \in Cell
  <2>1. <<r, LogEnd(r)>> \in Places
    BY <1>1, TailPlace
  <2> QED
    BY <1>1, <2>1 DEF Types, CellTypes
<1>5. TailOK(c, TailBound(r))
  BY <1>3, <1>4 DEF Laid, Ended
<1>6. Valid(r) <= TailBound(r) /\ TailBound(r) \in Nat
  BY <1>1, <1>2 DEF TailBound, Marks
<1>7. c.timestamp \in Nat
  BY <1>4 DEF Cell
<1> HIDE DEF c
<1>8. c.span = Empty \/ c.timestamp > Valid(r)
  BY <1>2, <1>5, <1>6, <1>7 DEF TailOK
<1>9. ~IsValid(c, Valid(r))
  BY <1>2, <1>7, <1>8 DEF IsValid
<1> QED
  BY <1>9 DEF c

-----------------------------------------------------------------------------
(* What a walk returns                                                     *)

\* The entries of a region that are committed come first: there are n of them.
CommittedTo(r, n) ==
  /\ n \in 0 .. Len(log[r])
  /\ \A k \in 1 .. Len(log[r]) : log[r][k].timestamp <= committed <=> k <= n

LEMMA WalkSteps ==
  ASSUME HistoryIInv, NEW r \in allocated, Laid(r), NEW n, CommittedTo(r, n)
  PROVE  /\ \A k \in 1 .. n : /\ ValidAt(r, Start(r, k)) /\ EntryAt(r, Start(r, k)) = log[r][k]
                              /\ Start(r, k) + 1 + cells[<<r, Start(r, k)>>].span = Start(r, k + 1)
         /\ ~ValidAt(r, Start(r, n + 1))
         /\ n \in Nat /\ Len(log[r]) \in Nat
         /\ \A k \in 1 .. n + 1 : Start(r, k) \in 0 .. 2 * Capacity
<1>1. Types /\ History /\ r \in Regions /\ Tiled(r)
  BY StateTypes DEF HistoryIInv, RuntimeIInv, Laid
<1>2. Len(log[r]) \in Nat /\ n \in Nat /\ n <= Len(log[r]) /\ LogEnd(r) \in Nat /\ LogEnd(r) <= Capacity
      /\ Capacity \in Nat
  BY <1>1, Geometry, Constants DEF CommittedTo
<1>3. \A k \in 1 .. Len(log[r]) : Start(r, k) = log[r][k].offset
  BY DEF Laid, Tiled
<1>4. ASSUME NEW k \in 1 .. n
      PROVE  /\ ValidAt(r, Start(r, k)) /\ EntryAt(r, Start(r, k)) = log[r][k]
             /\ Start(r, k) + 1 + cells[<<r, Start(r, k)>>].span = Start(r, k + 1)
  <2>1. k \in 1 .. Len(log[r]) /\ k <= n
    BY <1>2
  <2>2. log[r][k].timestamp <= committed
    BY <2>1 DEF CommittedTo
  <2>3. Start(r, k) = log[r][k].offset
    BY <1>3, <2>1
  <2>4. Header(r, k) = cells[<<r, Start(r, k)>>]
    BY <2>3 DEF Header
  <2> QED
    BY <2>1, <2>2, <2>3, <2>4, ValidAtEntry
<1>5. Start(r, Len(log[r]) + 1) = LogEnd(r)
  BY <1>1, Geometry
<1>6. ~ValidAt(r, Start(r, n + 1))
  <2>1. CASE n = Len(log[r])
    <3>1. \A k \in 1 .. Len(log[r]) : log[r][k].timestamp <= committed
      BY <2>1 DEF CommittedTo
    <3> QED
      BY <1>5, <2>1, <3>1, InvalidAtEnd
  <2>2. CASE n # Len(log[r])
    <3>1. n + 1 \in 1 .. Len(log[r]) /\ ~(n + 1 <= n)
      BY <1>2, <2>2
    <3>2. ~(log[r][n + 1].timestamp <= committed)
      BY <3>1 DEF CommittedTo
    <3>3. ~ValidAt(r, log[r][n + 1].offset)
      BY <3>1, <3>2, ValidAtEntry
    <3> QED
      BY <1>3, <3>1, <3>3
  <2> QED
    BY <2>1, <2>2
<1>7. ASSUME NEW k \in 1 .. n + 1 PROVE Start(r, k) \in 0 .. 2 * Capacity
  <2>1. CASE k \in 1 .. Len(log[r])
    <3>1. log[r][k].offset \in 0 .. Capacity - 1
      BY <2>1, ValidAtEntry
    <3> QED
      BY <1>2, <1>3, <2>1, <3>1
  <2>2. CASE k = Len(log[r]) + 1
    BY <1>2, <1>5, <2>2
  <2>3. k \in 1 .. Len(log[r]) \/ k = Len(log[r]) + 1
    BY <1>2
  <2> QED
    BY <2>1, <2>2, <2>3
<1> QED
  BY <1>2, <1>4, <1>6, <1>7

LEMMA ScanIs ==
  ASSUME HistoryIInv, NEW r \in allocated, Laid(r), NEW n, CommittedTo(r, n)
  PROVE  Scan(r) = SubSeq(log[r], 1, n)
<1>1. Types /\ r \in Regions /\ log[r] \in Seq(Entries)
  BY StateTypes DEF HistoryIInv, RuntimeIInv
<1>2. PICK f : f = ScanBody(r, f) /\ Scan(r) = f[0]
  BY <1>1, ScanFrom
<1>3. /\ \A k \in 1 .. n : /\ ValidAt(r, Start(r, k)) /\ EntryAt(r, Start(r, k)) = log[r][k]
                           /\ Start(r, k) + 1 + cells[<<r, Start(r, k)>>].span = Start(r, k + 1)
      /\ ~ValidAt(r, Start(r, n + 1))
      /\ n \in Nat /\ Len(log[r]) \in Nat
      /\ \A k \in 1 .. n + 1 : Start(r, k) \in 0 .. 2 * Capacity
  BY WalkSteps
<1>4. \A i \in 0 .. 2 * Capacity :
        f[i] = IF ValidAt(r, i) THEN <<EntryAt(r, i)>> \o f[i + 1 + cells[<<r, i>>].span] ELSE << >>
  <2>1. \A i \in 0 .. 2 * Capacity :
          ScanBody(r, f)[i] = IF ValidAt(r, i) THEN <<EntryAt(r, i)>> \o f[i + 1 + cells[<<r, i>>].span]
                              ELSE << >>
    BY DEF ScanBody
  <2> QED
    BY <1>2, <2>1
<1>5. f[Start(r, n + 1)] = << >>
  <2>1. n + 1 \in 1 .. n + 1
    BY <1>3
  <2> QED
    BY <1>3, <1>4, <2>1
<1>6. ASSUME NEW k \in 1 .. n PROVE f[Start(r, k)] = <<log[r][k]>> \o f[Start(r, k + 1)]
  <2>1. k \in 1 .. n + 1
    BY <1>3
  <2>2. Start(r, k) \in 0 .. 2 * Capacity
    BY <1>3, <2>1
  <2> QED
    BY <1>3, <1>4, <2>2
<1> DEFINE S == {j \in Nat : j <= n => f[Start(r, n + 1 - j)] = SubSeq(log[r], n + 1 - j, n)}
<1>7. n <= Len(log[r])
  BY DEF CommittedTo
<1>8. 0 \in S
  <2>1. n + 1 - 0 = n + 1 /\ n < n + 1
    BY <1>3
  <2>2. SubSeq(log[r], n + 1, n) = << >>
    BY <1>1, <1>3, <2>1
  <2> QED
    BY <1>5, <2>1, <2>2
<1>9. ASSUME NEW j \in S PROVE j + 1 \in S
  <2> SUFFICES ASSUME j + 1 <= n
               PROVE  f[Start(r, n + 1 - (j + 1))] = SubSeq(log[r], n + 1 - (j + 1), n)
    OBVIOUS
  <2> DEFINE k == n + 1 - (j + 1)
  <2>1. j \in Nat /\ k \in 1 .. n /\ n + 1 - j = k + 1 /\ j <= n /\ k + 1 <= n + 1
    BY <1>3
  <2>2. f[Start(r, k + 1)] = SubSeq(log[r], k + 1, n)
    BY <2>1
  <2> HIDE DEF k
  <2>3. <<log[r][k]>> \o SubSeq(log[r], k + 1, n) = SubSeq(log[r], k, n)
    <3>1. k \in 1 .. Len(log[r]) /\ n \in k .. Len(log[r])
      BY <1>3, <1>7, <2>1
    <3> QED
      BY <1>1, <3>1, SubSeqRecursiveFirst
  <2>4. f[Start(r, k)] = SubSeq(log[r], k, n)
    BY <1>6, <2>1, <2>2, <2>3
  <2> QED
    BY <2>4 DEF k
<1>10. S = Nat
  <2>1. S \in SUBSET Nat
    OBVIOUS
  <2> HIDE DEF S
  <2> QED
    BY <1>8, <1>9, <2>1, Induction
<1>11. n \in S
  BY <1>3, <1>10
<1>12. n <= n /\ n + 1 - n = 1 /\ Start(r, 1) = 0
  BY <1>3 DEF Start
<1>13. f[Start(r, n + 1 - n)] = SubSeq(log[r], n + 1 - n, n)
  BY <1>11, <1>12
<1> QED
  BY <1>2, <1>12, <1>13

\* The search for the tail ends at the same place.
LEMMA TailIs ==
  ASSUME HistoryIInv, NEW r \in allocated, Laid(r), NEW n, CommittedTo(r, n)
  PROVE  TailOf(r) = Start(r, n + 1)
<1>1. Types /\ r \in Regions /\ log[r] \in Seq(Entries)
  BY StateTypes DEF HistoryIInv, RuntimeIInv
<1>2. PICK f : f = TailBody(r, f) /\ TailOf(r) = f[0]
  BY <1>1, TailFrom
<1>3. /\ \A k \in 1 .. n : /\ ValidAt(r, Start(r, k))
                           /\ Start(r, k) + 1 + cells[<<r, Start(r, k)>>].span = Start(r, k + 1)
      /\ ~ValidAt(r, Start(r, n + 1))
      /\ n \in Nat
      /\ \A k \in 1 .. n + 1 : Start(r, k) \in 0 .. 2 * Capacity
  BY WalkSteps
<1>4. \A i \in 0 .. 2 * Capacity :
        f[i] = IF ValidAt(r, i) THEN f[i + 1 + cells[<<r, i>>].span] ELSE i
  <2>1. \A i \in 0 .. 2 * Capacity :
          TailBody(r, f)[i] = IF ValidAt(r, i) THEN f[i + 1 + cells[<<r, i>>].span] ELSE i
    BY DEF TailBody
  <2> QED
    BY <1>2, <2>1
<1>5. f[Start(r, n + 1)] = Start(r, n + 1)
  <2>1. n + 1 \in 1 .. n + 1
    BY <1>3
  <2> QED
    BY <1>3, <1>4, <2>1
<1>6. ASSUME NEW k \in 1 .. n PROVE f[Start(r, k)] = f[Start(r, k + 1)]
  <2>1. k \in 1 .. n + 1
    BY <1>3
  <2>2. Start(r, k) \in 0 .. 2 * Capacity
    BY <1>3, <2>1
  <2>3. f[Start(r, k)] = IF ValidAt(r, Start(r, k))
                         THEN f[Start(r, k) + 1 + cells[<<r, Start(r, k)>>].span] ELSE Start(r, k)
    BY <1>4, <2>2
  <2>4. /\ ValidAt(r, Start(r, k))
        /\ Start(r, k) + 1 + cells[<<r, Start(r, k)>>].span = Start(r, k + 1)
    BY <1>3
  <2> QED
    BY <2>3, <2>4
<1> DEFINE S == {j \in Nat : j <= n => f[Start(r, n + 1 - j)] = Start(r, n + 1)}
<1>7. 0 \in S
  <2>1. n + 1 - 0 = n + 1
    BY <1>3
  <2> QED
    BY <1>5, <2>1
<1>8. ASSUME NEW j \in S PROVE j + 1 \in S
  <2> SUFFICES ASSUME j + 1 <= n
               PROVE  f[Start(r, n + 1 - (j + 1))] = Start(r, n + 1)
    OBVIOUS
  <2> DEFINE k == n + 1 - (j + 1)
  <2>1. j \in Nat /\ k \in 1 .. n /\ n + 1 - j = k + 1 /\ j <= n
    BY <1>3
  <2>2. f[Start(r, k + 1)] = Start(r, n + 1)
    BY <2>1
  <2> HIDE DEF k
  <2>3. f[Start(r, k)] = Start(r, n + 1)
    BY <1>6, <2>1, <2>2
  <2> QED
    BY <2>3 DEF k
<1>9. S = Nat
  <2>1. S \in SUBSET Nat
    OBVIOUS
  <2> HIDE DEF S
  <2> QED
    BY <1>7, <1>8, <2>1, Induction
<1>10. n \in S
  BY <1>3, <1>9
<1>11. n <= n /\ n + 1 - n = 1 /\ Start(r, 1) = 0
  BY <1>3 DEF Start
<1>12. f[Start(r, n + 1 - n)] = Start(r, n + 1)
  BY <1>10, <1>11
<1> QED
  BY <1>2, <1>11, <1>12

\* What is visible is the log up to the committed timestamp.
LEMMA VisibleIs ==
  ASSUME HistoryIInv, NEW r \in allocated, Laid(r)
  PROVE  \E n : CommittedTo(r, n) /\ Scan(r) = SubSeq(log[r], 1, n) /\ Upto(log[r], committed) = Scan(r)
                /\ TailOf(r) = Start(r, n + 1)
<1>1. Types /\ History /\ r \in Regions /\ log[r] \in Seq(Entries) /\ committed \in Nat
  BY StateTypes DEF HistoryIInv, RuntimeIInv
<1>2. \A j, k \in 1 .. Len(log[r]) : j < k => log[r][j].timestamp < log[r][k].timestamp
  BY <1>1 DEF History, LogTimes
<1>3. PICK n \in 0 .. Len(log[r]) :
        /\ Upto(log[r], committed) = SubSeq(log[r], 1, n)
        /\ \A k \in 1 .. Len(log[r]) : log[r][k].timestamp <= committed <=> k <= n
  BY <1>1, <1>2, UptoCut
<1>4. CommittedTo(r, n)
  BY <1>3 DEF CommittedTo
<1>5. Scan(r) = SubSeq(log[r], 1, n) /\ TailOf(r) = Start(r, n + 1)
  BY <1>4, ScanIs, TailIs
<1> QED
  BY <1>3, <1>4, <1>5

\* A region that is to be recovered holds nothing that is not committed: the tail of the
\* committed entries is the end of all.
LEMMA TailIsEnd ==
  ASSUME HistoryIInv, NEW r \in allocated, Laid(r), NotReady(r)
  PROVE  TailOf(r) = LogEnd(r)
<1>1. Types /\ r \in Regions /\ Tiled(r) /\ Len(log[r]) \in Nat
  BY StateTypes, LogTypes DEF HistoryIInv, RuntimeIInv, Laid
<1>2. \A k \in 1 .. Len(log[r]) : log[r][k].timestamp <= committed
  BY DEF HistoryIInv, Marks, Marked
<1>3. CommittedTo(r, Len(log[r]))
  BY <1>1, <1>2 DEF CommittedTo
<1>4. Start(r, Len(log[r]) + 1) = LogEnd(r)
  BY <1>1, Geometry
<1> QED
  BY <1>3, <1>4, TailIs

-----------------------------------------------------------------------------
(* Where the next entry goes                                               *)

Offsets == (\A r \in allocated : Appends(r)) /\ \A a \in Actors : Recovers(a)

Finishing == {"set_max_valid", "write_ready"}

\* One actor moves.
Moves(a, label) == pc'[a] = label /\ \A b \in Actors : b # a => pc'[b] = pc[b]

LEMMA GoesTo ==
  ASSUME Types, NEW a \in Actors, NEW label, Goto(a, label)
  PROVE  Moves(a, label)
  BY StateTypes DEF Goto, Moves

LEMMA Keeps ==
  ASSUME Types, NEW a \in Actors, NEW x, loc' = [loc EXCEPT ![a] = x]
  PROVE  loc'[a] = x /\ \A b \in Actors : b # a => loc'[b] = loc[b]
  BY StateTypes

\* Nothing happens to where the entries of a region go: its runtime, if it has one, is the
\* same, and so is what lies behind its log; its writer is not between the two steps of a
\* reservation, or stays there.
SameRuntime(r) ==
  runtimeOf[r] # Nobody =>
    runtimeOf'[r] = runtimeOf[r] /\ appendOffset'[runtimeOf[r]] = appendOffset[runtimeOf[r]]
SameTail(r) ==
  log'[r] = log[r] /\
  (LogEnd(r) < Capacity => cells'[<<r, LogEnd(r)>>].span = cells[<<r, LogEnd(r)>>].span)
Remains(a) == pc'[a] = pc[a] /\ loc'[a] = loc[a]
NoReserving(r) ==
  (pc'[r] = "acquire" \/ pc[r] = "acquire") => pc'[r] = pc[r] /\ loc'[r] = loc[r]

LEMMA AppendsFrame ==
  ASSUME RuntimeIInv, NEW r \in allocated, Appends(r), log'[r] = log[r],
         NotReady(r)' <=> NotReady(r), SameRuntime(r), NoReserving(r)
  PROVE  Appends(r)'
<1>1. LogEnd(r)' = LogEnd(r)
  BY DEF LogEnd, EntryEnd
<1>2. r \in Regions /\ r \in Actors
  BY StateTypes DEF RuntimeIInv
<1>3. pc[r] = "acquire" => ~NotReady(r)
  <2>1. pc[r] = "acquire" => pc[r] \in Writing
    BY DEF Writing
  <2>2. pc[r] \in Writing => ~NotReady(loc[r].region) /\ loc[r].region = r
    BY <1>2, OfTheActor
  <2> QED
    BY <2>1, <2>2
<1>4. ~NotReady(r) =>
        runtimeOf'[r] = runtimeOf[r] /\ appendOffset'[runtimeOf[r]] = appendOffset[runtimeOf[r]]
  BY DEF NotReady, SameRuntime
<1>5. ASSUME ~NotReady(r)', pc'[r] # "acquire" PROVE appendOffset'[runtimeOf'[r]] = LogEnd(r)'
  <2>1. pc[r] # "acquire"
    BY <1>5 DEF NoReserving
  <2> QED
    BY <1>1, <1>4, <1>5, <2>1 DEF Appends
<1>6. ASSUME pc'[r] = "acquire"
      PROVE  /\ loc'[r].offset = LogEnd(r)' /\ loc'[r].offset + loc'[r].size + 1 <= Capacity
             /\ appendOffset'[runtimeOf'[r]] = loc'[r].offset + loc'[r].size + 1
  <2>1. pc[r] = "acquire" /\ loc'[r] = loc[r]
    BY <1>6 DEF NoReserving
  <2> QED
    BY <1>1, <1>3, <1>4, <2>1 DEF Appends
<1> QED
  BY <1>5, <1>6 DEF Appends

LEMMA RecoversFrame ==
  ASSUME RuntimeIInv, NEW a \in Actors, Recovers(a), pc'[a] \in Finishing, Remains(a),
         NEW r, r = loc[a].region, SameRuntime(r), SameTail(r)
  PROVE  Recovers(a)'
<1>1. LogEnd(r)' = LogEnd(r)
  BY DEF LogEnd, EntryEnd, SameTail
<1>2. pc[a] \in Finishing /\ pc'[a] = pc[a] /\ loc'[a] = loc[a]
  BY DEF Remains
<1>3. runtimeOf[r] # Nobody
  <2>1. pc[a] \in Locked
    BY <1>2 DEF Locked, Finishing
  <2>2. loc[a].runtime \in Runtimes /\ runtimeOf[loc[a].region] = loc[a].runtime
    BY <2>1, OfTheActor
  <2> QED
    BY <2>2, Constants
<1>4. runtimeOf'[r] = runtimeOf[r] /\ appendOffset'[runtimeOf[r]] = appendOffset[runtimeOf[r]]
  BY <1>3 DEF SameRuntime
<1>5. appendOffset[runtimeOf[r]] = LogEnd(r)
  BY <1>2 DEF Recovers, Finishing
<1>6. pc[a] = "set_max_valid" /\ LogEnd(r) < Capacity => cells'[<<r, LogEnd(r)>>].span = Empty
  BY DEF Recovers, SameTail
<1> QED
  BY <1>1, <1>2, <1>4, <1>5, <1>6 DEF Recovers

\* All of it, but for one region.
LEMMA OffsetsExcept ==
  ASSUME RuntimeIInv, Offsets, NEW r, allocated' \subseteq allocated \union {r},
         \A q \in allocated : q # r =>
           /\ log'[q] = log[q] /\ (NotReady(q)' <=> NotReady(q)) /\ SameRuntime(q) /\ NoReserving(q)
           /\ NotReady(q) => SameTail(q),
         \A a \in Actors : pc'[a] \in Finishing => Remains(a) \/ loc'[a].region = r,
         r \in allocated' => Appends(r)',
         \A a \in Actors : pc'[a] \in Finishing /\ loc'[a].region = r => Recovers(a)'
  PROVE  Offsets'
<1>1. ASSUME NEW q \in allocated' PROVE Appends(q)'
  <2>1. CASE q = r
    BY <1>1, <2>1
  <2>2. CASE q # r
    <3>1. q \in allocated /\ Appends(q)
      BY <1>1, <2>2 DEF Offsets
    <3> QED
      BY <2>2, <3>1, AppendsFrame
  <2> QED
    BY <2>1, <2>2
<1>2. ASSUME NEW a \in Actors PROVE Recovers(a)'
  <2>1. CASE pc'[a] \notin Finishing
    BY <2>1 DEF Recovers, Finishing
  <2>2. CASE pc'[a] \in Finishing /\ loc'[a].region = r
    BY <2>2
  <2>3. CASE pc'[a] \in Finishing /\ loc'[a].region # r
    <3>1. Remains(a) /\ Recovers(a)
      BY <2>3 DEF Offsets
    <3>2. pc[a] \in Finishing /\ loc[a].region # r
      BY <2>3, <3>1 DEF Remains
    <3>3. loc[a].region \in allocated /\ NotReady(loc[a].region)
      <4>1. pc[a] \in Locked
        BY <3>2 DEF Locked, Finishing
      <4> QED
        BY <3>2, <4>1, OfTheActor DEF Finishing
    <3>4. SameRuntime(loc[a].region) /\ SameTail(loc[a].region)
      BY <3>2, <3>3
    <3> QED
      BY <2>3, <3>1, <3>4, RecoversFrame
  <2> QED
    BY <2>1, <2>2, <2>3
<1> QED
  BY <1>1, <1>2 DEF Offsets

\* A step that leaves the runtimes and the cells behind the logs alone, of an actor that gets
\* neither between the steps of a reservation nor to the end of a recovery.
LEMMA OffsetsQuiet ==
  ASSUME RuntimeIInv, Offsets, allocated' \subseteq allocated,
         \A q \in allocated : /\ log'[q] = log[q] /\ (NotReady(q)' <=> NotReady(q))
                              /\ SameRuntime(q) /\ (NotReady(q) => SameTail(q)),
         NEW a \in Actors, NEW label, Moves(a, label), NEW x, loc' = [loc EXCEPT ![a] = x],
         pc[a] # "acquire", label # "acquire", label \notin Finishing
  PROVE  Offsets'
<1>1. Nobody \notin Regions /\ allocated \subseteq Regions /\ Regions \subseteq Actors
  BY StateTypes, Constants DEF RuntimeIInv
<1>2. \A b \in Actors : b # a => Remains(b)
  BY Keeps DEF Moves, Remains, RuntimeIInv
<1>3. \A q \in allocated : NoReserving(q)
  BY <1>1, <1>2 DEF NoReserving, Moves, Remains
<1>4. ASSUME NEW b \in Actors, pc'[b] \in Finishing PROVE Remains(b)
  BY <1>2, <1>4 DEF Moves
<1>5. \A b \in Actors : pc'[b] \in Finishing => loc'[b].region # Nobody
  <2> SUFFICES ASSUME NEW b \in Actors, pc'[b] \in Finishing PROVE loc'[b].region # Nobody
    OBVIOUS
  <2>1. Remains(b)
    BY <1>4
  <2>2. pc[b] \in Locked
    BY <2>1 DEF Remains, Locked, Finishing
  <2> QED
    BY <1>1, <2>1, <2>2, OfTheActor DEF Remains
<1>6. Nobody \notin allocated'
  BY <1>1
<1> QED
  BY <1>3, <1>4, <1>5, <1>6, OffsetsExcept

\* The map, the recovery up to the second check of the state, and all of the iterator.
LEMMA Untouched ==
  ASSUME UNCHANGED <<log, runtimeOf, state, appendOffset, cells>>
  PROVE  \A q \in allocated : /\ log'[q] = log[q] /\ (NotReady(q)' <=> NotReady(q))
                              /\ SameRuntime(q) /\ (NotReady(q) => SameTail(q))
  BY DEF NotReady, SameRuntime, SameTail

LEMMA CreateSameRuntime ==
  ASSUME RuntimeIInv, NEW a \in Actors, Create(a), NEW q \in allocated
  PROVE  SameRuntime(q)
<1>1. /\ runtimeOf \in [Regions -> Runtimes \union {Nobody}] /\ q \in Regions
      /\ loc[a].region \in Regions
  <2>1. pc[a] \notin Resting
    BY DEF Create, Resting
  <2> QED
    BY <2>1, Before, StateTypes DEF RuntimeIInv, Types, RuntimeTypes
<1>2. appendOffset' = appendOffset
  BY DEF Create
<1>3. CASE runtimeOf[loc[a].region] = Nobody
           /\ runtimeOf' = [runtimeOf EXCEPT ![loc[a].region] = <<a, loc[a].region>>]
  BY <1>1, <1>2, <1>3 DEF SameRuntime
<1>4. CASE runtimeOf' = runtimeOf
  BY <1>2, <1>4 DEF SameRuntime
<1> QED
  BY <1>3, <1>4 DEF Create

LEMMA ActorOffsets ==
  ASSUME RuntimeIInv, Offsets, NEW a \in Actors,
         \/ GetOrCreate(a) \/ Initialize(a) \/ Lock(a)
         \/ RecheckState(a) /\ UNCHANGED <<cells, appendOffset>> /\ AfterRecovery(a)
  PROVE  Offsets'
<1>1. Types /\ loc = [loc EXCEPT ![a] = loc[a]]
  BY Before DEF RuntimeIInv
<1>2. /\ \A q \in allocated : /\ log'[q] = log[q] /\ (NotReady(q)' <=> NotReady(q))
                              /\ SameRuntime(q) /\ (NotReady(q) => SameTail(q))
      /\ allocated' \subseteq allocated /\ pc[a] # "acquire"
  <2>1. CASE Create(a)
    <3>1. UNCHANGED <<log, allocated, cells>> /\ pc[a] # "acquire"
      BY <2>1 DEF Create, memory
    <3> QED
      BY <2>1, <3>1, CreateReady, CreateSameRuntime DEF SameTail
  <2>2. CASE ~Create(a)
    <3>1. UNCHANGED <<log, allocated, cells, runtimeOf, state, appendOffset>> /\ pc[a] # "acquire"
      BY <2>2 DEF GetOrCreate, LookUp, CreateFails, Initialize, Lock, RecheckState, memory, runtime
    <3> QED
      BY <3>1, Untouched
  <2> QED
    BY <2>1, <2>2
<1>3. ASSUME NEW label, Goto(a, label), NEW x, loc' = [loc EXCEPT ![a] = x],
             label # "acquire", label \notin Finishing
      PROVE  Offsets'
  BY <1>1, <1>2, <1>3, GoesTo, OffsetsQuiet
<1>4. ASSUME NEW label, Goto(a, label), loc' = loc, label # "acquire", label \notin Finishing
      PROVE  Offsets'
  BY <1>1, <1>3, <1>4
<1>5. ASSUME NEW o, HaveRuntime(a, o) PROVE Offsets'
  <2> DEFINE l == IF a = Reader THEN "load_committed" ELSE "initialize"
             x == [loc[a] EXCEPT !.runtime = o]
  <2>1. Goto(a, l) /\ loc' = [loc EXCEPT ![a] = x] /\ l # "acquire" /\ l \notin Finishing
    BY <1>5 DEF HaveRuntime, Finishing
  <2> HIDE DEF l, x
  <2> QED
    BY <1>3, <2>1
<1>6. CASE AfterRecovery(a)
  BY <1>3, <1>4, <1>6 DEF AfterRecovery, Finishing
<1>7. CASE GetOrCreate(a)
  BY <1>3, <1>4, <1>5, <1>7 DEF GetOrCreate, LookUp, Create, CreateFails, Finishing
<1>8. CASE Initialize(a) \/ Lock(a)
  BY <1>4, <1>6, <1>8 DEF Initialize, Lock, Finishing
<1> QED
  BY <1>6, <1>7, <1>8

LEMMA ReadOffsets ==
  ASSUME RuntimeIInv, Offsets, Read
  PROVE  Offsets'
<1>1. Types /\ loc = [loc EXCEPT ![Reader] = loc[Reader]] /\ Reader \in Actors
  BY Constants, Before DEF RuntimeIInv
<1>2. UNCHANGED <<log, allocated, cells, runtimeOf, state, appendOffset>> /\ pc[Reader] # "acquire"
  BY DEF Read, ReadBegin, LoadCommitted, LoadMaxValid, LoadSpan, LoadTimestamp, memory, runtime
<1>3. ASSUME NEW label, Goto(Reader, label), NEW x, loc' = [loc EXCEPT ![Reader] = x],
             label # "acquire", label \notin Finishing
      PROVE  Offsets'
  BY <1>1, <1>2, <1>3, GoesTo, OffsetsQuiet, Untouched
<1>4. ASSUME NEW label, Goto(Reader, label), loc' = loc, label # "acquire", label \notin Finishing
      PROVE  Offsets'
  BY <1>1, <1>3, <1>4
<1>0. \A label \in {"look_up", "initialize", "load_committed", "load_max_valid", "load_span",
                     "load_timestamp"} : label # "acquire" /\ label \notin Finishing
  BY DEF Finishing
<1>5. CASE ReadBegin
  <2>1. PICK r \in allocated : loc' = [loc EXCEPT ![Reader] = [NoLocals EXCEPT !.region = r]]
    BY <1>5 DEF ReadBegin
  <2>2. Goto(Reader, "look_up")
    BY <1>5 DEF ReadBegin
  <2> QED
    BY <1>0, <1>3, <2>1, <2>2
<1>6. CASE LoadCommitted
  <2>1. CASE Goto(Reader, "initialize") /\ loc' = loc
    BY <1>0, <1>4, <2>1
  <2>2. CASE Goto(Reader, "load_max_valid") /\ loc' = [loc EXCEPT ![Reader].valid = committed]
    <3>1. loc' = [loc EXCEPT ![Reader] = [loc[Reader] EXCEPT !.valid = committed]]
      BY <2>2
    <3> QED
      BY <1>0, <1>3, <2>2, <3>1
  <2> QED
    BY <1>6, <2>1, <2>2 DEF LoadCommitted
<1>7. CASE LoadMaxValid \/ LoadSpan
  <2>1. \/ /\ Goto(Reader, "load_span")
           /\ \E n : loc' = [loc EXCEPT ![Reader] = [loc[Reader] EXCEPT !.valid = n]]
        \/ /\ Goto(Reader, "load_timestamp")
           /\ \E n : loc' = [loc EXCEPT ![Reader] = [loc[Reader] EXCEPT !.size = n]]
    BY <1>7 DEF LoadMaxValid, LoadSpan
  <2> QED
    BY <1>0, <1>3, <2>1
<1>8. CASE LoadTimestamp
  <2>1. CASE Goto(Reader, "initialize") /\ loc' = loc
    BY <1>0, <1>4, <2>1
  <2>2. CASE /\ Goto(Reader, "load_committed")
             /\ \E x : loc' = [loc EXCEPT ![Reader] = x]
    BY <1>0, <1>3, <2>2
  <2>3. \A e, n : [loc EXCEPT ![Reader].seen = e, ![Reader].offset = n]
                  = [loc EXCEPT ![Reader] = [loc[Reader] EXCEPT !.seen = e, !.offset = n]]
    BY <1>1, StateTypes
  <2>4. \/ Goto(Reader, "initialize") /\ loc' = loc
        \/ /\ Goto(Reader, "load_committed")
           /\ loc' = [loc EXCEPT ![Reader].seen =
                                  Append(@, EntryAt(loc[Reader].region, loc[Reader].offset)),
                                 ![Reader].offset = @ + loc[Reader].size + 1]
    BY <1>8 DEF LoadTimestamp
  <2> QED
    BY <2>1, <2>2, <2>3, <2>4, ZenonT(30)
<1> QED
  BY <1>5, <1>6, <1>7, <1>8 DEF Read

\* A writer begins, publishes, or finds its region full.
LEMMA WriterOffsets ==
  ASSUME RuntimeIInv, Offsets, NEW r \in Regions,
         \/ AppendBegin(r) \/ Publish(r) \/ RemoveRuntime(r)
         \/ Reserve(r) /\ UNCHANGED appendOffset /\ Goto(r, "idle")
  PROVE  Offsets'
<1>1. Types /\ r \in Actors /\ loc = [loc EXCEPT ![r] = loc[r]]
  BY Constants, Before DEF RuntimeIInv
<1>2. /\ \A q \in allocated : /\ log'[q] = log[q] /\ (NotReady(q)' <=> NotReady(q))
                              /\ SameRuntime(q) /\ (NotReady(q) => SameTail(q))
      /\ allocated' \subseteq allocated /\ pc[r] # "acquire"
  <2>1. CASE RemoveRuntime(r)
    <3>1. /\ UNCHANGED <<log, cells, allocated>> /\ pc[r] = "remove_runtime"
          /\ \A q \in allocated : runtimeOf'[q] = runtimeOf[q]
          /\ \A q \in allocated : runtimeOf[q] # Nobody =>
               /\ state'[runtimeOf[q]] = state[runtimeOf[q]]
               /\ appendOffset'[runtimeOf[q]] = appendOffset[runtimeOf[q]]
      BY <2>1, RemoveRuntimeEffect DEF memory
    <3> QED
      BY <3>1 DEF NotReady, SameRuntime, SameTail
  <2>2. CASE ~RemoveRuntime(r)
    <3>1. UNCHANGED <<log, allocated, cells, runtimeOf, state, appendOffset>> /\ pc[r] # "acquire"
      BY <2>2 DEF AppendBegin, Publish, Reserve, memory, runtime
    <3> QED
      BY <3>1, Untouched
  <2> QED
    BY <2>1, <2>2
<1>3. ASSUME NEW label, Goto(r, label), NEW x, loc' = [loc EXCEPT ![r] = x],
             label # "acquire", label \notin Finishing
      PROVE  Offsets'
  BY <1>1, <1>2, <1>3, GoesTo, OffsetsQuiet
<1>0. /\ "look_up" # "acquire" /\ "look_up" \notin Finishing
      /\ "idle" # "acquire" /\ "idle" \notin Finishing
  BY DEF Finishing
<1>4. CASE AppendBegin(r)
  <2>1. PICK s \in Sizes : loc' = [loc EXCEPT ![r] = [NoLocals EXCEPT !.region = r, !.size = s]]
    BY <1>4 DEF AppendBegin
  <2>2. Goto(r, "look_up")
    BY <1>4 DEF AppendBegin
  <2> QED
    BY <1>0, <1>3, <2>1, <2>2
<1>5. CASE Publish(r)
  <2>1. Goto(r, "idle") /\ loc' = [loc EXCEPT ![r] = NoLocals]
    BY <1>5 DEF Publish
  <2> QED
    BY <1>0, <1>3, <2>1
<1>6. CASE Reserve(r) /\ UNCHANGED appendOffset /\ Goto(r, "idle")
  <2>1. loc' = [loc EXCEPT ![r] = NoLocals]
    <3>1. ~Goto(r, "acquire")
      <4>1. pc'[r] = "idle"
        BY <1>1, <1>6, GoesTo DEF Moves
      <4>2. ASSUME Goto(r, "acquire") PROVE FALSE
        <5>1. pc'[r] = "acquire"
          BY <1>1, <4>2, GoesTo DEF Moves
        <5> QED
          BY <4>1, <5>1
      <4> QED
        BY <4>2
    <3> QED
      BY <1>6, <3>1 DEF Reserve
  <2> QED
    BY <1>0, <1>3, <1>6, <2>1
<1>7. CASE RemoveRuntime(r)
  <2>1. Goto(r, "idle") /\ loc' = loc
    BY <1>7 DEF RemoveRuntime
  <2>2. loc' = [loc EXCEPT ![r] = loc[r]]
    BY <1>1, <2>1
  <2> QED
    BY <1>0, <1>3, <2>1, <2>2
<1> QED
  BY <1>4, <1>5, <1>6, <1>7

\* The cells behind the logs of the regions where nothing is written.
LEMMA TailKept ==
  ASSUME Types, NEW q \in Regions, Tiled(q), log'[q] = log[q],
         \A j \in 0 .. Capacity - 1 : cells'[<<q, j>>] = cells[<<q, j>>]
  PROVE  SameTail(q)
<1>1. LogEnd(q) \in Nat /\ Capacity \in Nat
  BY Geometry, Constants
<1>2. LogEnd(q) < Capacity => LogEnd(q) \in 0 .. Capacity - 1
  BY <1>1
<1> QED
  BY <1>2 DEF SameTail

LEMMA StoreElsewhere ==
  ASSUME Types, NEW r, NEW i, NEW c, StoreCell(<<r, i>>, c) \/ UNCHANGED cells,
         NEW q \in Regions, q # r, NEW j \in 0 .. Capacity - 1
  PROVE  cells'[<<q, j>>] = cells[<<q, j>>]
<1>1. cells \in [Places -> Cell] /\ <<q, j>> \in Places
  BY DEF Types, CellTypes, Places
<1>2. CASE cells' = [cells EXCEPT ![<<r, i>>] = c]
  <2>1. <<q, j>> # <<r, i>>
    OBVIOUS
  <2> QED
    BY <1>1, <1>2, <2>1
<1> QED
  BY <1>2 DEF StoreCell

LEMMA StoringOffsets ==
  ASSUME RuntimeIInv, AllLaid, Offsets, NEW r \in Regions,
         ClearNext(r) \/ StoreTimestamp(r) \/ StoreSpan(r)
  PROVE  Offsets'
<1>1. Types /\ r \in Actors /\ loc = [loc EXCEPT ![r] = loc[r]] /\ allocated \subseteq Regions
  BY Constants, Before, StateTypes DEF RuntimeIInv
<1>2. /\ pc[r] \in Storing /\ pc[r] # "acquire" /\ loc' = [loc EXCEPT ![r] = loc[r]]
      /\ UNCHANGED <<log, allocated, runtimeOf, state, appendOffset>>
      /\ \E l \in Storing : Goto(r, l)
      /\ \E i, c : StoreCell(<<r, i>>, c) \/ UNCHANGED cells
  <2>1. /\ pc[r] \in {"clear_next", "store_timestamp", "store_span"} /\ loc' = loc
        /\ UNCHANGED <<log, allocated, runtimeOf, state, appendOffset>>
        /\ \E l \in {"store_timestamp", "store_span", "publish"} : Goto(r, l)
    BY DEF ClearNext, StoreTimestamp, StoreSpan, StoreHeader, runtime
  <2>2. \E i, c : StoreCell(<<r, i>>, c) \/ UNCHANGED cells
    BY DEF ClearNext, ClearSpan, StoreTimestamp, StoreSpan, StoreHeader
  <2> QED
    BY <1>1, <2>1, <2>2 DEF Storing
<1>3. ~NotReady(r)
  <2>1. pc[r] \in Writing
    BY <1>2, LabelSets
  <2>2. loc[r].region = r /\ ~NotReady(loc[r].region)
    BY <1>1, <2>1, OfTheActor
  <2> QED
    BY <2>2
<1>4. ASSUME NEW q \in allocated, NotReady(q) PROVE SameTail(q)
  <2>1. q # r /\ q \in Regions /\ Tiled(q)
    BY <1>1, <1>3, <1>4 DEF AllLaid, Laid
  <2>2. \A j \in 0 .. Capacity - 1 : cells'[<<q, j>>] = cells[<<q, j>>]
    BY <1>1, <1>2, <2>1, StoreElsewhere
  <2> QED
    BY <1>1, <1>2, <2>1, <2>2, TailKept
<1>5. \A q \in allocated : /\ log'[q] = log[q] /\ (NotReady(q)' <=> NotReady(q))
                           /\ SameRuntime(q) /\ (NotReady(q) => SameTail(q))
  BY <1>2, <1>4 DEF NotReady, SameRuntime
<1>6. PICK l \in Storing : Goto(r, l)
  BY <1>2
<1>7. l # "acquire" /\ l \notin Finishing
  BY <1>6 DEF Storing, Finishing
<1>8. Moves(r, l)
  BY <1>1, <1>6, GoesTo
<1>9. allocated' \subseteq allocated
  BY <1>2
<1> QED
  BY <1>1, <1>2, <1>5, <1>7, <1>8, <1>9, OffsetsQuiet

\* No actor moves.
LEMMA OffsetsStill ==
  ASSUME RuntimeIInv, Offsets, allocated' \subseteq allocated, UNCHANGED <<pc, loc>>,
         \A q \in allocated : /\ log'[q] = log[q] /\ (NotReady(q)' <=> NotReady(q))
                              /\ SameRuntime(q) /\ (NotReady(q) => SameTail(q))
  PROVE  Offsets'
<1>1. Nobody \notin Regions /\ allocated \subseteq Regions
  BY StateTypes, Constants DEF RuntimeIInv
<1>2. \A b \in Actors : Remains(b)
  BY DEF Remains
<1>3. \A q \in allocated : NoReserving(q)
  BY DEF NoReserving
<1>4. ASSUME NEW b \in Actors, pc'[b] \in Finishing PROVE loc'[b].region # Nobody
  <2>1. pc[b] \in Locked
    BY <1>4 DEF Locked, Finishing
  <2> QED
    BY <1>1, <2>1, OfTheActor
<1>5. Nobody \notin allocated'
  BY <1>1
<1> QED
  BY <1>2, <1>3, <1>4, <1>5, OffsetsExcept

\* The copy of a payload ends where the log does or before.
LEMMA CopyDoneTail ==
  ASSUME RuntimeIInv, History, AllLaid, SplitCells = {}, NEW op \in ops, CopyDone(op),
         NEW q \in allocated
  PROVE  /\ SameTail(q)
         /\ LogEnd(q) < Capacity => cells'[<<q, LogEnd(q)>>] = cells[<<q, LogEnd(q)>>]
<1>1. Types /\ q \in Regions /\ Tiled(q) /\ log' = log
  BY StateTypes DEF RuntimeIInv, AllLaid, Laid, CopyDone
<1>2. LogEnd(q) \in Nat /\ Capacity \in Nat
  BY <1>1, Geometry, Constants
<1> SUFFICES ASSUME LogEnd(q) < Capacity
             PROVE  cells'[<<q, LogEnd(q)>>] = cells[<<q, LogEnd(q)>>]
  BY <1>1 DEF SameTail
<1>3. LogEnd(q) \in 0 .. Capacity - 1
  BY <1>2
<1>4. ~(q = op.region /\ op.offset < LogEnd(q) /\ LogEnd(q) <= op.offset + op.size)
  <2> SUFFICES ASSUME q = op.region PROVE ~(LogEnd(q) <= op.offset + op.size)
    OBVIOUS
  <2>1. op.offset \in Nat /\ op.size \in Nat
    BY <1>1, OpTypes
  <2>2. PICK k \in 1 .. Len(log[q]) :
          log[q][k].offset = op.offset /\ Len(log[q][k].payload) = op.size
    BY OpEntry
  <2>3. EntryEnd(log[q][k]) = op.offset + 1 + op.size /\ EntryEnd(log[q][k]) <= LogEnd(q)
    BY <1>1, <2>2, Geometry
  <2>4. \A x, y, z \in Nat : x + 1 + y <= z => ~(z <= x + y)
    OBVIOUS
  <2> QED
    BY <1>2, <2>1, <2>3, <2>4
<1> QED
  BY <1>1, <1>3, <1>4, CopyDoneEffect

LEMMA PipelineOffsets ==
  ASSUME RuntimeIInv, History, AllLaid, Offsets, SplitCells = {}, NEW x,
         \/ x \in ops /\ (CopyDone(x) \/ ProcessOp(x) \/ Commit(x))
         \/ RecordPersisted \/ Opened \/ MarkRegion(x)
  PROVE  Offsets'
<1>1. UNCHANGED <<pc, loc, log, runtimeOf, state, appendOffset, allocated>>
  BY DEF CopyDone, ProcessOp, Commit, RecordPersisted, Opened, MarkRegion, memory, runtime
<1>2. ASSUME NEW q \in allocated PROVE SameTail(q)
  <2>1. CASE x \in ops /\ CopyDone(x)
    BY <2>1, CopyDoneTail
  <2>2. CASE UNCHANGED cells
    BY <1>1, <2>2 DEF SameTail
  <2> QED
    BY <2>1, <2>2 DEF ProcessOp, Commit, RecordPersisted, Opened, MarkRegion, memory
<1>3. \A q \in allocated : /\ log'[q] = log[q] /\ (NotReady(q)' <=> NotReady(q))
                           /\ SameRuntime(q) /\ (NotReady(q) => SameTail(q))
  BY <1>1, <1>2 DEF NotReady, SameRuntime
<1>4. allocated' \subseteq allocated
  BY <1>1
<1> QED
  BY <1>1, <1>3, <1>4, OffsetsStill

\* The runtimes of other regions are other objects.
LEMMA OtherRuntime ==
  ASSUME RuntimeIInv, NEW q \in Regions, runtimeOf[q] # Nobody
  PROVE  runtimeOf[q] \in Runtimes /\ runtimeOf[q][2] = q
  BY DEF RuntimeIInv, RuntimeInv, Mapped, Types, RuntimeTypes

\* Between reserve and acquire the writer has taken its place, and the runtime points behind it.
LEMMA ReserveOffsets ==
  ASSUME RuntimeIInv, Offsets, NEW r \in Regions, Reserve(r)
  PROVE  Offsets'
<1>1. Types /\ r \in Actors /\ allocated \subseteq Regions
  BY Constants, StateTypes DEF RuntimeIInv
<1>2. /\ pc[r] = "reserve" /\ UNCHANGED <<log, cells, allocated, runtimeOf, state>>
  BY DEF Reserve, memory
<1>3. CASE UNCHANGED appendOffset /\ Goto(r, "idle")
  BY <1>3, WriterOffsets
<1>4. CASE /\ Fits(loc[r].runtime, loc[r].size)
           /\ loc' = [loc EXCEPT ![r].offset = appendOffset[loc[r].runtime]]
           /\ appendOffset' = [appendOffset EXCEPT ![loc[r].runtime] = @ + loc[r].size + 1]
           /\ Goto(r, "acquire")
  <2> DEFINE o == loc[r].runtime
             n == appendOffset[o]
             s == loc[r].size
  <2>1. /\ pc[r] \in Writing /\ pc[r] \in HasRuntime /\ pc[r] \notin Resting
    BY <1>2 DEF Writing, HasRuntime, Resting
  <2>2. r \in allocated /\ ~NotReady(r) /\ o \in Runtimes /\ runtimeOf[r] = o /\ o[2] = r
    BY <1>1, <2>1, OfTheActor, Before
  <2>3. n = LogEnd(r) /\ n \in Nat /\ s \in Nat
    <3>1. n = LogEnd(r)
      BY <1>2, <2>2 DEF Offsets, Appends
    <3>2. n \in Nat
      BY <1>1, <2>2 DEF Types, RuntimeTypes
    <3>3. s \in Nat
      BY <1>1, StateTypes, Constants DEF Locals
    <3> QED
      BY <3>1, <3>2, <3>3
  <2>4. n + s + 1 <= Capacity
    BY <1>4 DEF Fits
  <2>5. loc'[r].offset = n /\ loc'[r].size = s /\ \A b \in Actors : b # r => loc'[b] = loc[b]
    <3>1. loc \in [Actors -> Locals]
      BY <1>1, StateTypes
    <3> QED
      BY <1>1, <1>4, <3>1 DEF Locals
  <2>6. appendOffset'[o] = n + s + 1
        /\ \A p \in Runtimes : p # o => appendOffset'[p] = appendOffset[p]
    BY <1>1, <1>4, <2>2 DEF Types, RuntimeTypes
  <2>7. pc'[r] = "acquire" /\ \A b \in Actors : b # r => pc'[b] = pc[b]
    BY <1>1, <1>4, GoesTo DEF Moves
  <2>8. LogEnd(r)' = LogEnd(r)
    BY <1>2 DEF LogEnd, EntryEnd
  <2> HIDE DEF o, n, s
  <2>9. Appends(r)'
    BY <1>2, <2>2, <2>3, <2>4, <2>5, <2>6, <2>7, <2>8 DEF Appends
  <2>10. ASSUME NEW q \in allocated, q # r
         PROVE  /\ log'[q] = log[q] /\ (NotReady(q)' <=> NotReady(q)) /\ SameRuntime(q)
                /\ NoReserving(q) /\ (NotReady(q) => SameTail(q))
    <3>1. q \in Regions /\ q \in Actors
      BY <1>1, Constants
    <3>2. runtimeOf[q] # Nobody => runtimeOf[q] \in Runtimes /\ runtimeOf[q] # o
      BY <2>2, <2>10, <3>1, OtherRuntime
    <3>3. SameRuntime(q)
      BY <1>2, <2>6, <3>2 DEF SameRuntime
    <3> QED
      BY <1>2, <2>5, <2>7, <2>10, <3>1, <3>3 DEF NotReady, NoReserving, SameTail
  <2>11. ASSUME NEW b \in Actors, pc'[b] \in Finishing PROVE Remains(b) /\ loc'[b].region # r
    <3>1. b # r
      BY <2>7, <2>11 DEF Finishing
    <3>2. Remains(b)
      BY <2>5, <2>7, <3>1 DEF Remains
    <3>3. pc[b] \in Finishing
      BY <2>11, <3>2 DEF Remains
    <3> QED
      BY <2>2, <3>2, <3>3, OfTheActor DEF Remains, Finishing
  <2>12. allocated' \subseteq allocated \union {r}
    BY <1>2
  <2> QED
    BY <2>9, <2>10, <2>11, <2>12, OffsetsExcept
<1> QED
  BY <1>3, <1>4 DEF Reserve

LEMMA AcquireOffsets ==
  ASSUME RuntimeIInv, AllLaid, Offsets, NEW r \in Regions, AcquireTimestamp(r),
         LogEnd(r)' = LogEnd(r) + loc[r].size + 1
  PROVE  Offsets'
<1>1. Types /\ r \in Actors /\ allocated \subseteq Regions
  BY Constants, StateTypes DEF RuntimeIInv
<1>2. /\ pc[r] = "acquire" /\ pc'[r] = "clear_next"
      /\ \A q \in Regions : q # r => log'[q] = log[q] /\ pc'[q] = pc[q] /\ loc'[q] = loc[q]
      /\ pc'[Reader] = pc[Reader] /\ loc'[Reader] = loc[Reader]
      /\ UNCHANGED <<cells, allocated, runtimeOf, state, appendOffset>>
  BY AcquireEffect DEF memory, runtime
<1>3. r \in allocated /\ ~NotReady(r)
  <2>1. pc[r] \in Writing
    BY <1>2 DEF Writing
  <2> QED
    BY <1>1, <2>1, OfTheActor
<1>4. Appends(r)'
  <2>1. loc[r].offset = LogEnd(r) /\ appendOffset[runtimeOf[r]] = loc[r].offset + loc[r].size + 1
    BY <1>2, <1>3 DEF Offsets, Appends
  <2> QED
    BY <1>2, <2>1 DEF Appends
<1>5. \A q \in allocated : q # r =>
        /\ log'[q] = log[q] /\ (NotReady(q)' <=> NotReady(q)) /\ SameRuntime(q)
        /\ NoReserving(q) /\ (NotReady(q) => SameTail(q))
  BY <1>1, <1>2 DEF NotReady, SameRuntime, NoReserving, SameTail
<1>6. ASSUME NEW b \in Actors, pc'[b] \in Finishing PROVE Remains(b) /\ loc'[b].region # r
  <2>1. b # r
    BY <1>2, <1>6 DEF Finishing
  <2>2. Remains(b)
    BY <1>2, <2>1 DEF Remains, Actors
  <2>3. pc[b] \in Finishing
    BY <1>6, <2>2 DEF Remains
  <2> QED
    BY <1>3, <2>2, <2>3, OfTheActor DEF Remains, Finishing
<1>7. allocated' \subseteq allocated \union {r}
  BY <1>2
<1> QED
  BY <1>4, <1>5, <1>6, <1>7, OffsetsExcept

LEMMA FreeOffsets ==
  ASSUME RuntimeIInv, Offsets, NEW r \in Regions, Free(r)
  PROVE  Offsets'
<1>1. /\ allocated \subseteq Regions /\ Regions \subseteq Actors /\ allocated' = allocated \ {r}
      /\ \A q \in Regions : q # r => log'[q] = log[q]
      /\ \A b \in Actors : b # r => pc'[b] = pc[b]
      /\ \A b \in Actors : pc'[b] \notin Resting => pc'[b] = pc[b] /\ loc[b].region # r
      /\ UNCHANGED <<cells, loc, runtimeOf, state, appendOffset>>
  BY FreeEffect, StateTypes DEF RuntimeIInv, runtime
<1>2. \A q \in allocated : q # r =>
        /\ log'[q] = log[q] /\ (NotReady(q)' <=> NotReady(q)) /\ SameRuntime(q)
        /\ NoReserving(q) /\ (NotReady(q) => SameTail(q))
  BY <1>1 DEF NotReady, SameRuntime, NoReserving, SameTail
<1>3. \A b \in Actors : pc'[b] \in Finishing => Remains(b) /\ loc'[b].region # r
  BY <1>1 DEF Remains, Finishing, Resting
<1>4. allocated' \subseteq allocated \union {r} /\ r \notin allocated'
  BY <1>1
<1> QED
  BY <1>2, <1>3, <1>4, OffsetsExcept

LEMMA AllocateOffsets ==
  ASSUME RuntimeIInv, AllLaid, Offsets, NEW r \in Regions, Allocate(r)
  PROVE  Offsets'
<1>1. Types /\ allocated \subseteq Regions
  BY StateTypes DEF RuntimeIInv
<1>2. /\ r \notin allocated /\ pc[r] = "idle" /\ allocated' = allocated \union {r}
      /\ cells' = [cells EXCEPT ![<<r, 0>>] = NoCell]
      /\ UNCHANGED <<pc, loc, log, runtimeOf, state, appendOffset>>
  BY DEF Allocate, runtime
<1>3. runtimeOf[r] = Nobody
  BY <1>2 DEF RuntimeIInv, RuntimeInv, Mapped
<1>4. Appends(r)'
  BY <1>2, <1>3 DEF Appends, NotReady
<1>5. ASSUME NEW q \in allocated, q # r
      PROVE  /\ log'[q] = log[q] /\ (NotReady(q)' <=> NotReady(q)) /\ SameRuntime(q)
             /\ NoReserving(q) /\ (NotReady(q) => SameTail(q))
  <2>1. q \in Regions /\ Tiled(q)
    BY <1>1 DEF AllLaid, Laid
  <2>2. ASSUME NEW j \in 0 .. Capacity - 1 PROVE cells'[<<q, j>>] = cells[<<q, j>>]
    <3>1. cells \in [Places -> Cell] /\ <<q, j>> \in Places /\ <<q, j>> # <<r, 0>>
      BY <1>1, <1>5, <2>1 DEF Types, CellTypes, Places
    <3> QED
      BY <1>2, <3>1
  <2>3. SameTail(q)
    BY <1>1, <1>2, <2>1, <2>2, TailKept
  <2> QED
    BY <1>2, <2>3 DEF NotReady, SameRuntime, NoReserving
<1>6. ASSUME NEW b \in Actors, pc'[b] \in Finishing PROVE Remains(b) /\ loc'[b].region # r
  <2>1. pc[b] \in Locked
    BY <1>2, <1>6 DEF Locked, Finishing
  <2>2. loc[b].region \in allocated
    BY <2>1, OfTheActor
  <2> QED
    BY <1>2, <2>2 DEF Remains
<1>7. allocated' \subseteq allocated \union {r}
  BY <1>2
<1> QED
  BY <1>4, <1>5, <1>6, <1>7, OffsetsExcept

LEMMA CrashOffsets ==
  ASSUME RuntimeIInv, Crash
  PROVE  Offsets'
<1>1. /\ allocated' = allocated /\ \A r \in Regions : runtimeOf'[r] = Nobody
      /\ \A a \in Actors : pc'[a] = "idle"
  BY DEF Crash
<1>2. allocated \subseteq Regions /\ Regions \subseteq Actors
  BY StateTypes DEF RuntimeIInv
<1>3. ASSUME NEW r \in allocated' PROVE Appends(r)'
  <2>0. r \in allocated
    BY <1>1, <1>3
  <2>1. r \in Regions /\ r \in Actors
    BY <1>2, <2>0
  <2> QED
    BY <1>1, <2>1 DEF Appends, NotReady
<1>4. ASSUME NEW a \in Actors PROVE Recovers(a)'
  BY <1>1 DEF Recovers
<1> QED
  BY <1>3, <1>4 DEF Offsets

\* Both who recover a region look for its tail at the end of its log: a writer walks there,
\* the iterator is there.
LEMMA RecheckTail ==
  ASSUME HistoryIInv, AllLaid, Reads, NEW a \in Actors, pc[a] = "recheck",
         state[loc[a].runtime] = "read_ready", NEW r, r = loc[a].region
  PROVE  /\ (IF a = Reader THEN loc[a].offset ELSE TailOf(r)) = LogEnd(r) /\ NotReady(r)
         /\ r \in allocated /\ r \in Regions /\ loc[a].runtime \in Runtimes
         /\ runtimeOf[r] = loc[a].runtime /\ loc[a].runtime[2] = r
<1>1. RuntimeIInv /\ Types
  BY DEF HistoryIInv, RuntimeIInv
<1>2. /\ r \in allocated /\ r \in Regions /\ loc[a].runtime \in Runtimes
      /\ runtimeOf[r] = loc[a].runtime /\ loc[a].runtime[2] = r
  <2>1. pc[a] \in Locked
    BY DEF Locked
  <2> QED
    BY <1>1, <2>1, OfTheActor
<1>3. NotReady(r)
  BY <1>2 DEF NotReady
<1>4. Laid(r)
  BY <1>2 DEF AllLaid
<1>5. CASE a = Reader
  <2>1. Sees(r) /\ Position = Len(log[r]) + 1
    BY <1>3, <1>5 DEF Reads
  <2>2. Start(r, Len(log[r]) + 1) = LogEnd(r)
    BY <1>1, <1>2, <1>4, Geometry DEF Laid
  <2> QED
    BY <1>2, <1>3, <1>5, <2>1, <2>2 DEF Sees
<1>6. CASE a # Reader
  BY <1>2, <1>3, <1>4, <1>6, TailIsEnd
<1> QED
  BY <1>5, <1>6

\* The one who recovers a region has it to itself, and its writer reserves nothing there.
LEMMA Alone ==
  ASSUME RuntimeIInv, NEW a \in Actors, pc[a] \in Locked, NEW r, r = loc[a].region, NotReady(r)
  PROVE  /\ \A b \in Actors : b # a /\ pc[b] \in Locked => loc[b].region # r
         /\ r \in Regions /\ pc[r] # "acquire"
<1>1. r \in Regions /\ r \in Actors
  BY OfTheActor, Constants
<1>2. \A b \in Actors : b # a /\ pc[b] \in Locked => loc[b].region # r
  BY OneRecovers DEF OneRecoverer
<1>3. pc[r] # "acquire"
  <2>1. pc[r] = "acquire" => pc[r] \in Writing
    BY DEF Writing
  <2>2. pc[r] \in Writing => ~NotReady(loc[r].region) /\ loc[r].region = r
    BY <1>1, OfTheActor
  <2> QED
    BY <2>1, <2>2
<1> QED
  BY <1>1, <1>2, <1>3

\* A step of the one who recovers r.
LEMMA RecoveryOffsets ==
  ASSUME RuntimeIInv, AllLaid, Offsets, NEW a \in Actors, pc[a] \in Locked,
         NEW r, r = loc[a].region, NotReady(r), NEW label, Moves(a, label), label # "acquire",
         UNCHANGED <<log, allocated, runtimeOf>>, \A b \in Actors : b # a => loc'[b] = loc[b],
         \A o \in Runtimes : o # runtimeOf[r] => appendOffset'[o] = appendOffset[o] /\ state'[o] = state[o],
         \A q \in Regions : q # r =>
           \A j \in 0 .. Capacity - 1 : cells'[<<q, j>>] = cells[<<q, j>>],
         ~NotReady(r)' => appendOffset'[runtimeOf[r]] = LogEnd(r),
         label \in Finishing => Recovers(a)' /\ loc'[a].region = r
  PROVE  Offsets'
<1>1. Types /\ allocated \subseteq Regions /\ Regions \subseteq Actors
  BY StateTypes DEF RuntimeIInv
<1>2. /\ \A b \in Actors : b # a /\ pc[b] \in Locked => loc[b].region # r
      /\ r \in Regions /\ pc[r] # "acquire"
  BY Alone
<1>3. r \in allocated /\ runtimeOf[r] \in Runtimes
  BY OfTheActor
<1>4. pc'[r] # "acquire"
  BY <1>1, <1>2 DEF Moves
<1>5. LogEnd(r)' = LogEnd(r)
  BY DEF LogEnd, EntryEnd
<1>6. Appends(r)'
  BY <1>4, <1>5 DEF Appends
<1>7. ASSUME NEW q \in allocated, q # r
      PROVE  /\ log'[q] = log[q] /\ (NotReady(q)' <=> NotReady(q)) /\ SameRuntime(q)
             /\ NoReserving(q) /\ (NotReady(q) => SameTail(q))
  <2>1. q \in Regions /\ Tiled(q) /\ q \in Actors
    BY <1>1 DEF AllLaid, Laid
  <2>2. runtimeOf[q] # Nobody => runtimeOf[q] \in Runtimes /\ runtimeOf[q] # runtimeOf[r]
    <3>1. runtimeOf[q] # Nobody => runtimeOf[q] \in Runtimes /\ runtimeOf[q][2] = q
      BY <2>1, OtherRuntime
    <3>2. runtimeOf[r][2] = r
      BY <1>2, <1>3, OtherRuntime, Constants
    <3> QED
      BY <1>7, <3>1, <3>2
  <2>3. runtimeOf[q] # Nobody => /\ appendOffset'[runtimeOf[q]] = appendOffset[runtimeOf[q]]
                                /\ state'[runtimeOf[q]] = state[runtimeOf[q]]
    BY <2>2
  <2>4. (NotReady(q)' <=> NotReady(q)) /\ SameRuntime(q)
    BY <2>3 DEF NotReady, SameRuntime
  <2>5. SameTail(q)
    BY <1>1, <1>7, <2>1, TailKept
  <2>6. NoReserving(q)
    <3>1. q # a => pc'[q] = pc[q] /\ loc'[q] = loc[q]
      BY <2>1 DEF Moves
    <3>2. q = a => pc[q] # "acquire" /\ pc'[q] # "acquire"
      BY DEF Moves, Locked
    <3> QED
      BY <3>1, <3>2 DEF NoReserving
  <2> QED
    BY <2>4, <2>5, <2>6
<1>8. ASSUME NEW b \in Actors, pc'[b] \in Finishing
      PROVE  /\ Remains(b) \/ loc'[b].region = r
             /\ loc'[b].region = r => Recovers(b)'
  <2>1. CASE b = a
    BY <1>8, <2>1 DEF Moves
  <2>2. CASE b # a
    <3>1. Remains(b) /\ pc[b] \in Locked
      BY <1>8, <2>2 DEF Moves, Remains, Finishing, Locked
    <3>2. loc'[b].region # r
      BY <1>2, <2>2, <3>1 DEF Remains
    <3> QED
      BY <3>1, <3>2
  <2> QED
    BY <2>1, <2>2
<1>9. allocated' \subseteq allocated \union {r}
  OBVIOUS
<1> QED
  BY <1>6, <1>7, <1>8, <1>9, OffsetsExcept

LEMMA RecheckStateOffsets ==
  ASSUME HistoryIInv, AllLaid, Offsets, Reads, SplitCells = {}, NEW a \in Actors, RecheckState(a)
  PROVE  Offsets'
<1>1. RuntimeIInv /\ Types
  BY DEF HistoryIInv, RuntimeIInv
<1>2. CASE state[loc[a].runtime] = "write_ready" /\ AfterRecovery(a) /\ UNCHANGED <<cells, appendOffset>>
  BY <1>1, <1>2, ActorOffsets
<1>3. CASE /\ state[loc[a].runtime] = "read_ready" /\ Goto(a, "set_max_valid")
           /\ appendOffset' = [appendOffset EXCEPT ![loc[a].runtime] =
                                 IF a = Reader THEN loc[a].offset ELSE TailOf(loc[a].region)]
           /\ ClearSpan(loc[a].region, IF a = Reader THEN loc[a].offset ELSE TailOf(loc[a].region))
           /\ UNCHANGED loc
  <2>0. PICK r : r = loc[a].region
    OBVIOUS
  <2>1. pc[a] = "recheck" /\ UNCHANGED <<log, allocated, runtimeOf, state>>
    BY DEF RecheckState, timestamps
  <2>2. /\ (IF a = Reader THEN loc[a].offset ELSE TailOf(r)) = LogEnd(r) /\ NotReady(r)
        /\ r \in allocated /\ r \in Regions /\ loc[a].runtime \in Runtimes
        /\ runtimeOf[r] = loc[a].runtime /\ loc[a].runtime[2] = r
    BY <1>3, <2>0, <2>1, RecheckTail
  <2>3. ClearSpan(r, LogEnd(r)) /\ appendOffset' = [appendOffset EXCEPT ![runtimeOf[r]] = LogEnd(r)]
    BY <1>3, <2>0, <2>2
  <2>4. Tiled(r) /\ LogEnd(r) \in 0 .. Capacity
    <3>1. Tiled(r)
      BY <2>2 DEF AllLaid, Laid
    <3>2. LogEnd(r) \in Nat /\ LogEnd(r) <= Capacity /\ Capacity \in Nat
      BY <1>1, <2>2, <3>1, Geometry, Constants
    <3> QED
      BY <3>1, <3>2
  <2>5. /\ \A q \in Regions : q # r => SameCells(q)
        /\ LogEnd(r) < Capacity => cells'[<<r, LogEnd(r)>>].span = Empty
    BY <1>1, <2>2, <2>3, <2>4, ClearEffect
  <2>6. \A q \in Regions : q # r =>
          \A j \in 0 .. Capacity - 1 : cells'[<<q, j>>] = cells[<<q, j>>]
    <3>1. \A j \in 0 .. Capacity - 1 : j < Capacity
      BY Constants
    <3> QED
      BY <2>5, <3>1 DEF SameCells, SameBelow
  <2>7. /\ appendOffset'[runtimeOf[r]] = LogEnd(r)
        /\ \A o \in Runtimes : o # runtimeOf[r] => appendOffset'[o] = appendOffset[o]
    BY <1>1, <2>2, <2>3 DEF Types, RuntimeTypes
  <2>8. Moves(a, "set_max_valid")
    BY <1>1, <1>3, GoesTo
  <2>9. LogEnd(r)' = LogEnd(r)
    BY <2>1 DEF LogEnd, EntryEnd
  <2>10. Recovers(a)' /\ loc'[a].region = r
    <3>1. loc'[a].region = r
      BY <1>3, <2>0
    <3> QED
      BY <2>1, <2>5, <2>7, <2>9, <3>1 DEF Recovers
  <2>11. pc[a] \in Locked
    BY <2>1 DEF Locked
  <2> QED
    BY <1>1, <1>3, <2>0, <2>1, <2>2, <2>6, <2>7, <2>8, <2>10, <2>11, RecoveryOffsets
<1> QED
  BY <1>2, <1>3 DEF RecheckState

LEMMA SetMaxValidOffsets ==
  ASSUME RuntimeIInv, AllLaid, Offsets, NEW a \in Actors, SetMaxValid(a)
  PROVE  Offsets'
<1>0. PICK r : r = loc[a].region
  OBVIOUS
<1>1. /\ pc[a] = "set_max_valid" /\ Goto(a, "write_ready")
      /\ UNCHANGED <<log, allocated, runtimeOf, state, appendOffset, cells, loc>>
  BY DEF SetMaxValid, runtime
<1>2. pc[a] \in Locked /\ pc[a] \in Finishing
  BY <1>1 DEF Locked, Finishing
<1>3. NotReady(r) /\ appendOffset[runtimeOf[r]] = LogEnd(r)
  BY <1>0, <1>1, OfTheActor DEF Offsets, Recovers
<1>4. Moves(a, "write_ready")
  BY <1>1, GoesTo DEF RuntimeIInv
<1>5. LogEnd(r)' = LogEnd(r)
  BY <1>1 DEF LogEnd, EntryEnd
<1>6. Recovers(a)' /\ loc'[a].region = r
  <2>1. pc'[a] = "write_ready" /\ loc'[a].region = r
    BY <1>0, <1>1, <1>4 DEF Moves
  <2> QED
    BY <1>1, <1>3, <1>5, <2>1 DEF Recovers
<1> QED
  BY <1>0, <1>1, <1>2, <1>3, <1>4, <1>6, RecoveryOffsets

LEMMA WriteReadyOffsets ==
  ASSUME RuntimeIInv, AllLaid, Offsets, NEW a \in Actors, WriteReady(a)
  PROVE  Offsets'
<1>0. PICK r : r = loc[a].region
  OBVIOUS
<1>1. /\ pc[a] = "write_ready" /\ AfterRecovery(a)
      /\ UNCHANGED <<log, allocated, runtimeOf, appendOffset, cells>>
      /\ state' = [state EXCEPT ![loc[a].runtime] = "write_ready"]
  BY DEF WriteReady
<1>2. pc[a] \in Locked
  BY <1>1 DEF Locked
<1>3. NotReady(r) /\ appendOffset[runtimeOf[r]] = LogEnd(r) /\ runtimeOf[r] = loc[a].runtime
  BY <1>0, <1>1, <1>2, OfTheActor DEF Offsets, Recovers
<1>4. \A o \in Runtimes : o # runtimeOf[r] => state'[o] = state[o]
  <2>1. state = [o \in Runtimes |-> state[o]]
    BY DEF RuntimeIInv, Types, RuntimeTypes
  <2> QED
    BY <1>1, <1>3, <2>1
<1>5. \E label \in {"reserve", "idle", "load_committed"} : Moves(a, label)
  BY <1>1, GoesTo DEF AfterRecovery, RuntimeIInv
<1>6. \A b \in Actors : b # a => loc'[b] = loc[b]
  BY <1>1, Keeps DEF AfterRecovery, RuntimeIInv
<1>7. PICK label \in {"reserve", "idle", "load_committed"} : Moves(a, label)
  BY <1>5
<1>8. label # "acquire" /\ label \notin Finishing
  BY <1>7 DEF Finishing
<1> QED
  BY <1>0, <1>1, <1>2, <1>3, <1>4, <1>6, <1>7, <1>8, RecoveryOffsets

-----------------------------------------------------------------------------
(* What the iterator knows                                                 *)

\* The region the iterator is in, when it is in one.
LEMMA ReaderIn ==
  ASSUME HistoryIInv, AllLaid, Reads, pc[Reader] # "idle", NEW r, r = loc[Reader].region
  PROVE  /\ r \in allocated /\ r \in Regions /\ Laid(r) /\ Sees(r) /\ phase = "running"
         /\ Position \in 1 .. Len(log[r]) + 1 /\ Len(log[r]) \in Nat /\ Len(loc[Reader].seen) \in Nat
         /\ loc[Reader].offset \in Nat /\ loc[Reader].valid \in Nat /\ Position \in Nat
         /\ Position \in 1 .. Len(log[r]) =>
              /\ loc[Reader].offset = log[r][Position].offset
              /\ cells[<<r, loc[Reader].offset>>] = Header(r, Position)
         /\ Position = Len(log[r]) + 1 => loc[Reader].offset = LogEnd(r)
         /\ Reader \in Actors /\ Types
<1>1. RuntimeIInv /\ Types /\ Reader \in Actors
  BY Constants DEF HistoryIInv, RuntimeIInv
<1>2. r \in allocated /\ r \in Regions /\ phase = "running"
  <2>1. pc[Reader] \notin Resting
    <3>1. pc[Reader] \in ReaderLabels
      BY <1>1, Before DEF ActorOK, Placed
    <3> QED
      BY <3>1 DEF ReaderLabels, Resting, Searching, Recovering, Locked, Checking
  <2>2. phase = "opening" => pc[Reader] = "idle"
    BY <1>1, Before DEF ActorOK
  <2>3. phase \in {"opening", "running"}
    BY <1>1 DEF Types, ActorTypes
  <2> QED
    BY <1>1, <2>1, <2>2, <2>3, Before
<1>3. Laid(r) /\ Sees(r)
  BY <1>2 DEF AllLaid, Reads
<1>4. /\ Len(loc[Reader].seen) \in Nat /\ Len(log[r]) \in Nat
      /\ loc[Reader].offset \in Nat /\ loc[Reader].valid \in Nat
  <2>1. loc[Reader] \in Locals
    BY <1>1, StateTypes
  <2> QED
    BY <1>1, <1>2, <2>1, LogTypes DEF Locals
<1>5. Position \in 1 .. Len(log[r]) + 1 /\ Position \in Nat
  BY <1>3, <1>4 DEF Sees, Position
<1>6. loc[Reader].offset = Start(r, Position)
  BY <1>3 DEF Sees
<1>7. /\ \A k \in 1 .. Len(log[r]) : Start(r, k) = log[r][k].offset
      /\ Start(r, Len(log[r]) + 1) = LogEnd(r)
  BY <1>1, <1>2, <1>3, Geometry DEF Laid
<1> QED
  BY <1>1, <1>2, <1>3, <1>4, <1>5, <1>6, <1>7 DEF Header

\* A step of somebody else: the log may grow by what is not committed, the region may be
\* opened for writing, and a header may get the timestamp of such an entry.
Grows(r) ==
  /\ Len(log'[r]) \in Nat /\ Len(log[r]) <= Len(log'[r])
  /\ \A k \in 1 .. Len(log[r]) : log'[r][k] = log[r][k]
  /\ \A k \in 1 .. Len(log'[r]) : k > Len(log[r]) => log'[r][k].timestamp > committed
Overtakes(r) ==
  /\ Grows(r) /\ committed <= committed'
  /\ pc[Reader] \in {"load_span", "load_timestamp"} => loc[Reader].valid <= maxValid'[r]
  /\ NotReady(r)' => NotReady(r) /\ log'[r] = log[r]
  /\ pc[Reader] \in Checking =>
       LET p == <<r, loc[Reader].offset>>
       IN  cells'[p].timestamp = cells[p].timestamp \/ committed < cells'[p].timestamp

LEMMA ReadsFrame ==
  ASSUME HistoryIInv, RuntimeIInv', AllLaid, Reads, pc'[Reader] = pc[Reader], loc'[Reader] = loc[Reader],
         NEW r, r = loc[Reader].region, pc[Reader] # "idle" => Overtakes(r)
  PROVE  Reads'
<1> SUFFICES ASSUME pc[Reader] # "idle" PROVE Reads'
  BY DEF Reads, Checking, Recovering
<1>1. /\ r \in allocated /\ r \in Regions /\ Laid(r) /\ Sees(r)
      /\ Position \in 1 .. Len(log[r]) + 1 /\ Len(log[r]) \in Nat /\ Len(loc[Reader].seen) \in Nat
      /\ loc[Reader].offset \in Nat /\ loc[Reader].valid \in Nat /\ Position \in Nat
      /\ Reader \in Actors /\ Types
  BY ReaderIn
<1>2. Overtakes(r)
  OBVIOUS
<1>3. committed \in Nat /\ committed' \in Nat /\ committed <= committed'
  BY <1>1, <1>2 DEF Types, TimestampTypes, Overtakes, RuntimeIInv
<1>4. /\ Len(log'[r]) \in Nat /\ Len(log[r]) <= Len(log'[r])
      /\ \A k \in 1 .. Len(log[r]) : log'[r][k] = log[r][k]
      /\ \A k \in 1 .. Len(log'[r]) : k > Len(log[r]) => log'[r][k].timestamp > committed
  BY <1>2 DEF Overtakes, Grows
<1>5. \A k \in 1 .. Len(log'[r]) : log'[r][k].timestamp \in Nat
  <2>1. log'[r] \in Seq(Entries)
    BY <1>1 DEF RuntimeIInv, Types, ActorTypes
  <2>2. \A k \in 1 .. Len(log'[r]) : log'[r][k] \in Entries
    BY <2>1
  <2>3. \A e \in Entries : e.timestamp \in Nat
    BY DEF Entries
  <2> QED
    BY <2>2, <2>3
<1>6. Position' = Position
  BY DEF Position
<1>7. Sees(r)'
  <2>1. Len(loc[Reader].seen) <= Len(log[r])
    BY <1>1 DEF Sees
  <2>2. ASSUME NEW k \in 1 .. Len(loc[Reader].seen)
        PROVE  loc[Reader].seen[k] = log'[r][k] /\ log'[r][k].timestamp <= committed'
    <3>1. k \in 1 .. Len(log[r])
      BY <1>1, <2>1
    <3>2. loc[Reader].seen[k] = log[r][k] /\ log[r][k].timestamp <= committed
      BY <1>1 DEF Sees
    <3>3. log[r][k].timestamp \in Nat
      BY <1>1, <3>1, LogTypes
    <3>4. \A x, y, z \in Nat : x <= y /\ y <= z => x <= z
      OBVIOUS
    <3>5. log'[r][k] = log[r][k] /\ log[r][k].timestamp <= committed'
      BY <1>3, <1>4, <3>1, <3>2, <3>3, <3>4
    <3> QED
      BY <3>2, <3>5
  <2>3. Start(r, Position)' = Start(r, Position)
    <3>1. Position # 1 => Position - 1 \in 1 .. Len(log[r])
      BY <1>1
    <3> QED
      BY <1>4, <1>6, <3>1 DEF Start
  <2>4. loc[Reader].offset = Start(r, Position)
    BY <1>1 DEF Sees
  <2>5. Len(loc[Reader].seen) <= Len(log'[r])
    BY <1>1, <1>4, <2>1
  <2> QED
    BY <2>2, <2>3, <2>4, <2>5 DEF Sees
<1>8. NotReady(r)' => NotReady(r) /\ log'[r] = log[r]
  BY <1>2 DEF Overtakes
<1>9. ASSUME pc[Reader] \in Checking PROVE Compares(r)' /\ Compares(r) /\ loc[Reader].valid <= committed
  <2>1. Compares(r)
    BY <1>9 DEF Reads
  <2>2. loc[Reader].valid <= committed /\ loc[Reader].valid <= committed'
    BY <1>1, <1>3, <2>1 DEF Compares
  <2> QED
    BY <1>8, <2>1, <2>2 DEF Compares
<1>10. ASSUME pc[Reader] = "load_timestamp" PROVE HasLoaded(r)'
  <2>1. HasLoaded(r) /\ loc[Reader].valid <= committed /\ pc[Reader] \in Checking
    BY <1>9, <1>10 DEF Reads, Checking
  <2>2. IsNext(r)' <=> IsNext(r)
    <3>1. CASE Position \in 1 .. Len(log[r])
      <4>1. log'[r][Position] = log[r][Position] /\ Position <= Len(log'[r]) /\ Position <= Len(log[r])
        BY <1>1, <1>4, <3>1
      <4> QED
        BY <1>6, <4>1 DEF IsNext
    <3>2. CASE Position = Len(log[r]) + 1
      <4>1. ~(Position <= Len(log[r])) /\ Position > Len(log[r])
        BY <1>1, <3>2
      <4>2. ASSUME Position <= Len(log'[r]) PROVE ~(log'[r][Position].timestamp <= loc[Reader].valid)
        <5>1. Position \in 1 .. Len(log'[r])
          BY <1>1, <1>4, <4>2
        <5>2. log'[r][Position].timestamp > committed /\ log'[r][Position].timestamp \in Nat
          BY <1>4, <1>5, <4>1, <5>1
        <5> QED
          BY <1>1, <1>3, <2>1, <5>2
      <4> QED
        BY <1>6, <4>1, <4>2 DEF IsNext
    <3> QED
      BY <1>1, <3>1, <3>2
  <2>3. IsNext(r) => loc[Reader].size = Len(log'[r][Position].payload)
    <3> SUFFICES ASSUME IsNext(r) PROVE loc[Reader].size = Len(log'[r][Position].payload)
      OBVIOUS
    <3>1. Position \in 1 .. Len(log[r])
      BY <1>1 DEF IsNext
    <3>2. log'[r][Position] = log[r][Position]
      BY <1>4, <3>1
    <3> QED
      BY <2>1, <3>2 DEF HasLoaded
  <2>4. ASSUME loc[Reader].size # Empty, ~IsNext(r)
        PROVE  cells'[<<r, loc[Reader].offset>>].timestamp > loc[Reader].valid
    <3> DEFINE p == <<r, loc[Reader].offset>>
    <3>1. cells[p].timestamp > loc[Reader].valid
      BY <2>1, <2>4 DEF HasLoaded
    <3>2. cells'[p].timestamp = cells[p].timestamp \/ committed < cells'[p].timestamp
      BY <1>2, <2>1 DEF Overtakes
    <3>3. cells'[p].timestamp \in Nat
      <4>1. loc[Reader].offset < Capacity
        BY <1>1, <2>1, Before DEF ActorOK, Placed, HistoryIInv
      <4>2. p \in Places
        BY <1>1, <4>1, Constants DEF Places
      <4>3. cells' \in [Places -> Cell]
        BY DEF RuntimeIInv, Types, CellTypes
      <4> QED
        BY <4>2, <4>3 DEF Cell
    <3> HIDE DEF p
    <3>4. cells'[p].timestamp > loc[Reader].valid
      BY <1>1, <1>3, <2>1, <3>1, <3>2, <3>3
    <3> QED
      BY <3>4 DEF p
  <2> QED
    BY <1>6, <2>2, <2>3, <2>4 DEF HasLoaded
<1>11. ASSUME pc[Reader] \in Recovering \union {"recheck"}, NotReady(r)'
       PROVE  (Position = Len(log[r]) + 1)'
  <2>1. Position = Len(log[r]) + 1
    BY <1>8, <1>11 DEF Reads
  <2> QED
    BY <1>6, <1>8, <1>11, <2>1
<1>12. pc[Reader] \in {"load_span", "load_timestamp"} => loc[Reader].valid <= maxValid'[r]
  BY <1>2 DEF Overtakes
<1> QED
  BY <1>7, <1>9, <1>10, <1>11, <1>12 DEF Reads

\* Most steps leave alone what the iterator relies on.
LEMMA NothingOvertakes ==
  ASSUME HistoryIInv, AllLaid, Reads, pc[Reader] # "idle", NEW r, r = loc[Reader].region,
         log'[r] = log[r], committed' = committed, NotReady(r)' => NotReady(r),
         maxValid'[r] = maxValid[r] \/ maxValid'[r] = Forever,
         pc[Reader] \in Checking =>
           LET p == <<r, loc[Reader].offset>>
           IN  cells'[p].timestamp = cells[p].timestamp \/ committed < cells'[p].timestamp
  PROVE  Overtakes(r)
<1>1. r \in Regions /\ Len(log[r]) \in Nat /\ loc[Reader].valid \in Nat /\ Types
  BY ReaderIn
<1>2. Grows(r)
  BY <1>1 DEF Grows
<1>3. committed \in Nat /\ committed < Forever /\ Forever \in Nat
  BY <1>1, BelowForever, StateTypes DEF HistoryIInv
<1>4. ASSUME pc[Reader] \in {"load_span", "load_timestamp"} PROVE loc[Reader].valid <= maxValid'[r]
  <2>1. loc[Reader].valid <= maxValid[r]
    BY <1>4 DEF Reads
  <2>2. loc[Reader].valid <= committed
    BY <1>4 DEF Reads, Compares, Checking
  <2>3. loc[Reader].valid <= Forever
    BY <1>1, <1>3, <2>2
  <2> QED
    BY <2>1, <2>3
<1> QED
  BY <1>2, <1>3, <1>4 DEF Overtakes

LEMMA ClearTimestamps ==
  ASSUME Types, NEW r, NEW i, ClearSpan(r, i), NEW p \in Places
  PROVE  cells'[p].timestamp = cells[p].timestamp
<1>1. cells \in [Places -> Cell]
  BY DEF Types, CellTypes
<1>2. CASE cells' = [cells EXCEPT ![<<r, i>>] = [cells[<<r, i>>] EXCEPT !.span = Empty]]
  <2>1. CASE p = <<r, i>>
    <3>1. cells'[p] = [cells[p] EXCEPT !.span = Empty] /\ cells[p] \in Cell
      BY <1>1, <1>2, <2>1
    <3> QED
      BY <3>1 DEF Cell
  <2>2. CASE p # <<r, i>>
    BY <1>1, <1>2, <2>2
  <2> QED
    BY <2>1, <2>2
<1>3. CASE cells' = cells
  BY <1>3
<1> QED
  BY <1>2, <1>3 DEF ClearSpan, StoreCell

\* The cell the iterator is going to look at.
LEMMA ReaderPlace ==
  ASSUME HistoryIInv, AllLaid, Reads, pc[Reader] \in Checking
  PROVE  /\ <<loc[Reader].region, loc[Reader].offset>> \in Places
         /\ loc[Reader].offset \in 0 .. Capacity - 1 /\ pc[Reader] # "idle"
<1>1. pc[Reader] # "idle"
  BY DEF Checking
<1>2. loc[Reader].region \in Regions /\ loc[Reader].offset \in Nat /\ Reader \in Actors
  BY <1>1, ReaderIn
<1>3. loc[Reader].offset < Capacity
  BY <1>2, Before DEF ActorOK, Placed, HistoryIInv
<1>4. loc[Reader].offset \in 0 .. Capacity - 1
  BY <1>2, <1>3, Constants
<1> QED
  BY <1>1, <1>2, <1>4 DEF Places

\* Other threads in the map and in the recovery.
LEMMA ActorReads ==
  ASSUME HistoryIInv, RuntimeIInv', AllLaid, Reads, NEW a \in Actors, a # Reader,
         GetOrCreate(a) \/ Recover(a)
  PROVE  Reads'
<1>1. RuntimeIInv /\ Types /\ Reader \in Actors
  BY Constants DEF HistoryIInv, RuntimeIInv
<1>2. pc'[Reader] = pc[Reader] /\ loc'[Reader] = loc[Reader]
  <2>1. \E label : Moves(a, label)
    BY <1>1, GoesTo DEF GetOrCreate, LookUp, Create, CreateFails, HaveRuntime, Recover, Initialize, Lock,
                        RecheckState, SetMaxValid, WriteReady, AfterRecovery
  <2>2. loc' = loc \/ \E x : loc' = [loc EXCEPT ![a] = x]
    BY DEF GetOrCreate, LookUp, Create, CreateFails, HaveRuntime, Recover, Initialize, Lock,
           RecheckState, SetMaxValid, WriteReady, AfterRecovery
  <2> QED
    BY <1>1, <2>1, <2>2, Keeps DEF Moves
<1>0. PICK r : r = loc[Reader].region
  OBVIOUS
<1>3. ASSUME pc[Reader] # "idle" PROVE Overtakes(r)
  <2>1. r \in allocated /\ r \in Regions
    BY <1>0, <1>3, ReaderIn
  <2>2. UNCHANGED <<log, committed>>
    BY DEF GetOrCreate, LookUp, Create, CreateFails, Recover, Initialize, Lock,
           RecheckState, SetMaxValid, WriteReady, timestamps
  <2>3. NotReady(r)' => NotReady(r)
    <3>1. CASE GetOrCreate(a) /\ Create(a)
      BY <1>1, <2>1, <3>1, CreateReady
    <3>2. CASE UNCHANGED <<runtimeOf, state>>
      BY <3>2 DEF NotReady
    <3>3. CASE WriteReady(a)
      <4>1. /\ runtimeOf' = runtimeOf /\ state' = [state EXCEPT ![loc[a].runtime] = "write_ready"]
            /\ state = [o \in Runtimes |-> state[o]]
            /\ runtimeOf[r] # Nobody => runtimeOf[r] \in Runtimes
        BY <1>1, <2>1, <3>3, OtherRuntime DEF WriteReady, Types, RuntimeTypes
      <4> QED
        BY <4>1 DEF NotReady
    <3> QED
      BY <3>1, <3>2, <3>3 DEF GetOrCreate, LookUp, CreateFails, Recover, Initialize, Lock,
                              RecheckState, SetMaxValid, runtime
  <2>4. maxValid'[r] = maxValid[r] \/ maxValid'[r] = Forever
    <3>1. CASE SetMaxValid(a)
      <4>1. maxValid' = [maxValid EXCEPT ![loc[a].region] = Forever]
        BY <3>1 DEF SetMaxValid
      <4>2. maxValid \in [Regions -> Nat]
        BY <1>1, StateTypes
      <4> QED
        BY <2>1, <4>1, <4>2
    <3> QED
      BY <3>1 DEF GetOrCreate, LookUp, Create, CreateFails, Recover, Initialize, Lock,
                  RecheckState, WriteReady, memory
  <2>5. ASSUME pc[Reader] \in Checking
        PROVE  cells'[<<r, loc[Reader].offset>>].timestamp = cells[<<r, loc[Reader].offset>>].timestamp
    <3>1. <<r, loc[Reader].offset>> \in Places
      BY <1>0, <2>5, ReaderPlace
    <3>2. CASE UNCHANGED cells
      BY <3>2
    <3>3. CASE \E q, i : ClearSpan(q, i)
      BY <1>1, <3>1, <3>3, ClearTimestamps
    <3> QED
      BY <3>2, <3>3 DEF GetOrCreate, LookUp, Create, CreateFails, Recover, Initialize, Lock,
                        RecheckState, SetMaxValid, WriteReady, memory
  <2> QED
    BY <1>0, <1>3, <2>2, <2>3, <2>4, <2>5, NothingOvertakes
<1> QED
  BY <1>0, <1>2, <1>3, ReadsFrame

\* The writer's steps on the cells.
LEMMA WriterReads ==
  ASSUME HistoryIInv, RuntimeIInv', AllLaid, Reads, NEW w \in Regions,
         \/ AppendBegin(w) \/ Reserve(w) \/ ClearNext(w) \/ StoreTimestamp(w) \/ StoreSpan(w)
         \/ Publish(w)
  PROVE  Reads'
<1>1. RuntimeIInv /\ Types /\ Reader \in Actors /\ w \in Actors /\ w # Reader
  BY Constants DEF HistoryIInv, RuntimeIInv
<1>2. pc'[Reader] = pc[Reader] /\ loc'[Reader] = loc[Reader]
  <2>1. \E label : Moves(w, label)
    BY <1>1, GoesTo DEF AppendBegin, Reserve, ClearNext, StoreTimestamp, StoreSpan, StoreHeader, Publish
  <2>2. loc' = loc \/ \E x : loc' = [loc EXCEPT ![w] = x]
    BY DEF AppendBegin, Reserve, ClearNext, StoreTimestamp, StoreSpan, StoreHeader, Publish
  <2> QED
    BY <1>1, <2>1, <2>2, Keeps DEF Moves
<1>0. PICK r : r = loc[Reader].region
  OBVIOUS
<1>3. ASSUME pc[Reader] # "idle" PROVE Overtakes(r)
  <2>1. r \in allocated /\ r \in Regions
    BY <1>0, <1>3, ReaderIn
  <2>2. UNCHANGED <<log, committed, runtimeOf, state, maxValid>>
    BY DEF AppendBegin, Reserve, ClearNext, StoreTimestamp, StoreSpan, StoreHeader, Publish, timestamps,
           runtime, memory
  <2>3. NotReady(r)' => NotReady(r)
    BY <2>2 DEF NotReady
  <2>4. ASSUME pc[Reader] \in Checking
        PROVE  LET p == <<r, loc[Reader].offset>>
               IN  cells'[p].timestamp = cells[p].timestamp \/ committed < cells'[p].timestamp
    <3> DEFINE p == <<r, loc[Reader].offset>>
               h == <<w, loc[w].offset>>
    <3>1. p \in Places /\ cells \in [Places -> Cell]
      BY <1>0, <1>1, <2>4, ReaderPlace DEF Types, CellTypes
    <3> SUFFICES cells'[p].timestamp = cells[p].timestamp \/ committed < cells'[p].timestamp
      OBVIOUS
    <3> HIDE DEF p, h
    <3>2. CASE UNCHANGED cells
      BY <3>2
    <3>3. CASE \E q, i : ClearSpan(q, i)
      BY <1>1, <3>1, <3>3, ClearTimestamps
    <3>4. CASE StoreTimestamp(w)
      <4>1. pc[w] \in Storing /\ cells' = [cells EXCEPT ![h] = [cells[h] EXCEPT !.timestamp = loc[w].timestamp]]
        BY <3>4 DEF StoreTimestamp, StoreHeader, StoreCell, Storing, h
      <4>2. committed < loc[w].timestamp
        BY <4>1 DEF HistoryIInv, History, WriterOK
      <4>3. CASE p = h
        <5>1. cells'[p] = [cells[p] EXCEPT !.timestamp = loc[w].timestamp] /\ cells[p] \in Cell
          BY <3>1, <4>1, <4>3
        <5>2. cells'[p].timestamp = loc[w].timestamp
          BY <5>1 DEF Cell
        <5> QED
          BY <4>2, <5>2
      <4>4. CASE p # h
        BY <3>1, <4>1, <4>4
      <4> QED
        BY <4>3, <4>4
    <3>5. CASE StoreSpan(w)
      <4>1. cells' = [cells EXCEPT ![h] = [cells[h] EXCEPT !.span = loc[w].size]]
        BY <3>5 DEF StoreSpan, StoreHeader, StoreCell, h
      <4>2. CASE p = h
        <5>1. cells'[p] = [cells[p] EXCEPT !.span = loc[w].size] /\ cells[p] \in Cell
          BY <3>1, <4>1, <4>2
        <5> QED
          BY <5>1 DEF Cell
      <4>3. CASE p # h
        BY <3>1, <4>1, <4>3
      <4> QED
        BY <4>2, <4>3
    <3>6. \/ UNCHANGED cells \/ (\E q, i : ClearSpan(q, i)) \/ StoreTimestamp(w) \/ StoreSpan(w)
      BY DEF AppendBegin, Reserve, ClearNext, Publish, memory
    <3> QED
      BY <3>2, <3>3, <3>4, <3>5, <3>6
  <2>5. log'[r] = log[r] /\ committed' = committed /\ maxValid'[r] = maxValid[r]
    BY <2>2
  <2> QED
    BY <1>0, <1>3, <2>3, <2>4, <2>5, NothingOvertakes
<1> QED
  BY <1>0, <1>2, <1>3, ReadsFrame

\* An entry that is appended is not committed, in a region that is open for writing.
LEMMA AcquireReads ==
  ASSUME HistoryIInv, RuntimeIInv', AllLaid, Reads, NEW w \in Regions, AcquireTimestamp(w)
  PROVE  Reads'
<1>1. RuntimeIInv /\ Types /\ w \in Actors /\ Counted /\ next \in Nat /\ committed \in Nat
  BY Constants, StateTypes DEF HistoryIInv, RuntimeIInv
<1>2. /\ pc[w] = "acquire" /\ Len(log[w]) \in Nat
      /\ Len(log'[w]) = Len(log[w]) + 1 /\ log'[w][Len(log[w]) + 1].timestamp = next
      /\ \A k \in 1 .. Len(log[w]) : log'[w][k] = log[w][k]
      /\ \A q \in Regions : q # w => log'[q] = log[q]
      /\ pc'[Reader] = pc[Reader] /\ loc'[Reader] = loc[Reader]
      /\ UNCHANGED <<cells, maxValid, committed, runtimeOf, state>>
  BY <1>1, AcquireEffect DEF memory, runtime
<1>3. ~NotReady(w)
  <2>1. pc[w] \in Writing
    BY <1>2 DEF Writing
  <2> QED
    BY <1>1, <2>1, OfTheActor
<1>0. PICK r : r = loc[Reader].region
  OBVIOUS
<1>4. ASSUME pc[Reader] # "idle" PROVE Overtakes(r)
  <2>1. r \in allocated /\ r \in Regions
    BY <1>0, <1>4, ReaderIn
  <2>2. CASE r = w
    <3>1. Grows(r)
      <4>1. committed < next
        BY <1>1 DEF Counted
      <4>2. \A k \in 1 .. Len(log'[w]) : k > Len(log[w]) => k = Len(log[w]) + 1
        BY <1>2
      <4>3. \A k \in 1 .. Len(log'[w]) : k > Len(log[w]) => log'[w][k].timestamp > committed
        BY <1>1, <1>2, <4>1, <4>2
      <4>4. Len(log'[w]) \in Nat /\ Len(log[w]) <= Len(log'[w])
        BY <1>2
      <4> QED
        BY <1>2, <2>2, <4>3, <4>4 DEF Grows
    <3>2. ~NotReady(r)'
      BY <1>2, <1>3, <2>2 DEF NotReady
    <3>3. pc[Reader] \in {"load_span", "load_timestamp"} => loc[Reader].valid <= maxValid'[r]
      BY <1>0, <1>2 DEF Reads
    <3> QED
      BY <1>1, <1>2, <3>1, <3>2, <3>3 DEF Overtakes
  <2>3. CASE r # w
    <3>1. log'[r] = log[r] /\ (NotReady(r)' => NotReady(r))
      BY <1>2, <2>1, <2>3 DEF NotReady
    <3> QED
      BY <1>0, <1>2, <1>4, <3>1, NothingOvertakes
  <2> QED
    BY <2>2, <2>3
<1> QED
  BY <1>0, <1>2, <1>4, ReadsFrame

\* A region is not freed while the iterator is in it.
LEMMA RegionReads ==
  ASSUME HistoryIInv, RuntimeIInv', AllLaid, Reads, NEW w \in Regions,
         Free(w) \/ RemoveRuntime(w) \/ Allocate(w)
  PROVE  Reads'
<1>1. RuntimeIInv /\ Types /\ Reader \in Actors /\ w # Reader
  BY Constants DEF HistoryIInv, RuntimeIInv
<1>2. pc'[Reader] = pc[Reader] /\ loc'[Reader] = loc[Reader] /\ committed' = committed
  <2>1. CASE Free(w)
    BY <1>1, <2>1, FreeEffect DEF timestamps
  <2>2. CASE RemoveRuntime(w)
    BY <1>1, <2>2, RemoveRuntimeEffect DEF timestamps
  <2>3. CASE Allocate(w)
    BY <2>3 DEF Allocate, timestamps
  <2> QED
    BY <2>1, <2>2, <2>3
<1>0. PICK r : r = loc[Reader].region
  OBVIOUS
<1>3. ASSUME pc[Reader] # "idle" PROVE Overtakes(r)
  <2>1. r \in allocated /\ r \in Regions
    BY <1>0, <1>3, ReaderIn
  <2>2. CASE Free(w)
    <3>1. r # w
      BY <1>0, <1>3, <2>2 DEF Free, Unused
    <3>2. log'[r] = log[r] /\ UNCHANGED <<cells, maxValid, runtimeOf, state>>
      BY <1>1, <2>1, <2>2, <3>1, FreeEffect DEF runtime
    <3>3. NotReady(r)' => NotReady(r)
      BY <3>2 DEF NotReady
    <3> QED
      BY <1>0, <1>2, <1>3, <3>2, <3>3, NothingOvertakes
  <2>3. CASE RemoveRuntime(w)
    <3>1. /\ runtimeOf'[r] = runtimeOf[r] /\ UNCHANGED <<log, cells, maxValid>>
          /\ runtimeOf[r] # Nobody => state'[runtimeOf[r]] = state[runtimeOf[r]]
      BY <1>1, <2>1, <2>3, RemoveRuntimeEffect DEF memory
    <3>2. NotReady(r)' => NotReady(r)
      BY <3>1 DEF NotReady
    <3> QED
      BY <1>0, <1>2, <1>3, <3>1, <3>2, NothingOvertakes
  <2>4. CASE Allocate(w)
    <3>1. /\ r # w /\ UNCHANGED <<log, runtimeOf, state>>
          /\ cells' = [cells EXCEPT ![<<w, 0>>] = NoCell]
          /\ maxValid' = [maxValid EXCEPT ![w] = Forever]
      BY <2>1, <2>4 DEF Allocate, runtime
    <3>2. maxValid'[r] = maxValid[r]
      <4>1. maxValid \in [Regions -> Nat]
        BY <1>1, StateTypes
      <4> QED
        BY <2>1, <3>1, <4>1
    <3>3. NotReady(r)' => NotReady(r)
      BY <3>1 DEF NotReady
    <3>4. ASSUME pc[Reader] \in Checking
          PROVE  cells'[<<r, loc[Reader].offset>>] = cells[<<r, loc[Reader].offset>>]
      <4>1. <<r, loc[Reader].offset>> \in Places /\ cells \in [Places -> Cell]
        BY <1>0, <1>1, <3>4, ReaderPlace DEF Types, CellTypes
      <4>2. <<r, loc[Reader].offset>> # <<w, 0>>
        BY <3>1
      <4> QED
        BY <3>1, <4>1, <4>2
    <3> QED
      BY <1>0, <1>2, <1>3, <3>1, <3>2, <3>3, <3>4, NothingOvertakes
  <2> QED
    BY <2>2, <2>3, <2>4
<1> QED
  BY <1>0, <1>2, <1>3, ReadsFrame

\* A payload is copied into its entry, not into the header the iterator stands at.
LEMMA CopyDoneReads ==
  ASSUME HistoryIInv, RuntimeIInv', AllLaid, Reads, SplitCells = {}, NEW op \in ops, CopyDone(op)
  PROVE  Reads'
<1>1. RuntimeIInv /\ Types /\ History
  BY DEF HistoryIInv, RuntimeIInv
<1>2. UNCHANGED <<pc, loc, log, committed, runtimeOf, state, maxValid>>
  BY DEF CopyDone, runtime
<1>0. PICK r : r = loc[Reader].region
  OBVIOUS
<1>3. ASSUME pc[Reader] # "idle" PROVE Overtakes(r)
  <2> DEFINE n == loc[Reader].offset
  <2>1. /\ r \in allocated /\ r \in Regions /\ Tiled(r) /\ n \in Nat
        /\ Position \in 1 .. Len(log[r]) + 1 /\ Len(log[r]) \in Nat
        /\ Position \in 1 .. Len(log[r]) => n = log[r][Position].offset
        /\ Position = Len(log[r]) + 1 => n = LogEnd(r)
    BY <1>0, <1>3, ReaderIn DEF Laid
  <2>2. NotReady(r)' => NotReady(r)
    BY <1>2 DEF NotReady
  <2>3. ASSUME pc[Reader] \in Checking PROVE cells'[<<r, n>>] = cells[<<r, n>>]
    <3>1. n \in 0 .. Capacity - 1 /\ n < Capacity
      <4>1. n \in 0 .. Capacity - 1
        BY <2>3, ReaderPlace
      <4> QED
        BY <4>1, Constants
    <3>2. CASE Position = Len(log[r]) + 1
      BY <1>1, <2>1, <3>1, <3>2, CopyDoneTail
    <3>3. CASE Position \in 1 .. Len(log[r])
      <4>1. ASSUME r = op.region, op.offset < n, n <= op.offset + op.size PROVE FALSE
        <5>0. RuntimeIInv /\ History /\ r = op.region
          BY <1>1, <4>1
        <5>1. PICK k \in 1 .. Len(log[r]) :
                /\ log[r][k].timestamp = op.timestamp /\ log[r][k].offset = op.offset
                /\ Len(log[r][k].payload) = op.size
                /\ \A j \in 1 .. op.size : log[r][k].payload[j] = op.append
          BY <5>0, OpEntry, SMTT(30)
        <5>2. /\ Len(log[r][Position].payload) \in Nat /\ 0 \in 0 .. Len(log[r][Position].payload)
              /\ n + 0 = n /\ op.offset \in Nat
          BY <1>1, <2>1, <3>3, Geometry, OpTypes
        <5>3. log[r][k].offset <= n + 0 /\ n + 0 <= log[r][k].offset + Len(log[r][k].payload)
          BY <2>1, <4>1, <5>1, <5>2
        <5>4. n = log[r][Position].offset
          BY <2>1, <3>3
        <5> HIDE DEF n
        <5>5. Position = k
          BY <1>1, <2>1, <3>3, <5>2, <5>3, <5>4, OpOwns
        <5> QED
          BY <2>1, <4>1, <5>1, <5>2, <5>4, <5>5
      <4> QED
        BY <1>1, <2>1, <3>1, <4>1, CopyDoneEffect
    <3> QED
      BY <2>1, <3>2, <3>3
  <2> QED
    BY <1>0, <1>2, <1>3, <2>2, <2>3, NothingOvertakes
<1> QED
  BY <1>0, <1>2, <1>3, ReadsFrame

LEMMA PipelineReads ==
  ASSUME HistoryIInv, RuntimeIInv', AllLaid, Reads, NEW x,
         \/ x \in ops /\ (ProcessOp(x) \/ Commit(x))
         \/ RecordPersisted \/ Opened \/ MarkRegion(x)
  PROVE  Reads'
<1>1. UNCHANGED <<pc, loc, log, cells, runtimeOf, state>>
  BY DEF ProcessOp, Commit, RecordPersisted, Opened, MarkRegion, memory, runtime
<1>0. PICK r : r = loc[Reader].region
  OBVIOUS
<1>2. ASSUME pc[Reader] # "idle" PROVE Overtakes(r)
  <2>1. phase = "running" /\ Len(log[r]) \in Nat /\ Types
    BY <1>0, <1>2, ReaderIn
  <2>2. maxValid' = maxValid /\ committed' \in {committed, committed + 1}
    BY <2>1 DEF ProcessOp, Commit, RecordPersisted, Opened, MarkRegion, memory, timestamps
  <2>3. committed <= committed'
    BY <2>1, <2>2, StateTypes
  <2>4. pc[Reader] \in {"load_span", "load_timestamp"} => loc[Reader].valid <= maxValid'[r]
    BY <1>0, <2>2 DEF Reads
  <2>5. Grows(r)
    BY <1>1, <2>1 DEF Grows
  <2> QED
    BY <1>1, <2>3, <2>4, <2>5 DEF Overtakes, NotReady
<1> QED
  BY <1>0, <1>1, <1>2, ReadsFrame

\* An iterator that is not in a region knows nothing.
LEMMA IdleReads ==
  ASSUME pc'[Reader] = "idle"
  PROVE  Reads'
  BY DEF Reads, Checking, Recovering

LEMMA CrashReads ==
  ASSUME Crash
  PROVE  Reads'
<1>1. pc'[Reader] = "idle"
  BY Constants DEF Crash
<1> QED
  BY <1>1, IdleReads

-----------------------------------------------------------------------------
(* The iterator's own steps                                                *)

LEMMA SeesFrame ==
  ASSUME NEW r, Sees(r), UNCHANGED <<log, committed>>,
         loc'[Reader].seen = loc[Reader].seen, loc'[Reader].offset = loc[Reader].offset
  PROVE  Sees(r)' /\ Position' = Position
<1>1. Position' = Position
  BY DEF Position
<1>2. Start(r, Position)' = Start(r, Position)
  BY <1>1 DEF Start, EntryEnd
<1> QED
  BY <1>1, <1>2 DEF Sees

\* The parts of Reads at the label the iterator goes to.
LEMMA ReadsAt ==
  ASSUME NEW r, r = loc'[Reader].region, NEW label, pc'[Reader] = label, Sees(r)',
         label \in Checking => Compares(r)',
         label \in {"load_span", "load_timestamp"} => loc'[Reader].valid <= maxValid'[r],
         label = "load_timestamp" => HasLoaded(r)',
         label \in Recovering \union {"recheck"} /\ NotReady(r)' => (Position = Len(log[r]) + 1)'
  PROVE  Reads'
  BY DEF Reads

\* The iterator moves to a label where nothing else is known.
LEMMA ReadsJust ==
  ASSUME Reads, NEW r, r = loc[Reader].region, pc[Reader] # "idle", UNCHANGED <<log, committed>>,
         loc'[Reader].seen = loc[Reader].seen, loc'[Reader].offset = loc[Reader].offset,
         loc'[Reader].region = r, NEW label, pc'[Reader] = label,
         label \in {"idle", "create", "load_committed", "set_max_valid", "write_ready"}
  PROVE  Reads'
<1>1. Sees(r)'
  BY SeesFrame DEF Reads
<1>2. label \notin Checking /\ label \notin Recovering \union {"recheck"}
      /\ label \notin {"load_span", "load_timestamp"} /\ label # "load_timestamp"
  BY DEF Checking, Recovering
<1> QED
  BY <1>1, <1>2, ReadsAt

LEMMA ReadBeginReads ==
  ASSUME HistoryIInv, ReadBegin
  PROVE  Reads'
<1>1. Types /\ Reader \in Actors
  BY Constants DEF HistoryIInv, RuntimeIInv
<1>2. PICK r \in allocated : loc' = [loc EXCEPT ![Reader] = [NoLocals EXCEPT !.region = r]]
  BY DEF ReadBegin
<1>3. /\ loc'[Reader] = [NoLocals EXCEPT !.region = r] /\ pc'[Reader] = "look_up" /\ log' = log
      /\ r \in Regions
  <2>1. loc'[Reader] = [NoLocals EXCEPT !.region = r]
    BY <1>1, <1>2, Keeps
  <2>2. Goto(Reader, "look_up") /\ log' = log
    BY DEF ReadBegin
  <2>3. pc'[Reader] = "look_up"
    BY <1>1, <2>2, GoesTo DEF Moves
  <2>4. r \in Regions
    BY <1>1, <1>2, StateTypes
  <2> QED
    BY <2>1, <2>2, <2>3, <2>4
<1>4. loc'[Reader].region = r /\ loc'[Reader].seen = << >> /\ loc'[Reader].offset = 0
  BY <1>3 DEF NoLocals
<1>5. Len(loc'[Reader].seen) = 0 /\ Position' = 1
  BY <1>4 DEF Position
<1>6. Start(r, Position)' = 0
  BY <1>5 DEF Start
<1>7. Sees(r)'
  <2>1. Len(log[r]) \in Nat
    BY <1>1, <1>3, LogTypes
  <2>2. 0 <= Len(log'[r])
    BY <1>3, <2>1
  <2>3. \A k \in 1 .. Len(loc'[Reader].seen) : FALSE
    BY <1>5
  <2> QED
    BY <1>4, <1>5, <1>6, <2>2, <2>3 DEF Sees
<1>8. "look_up" \notin Checking /\ "look_up" \notin Recovering \union {"recheck"}
  BY DEF Checking, Recovering
<1> QED
  BY <1>3, <1>4, <1>7, <1>8, ReadsAt

LEMMA ReaderSearches ==
  ASSUME HistoryIInv, AllLaid, Reads, GetOrCreate(Reader)
  PROVE  Reads'
<1>1. Types /\ Reader \in Actors /\ loc[Reader] \in Locals
  BY Constants, StateTypes DEF HistoryIInv, RuntimeIInv
<1>2. pc[Reader] # "idle" /\ UNCHANGED <<log, committed>>
  BY DEF GetOrCreate, LookUp, Create, CreateFails, timestamps
<1>0. PICK r : r = loc[Reader].region
  OBVIOUS
<1>3. ASSUME NEW label \in {"create", "load_committed"}, Goto(Reader, label),
             NEW o, loc' = [loc EXCEPT ![Reader] = [loc[Reader] EXCEPT !.runtime = o]]
      PROVE  Reads'
  <2>1. loc'[Reader] = [loc[Reader] EXCEPT !.runtime = o]
    BY <1>1, <1>3, Keeps
  <2>2. /\ loc'[Reader].seen = loc[Reader].seen /\ loc'[Reader].offset = loc[Reader].offset
        /\ loc'[Reader].region = r
    BY <1>0, <1>1, <2>1 DEF Locals
  <2>3. pc'[Reader] = label
    BY <1>1, <1>3, GoesTo DEF Moves
  <2> QED
    BY <1>0, <1>2, <2>2, <2>3, ReadsJust
<1>4. ASSUME NEW o, HaveRuntime(Reader, o) PROVE Reads'
  <2>1. loc' = [loc EXCEPT ![Reader] = [loc[Reader] EXCEPT !.runtime = o]]
    BY <1>4 DEF HaveRuntime
  <2>2. Goto(Reader, "load_committed")
    BY <1>4 DEF HaveRuntime
  <2> QED
    BY <1>3, <2>1, <2>2
<1>5. CASE Goto(Reader, "create") /\ loc' = loc
  <2>1. pc'[Reader] = "create"
    BY <1>1, <1>5, GoesTo DEF Moves
  <2> QED
    BY <1>0, <1>2, <1>5, <2>1, ReadsJust
<1>6. CASE CreateFails(Reader)
  <2>1. Goto(Reader, "idle")
    BY <1>6 DEF CreateFails
  <2>2. pc'[Reader] = "idle"
    BY <1>1, <2>1, GoesTo DEF Moves
  <2> QED
    BY <2>2, IdleReads
<1>7. CASE LookUp(Reader)
  BY <1>4, <1>5, <1>7 DEF LookUp
<1>8. CASE Create(Reader)
  BY <1>4, <1>8 DEF Create
<1> QED
  BY <1>6, <1>7, <1>8 DEF GetOrCreate

LEMMA ReaderRecovers ==
  ASSUME HistoryIInv, AllLaid, Reads, Recover(Reader)
  PROVE  Reads'
<1>1. Types /\ Reader \in Actors
  BY Constants DEF HistoryIInv, RuntimeIInv
<1>2. pc[Reader] # "idle" /\ UNCHANGED <<log, committed>>
  BY DEF Recover, Initialize, Lock, RecheckState, SetMaxValid, WriteReady, timestamps
<1>0. PICK r : r = loc[Reader].region
  OBVIOUS
<1>3. CASE AfterRecovery(Reader)
  <2>1. CASE Goto(Reader, "idle")
    <3>1. pc'[Reader] = "idle"
      BY <1>1, <2>1, GoesTo DEF Moves
    <3> QED
      BY <3>1, IdleReads
  <2>2. CASE Goto(Reader, "load_committed") /\ loc' = loc
    <3>1. pc'[Reader] = "load_committed"
      BY <1>1, <2>2, GoesTo DEF Moves
    <3> QED
      BY <1>0, <1>2, <2>2, <3>1, ReadsJust
  <2> QED
    BY <1>3, <2>1, <2>2 DEF AfterRecovery
<1>4. ASSUME NEW label \in {"set_max_valid", "write_ready"}, Goto(Reader, label), loc' = loc
      PROVE  Reads'
  <2>1. pc'[Reader] = label
    BY <1>1, <1>4, GoesTo DEF Moves
  <2> QED
    BY <1>0, <1>2, <1>4, <2>1, ReadsJust
<1>5. ASSUME NEW label \in {"lock", "recheck"}, Goto(Reader, label), loc' = loc,
             pc[Reader] \in Recovering, UNCHANGED <<runtimeOf, state>>
      PROVE  Reads'
  <2>1. pc'[Reader] = label
    BY <1>1, <1>5, GoesTo DEF Moves
  <2>2. Sees(r)' /\ Position' = Position
    BY <1>0, <1>2, <1>5, SeesFrame DEF Reads
  <2>3. NotReady(r)' => Position = Len(log[r]) + 1
    BY <1>0, <1>5 DEF Reads, NotReady
  <2>4. NotReady(r)' => (Position = Len(log[r]) + 1)'
    BY <1>2, <2>2, <2>3
  <2>5. label \notin Checking /\ label \notin {"load_span", "load_timestamp"}
        /\ label # "load_timestamp"
    BY DEF Checking
  <2> QED
    BY <1>0, <1>5, <2>1, <2>2, <2>4, <2>5, ReadsAt
<1>6. CASE Initialize(Reader)
  <2>1. pc[Reader] \in Recovering /\ UNCHANGED <<runtimeOf, state>>
    BY <1>6 DEF Initialize, Recovering, runtime
  <2> QED
    BY <1>3, <1>5, <1>6, <2>1 DEF Initialize
<1>7. CASE Lock(Reader)
  <2>1. pc[Reader] \in Recovering /\ UNCHANGED <<runtimeOf, state>> /\ loc' = loc
        /\ Goto(Reader, "recheck")
    BY <1>7 DEF Lock, Recovering
  <2> QED
    BY <1>5, <2>1
<1>8. CASE RecheckState(Reader)
  BY <1>3, <1>4, <1>8 DEF RecheckState
<1>9. CASE SetMaxValid(Reader)
  BY <1>4, <1>9 DEF SetMaxValid
<1>10. CASE WriteReady(Reader)
  BY <1>3, <1>10 DEF WriteReady
<1> QED
  BY <1>6, <1>7, <1>8, <1>9, <1>10 DEF Recover

LEMMA LoadCommittedReads ==
  ASSUME HistoryIInv, AllLaid, Reads, LoadCommitted
  PROVE  Reads'
<1>1. pc[Reader] = "load_committed" /\ UNCHANGED <<log, committed, runtimeOf, state, cells>>
  BY DEF LoadCommitted, timestamps, runtime, memory
<1>0. PICK r : r = loc[Reader].region
  OBVIOUS
<1>2. /\ r \in allocated /\ r \in Regions /\ Laid(r) /\ Sees(r) /\ Len(log[r]) \in Nat
      /\ Position \in 1 .. Len(log[r]) + 1 /\ Reader \in Actors /\ Types
      /\ Position \in 1 .. Len(log[r]) => loc[Reader].offset = log[r][Position].offset
  BY <1>0, <1>1, ReaderIn
<1>3. loc[Reader] \in Locals
  BY <1>2, StateTypes
<1>4. CASE loc[Reader].offset >= Capacity /\ Goto(Reader, "initialize") /\ loc' = loc
  <2>1. pc'[Reader] = "initialize"
    BY <1>2, <1>4, GoesTo DEF Moves
  <2>2. Sees(r)' /\ Position' = Position
    BY <1>1, <1>2, <1>4, SeesFrame
  <2>3. Position \notin 1 .. Len(log[r])
    <3> SUFFICES ASSUME Position \in 1 .. Len(log[r]) PROVE FALSE
      OBVIOUS
    <3>1. log[r][Position].offset \in 0 .. Capacity - 1
      BY <1>2, HeaderIndex DEF Laid
    <3>2. loc[Reader].offset \in 0 .. Capacity - 1
      BY <1>2, <3>1
    <3> QED
      BY <1>4, <3>2, Constants
  <2>4. (Position = Len(log[r]) + 1)'
    BY <1>1, <1>2, <2>2, <2>3
  <2>5. "initialize" \notin Checking
    BY DEF Checking
  <2> QED
    BY <1>0, <1>4, <2>1, <2>2, <2>4, <2>5, ReadsAt
<1>5. CASE /\ loc' = [loc EXCEPT ![Reader].valid = committed]
           /\ Goto(Reader, "load_max_valid")
  <2>1. pc'[Reader] = "load_max_valid"
    BY <1>2, <1>5, GoesTo DEF Moves
  <2>2. loc' = [loc EXCEPT ![Reader] = [loc[Reader] EXCEPT !.valid = committed]]
    BY <1>5
  <2>3. loc'[Reader] = [loc[Reader] EXCEPT !.valid = committed]
    BY <1>2, <2>2, Keeps
  <2>4. /\ loc'[Reader].seen = loc[Reader].seen /\ loc'[Reader].offset = loc[Reader].offset
        /\ loc'[Reader].region = r /\ loc'[Reader].valid = committed
    BY <1>0, <1>3, <2>3 DEF Locals
  <2>5. Sees(r)'
    BY <1>1, <1>2, <2>4, SeesFrame
  <2>6. NotReady(r) => \A k \in 1 .. Len(log[r]) : log[r][k].timestamp <= committed
    BY <1>2 DEF HistoryIInv, Marks, Marked
  <2>7. committed \in Nat
    BY <1>2, StateTypes
  <2>8. NotReady(r)' <=> NotReady(r)
    BY <1>1 DEF NotReady
  <2>9. Compares(r)'
    BY <1>1, <2>4, <2>6, <2>7, <2>8 DEF Compares
  <2>10. "load_max_valid" \notin Recovering \union {"recheck"}
    BY DEF Recovering
  <2> QED
    BY <2>1, <2>4, <2>5, <2>9, <2>10, ReadsAt
<1> QED
  BY <1>4, <1>5 DEF LoadCommitted

LEMMA LoadMaxValidReads ==
  ASSUME HistoryIInv, AllLaid, Reads, LoadMaxValid
  PROVE  Reads'
<1>1. /\ pc[Reader] = "load_max_valid"
      /\ UNCHANGED <<log, committed, runtimeOf, state, cells, maxValid>>
  BY DEF LoadMaxValid, timestamps, runtime, memory
<1>0. PICK r : r = loc[Reader].region
  OBVIOUS
<1>2. /\ r \in allocated /\ r \in Regions /\ Sees(r) /\ Len(log[r]) \in Nat
      /\ loc[Reader].valid \in Nat /\ Reader \in Actors /\ Types
  BY <1>0, <1>1, ReaderIn
<1>3. loc[Reader] \in Locals /\ maxValid[r] \in Nat
  BY <1>2, StateTypes
<1> DEFINE v == Smaller(loc[Reader].valid, maxValid[r])
<1>4. v \in Nat /\ v <= loc[Reader].valid /\ v <= maxValid[r]
      /\ (v = loc[Reader].valid \/ v = maxValid[r])
  BY <1>2, <1>3 DEF Smaller
<1> HIDE DEF v
<1>5. loc' = [loc EXCEPT ![Reader] = [loc[Reader] EXCEPT !.valid = v]]
  BY <1>0 DEF LoadMaxValid, v
<1>6. loc'[Reader] = [loc[Reader] EXCEPT !.valid = v]
  BY <1>2, <1>5, Keeps
<1>7. /\ loc'[Reader].seen = loc[Reader].seen /\ loc'[Reader].offset = loc[Reader].offset
      /\ loc'[Reader].region = r /\ loc'[Reader].valid = v
  BY <1>0, <1>3, <1>6 DEF Locals
<1>8. pc'[Reader] = "load_span"
  <2>1. Goto(Reader, "load_span")
    BY DEF LoadMaxValid
  <2> QED
    BY <1>2, <2>1, GoesTo DEF Moves
<1>9. Sees(r)'
  BY <1>1, <1>2, <1>7, SeesFrame
<1>10. Compares(r)'
  <2>1. Compares(r)
    BY <1>0, <1>1 DEF Reads, Checking
  <2>2. \A k \in 1 .. Len(log[r]) : log[r][k].timestamp <= maxValid[r]
    BY <1>2, MarksHide DEF MarksHideNothing
  <2>3. NotReady(r)' <=> NotReady(r)
    BY <1>1 DEF NotReady
  <2>4. v <= committed
    <3>1. committed \in Nat /\ loc[Reader].valid <= committed
      BY <1>2, <2>1, StateTypes DEF Compares
    <3> QED
      BY <1>2, <1>4, <3>1
  <2>5. NotReady(r) => \A k \in 1 .. Len(log[r]) : log[r][k].timestamp <= v
    BY <1>4, <2>1, <2>2 DEF Compares
  <2> QED
    BY <1>1, <1>7, <2>3, <2>4, <2>5 DEF Compares
<1>11. loc'[Reader].valid <= maxValid'[r]
  BY <1>1, <1>4, <1>7
<1>12. "load_span" \notin Recovering \union {"recheck"}
  BY DEF Recovering
<1> QED
  BY <1>7, <1>8, <1>9, <1>10, <1>11, <1>12, ReadsAt

\* The span the iterator loads is complete when the entry is committed; otherwise the
\* timestamp behind it is already too large.
LEMMA LoadSpanReads ==
  ASSUME HistoryIInv, AllLaid, Reads, LoadSpan
  PROVE  Reads'
<1>1. /\ pc[Reader] = "load_span"
      /\ UNCHANGED <<log, committed, runtimeOf, state, cells, maxValid>>
  BY DEF LoadSpan, timestamps, runtime, memory
<1>0. PICK r : r = loc[Reader].region
  OBVIOUS
<1>2. /\ r \in allocated /\ r \in Regions /\ Laid(r) /\ Sees(r) /\ Len(log[r]) \in Nat
      /\ phase = "running" /\ Position \in 1 .. Len(log[r]) + 1
      /\ loc[Reader].valid \in Nat /\ loc[Reader].offset \in Nat /\ Reader \in Actors /\ Types
      /\ Position \in 1 .. Len(log[r]) => cells[<<r, loc[Reader].offset>>] = Header(r, Position)
      /\ Position = Len(log[r]) + 1 => loc[Reader].offset = LogEnd(r)
  BY <1>0, <1>1, ReaderIn
<1>3. Compares(r) /\ loc[Reader].valid <= maxValid[r] /\ loc[Reader].valid <= committed
  BY <1>0, <1>1 DEF Reads, Checking, Compares
<1>4. loc[Reader] \in Locals /\ maxValid[r] \in Nat /\ committed \in Nat
  BY <1>2, StateTypes
<1> DEFINE c == cells[<<r, loc[Reader].offset>>]
<1>5. c.span \in Nat /\ c.timestamp \in Nat /\ loc[Reader].offset < Capacity
  <2>1. pc[Reader] \in Checking
    BY <1>1 DEF Checking
  <2>2. loc[Reader].offset \in 0 .. Capacity - 1 /\ <<r, loc[Reader].offset>> \in Places
    BY <1>0, <2>1, ReaderPlace
  <2>3. c \in Cell
    BY <1>2, <2>2 DEF Types, CellTypes
  <2>4. loc[Reader].offset < Capacity
    BY <2>2, Constants
  <2> QED
    BY <2>3, <2>4, Constants DEF Cell
<1>6. loc' = [loc EXCEPT ![Reader] = [loc[Reader] EXCEPT !.size = c.span]]
  BY <1>0 DEF LoadSpan
<1> HIDE DEF c
<1>7. loc'[Reader] = [loc[Reader] EXCEPT !.size = c.span]
  BY <1>2, <1>6, Keeps
<1>8. /\ loc'[Reader].seen = loc[Reader].seen /\ loc'[Reader].offset = loc[Reader].offset
      /\ loc'[Reader].region = r /\ loc'[Reader].valid = loc[Reader].valid
      /\ loc'[Reader].size = c.span
  BY <1>0, <1>4, <1>7 DEF Locals
<1>9. pc'[Reader] = "load_timestamp"
  <2>1. Goto(Reader, "load_timestamp")
    BY DEF LoadSpan
  <2> QED
    BY <1>2, <2>1, GoesTo DEF Moves
<1>10. Sees(r)' /\ Position' = Position
  BY <1>1, <1>2, <1>8, SeesFrame
<1>11. Compares(r)'
  <2>1. NotReady(r)' <=> NotReady(r)
    BY <1>1 DEF NotReady
  <2> QED
    BY <1>1, <1>3, <1>8, <2>1 DEF Compares
<1>12. ASSUME IsNext(r) PROVE c.span = Len(log[r][Position].payload)
  <2>1. Position \in 1 .. Len(log[r]) /\ log[r][Position].timestamp <= loc[Reader].valid
    BY <1>2, <1>12 DEF IsNext
  <2>2. log[r][Position].timestamp \in Nat
    BY <1>2, <2>1, LogTypes
  <2>3. log[r][Position].timestamp <= committed
    BY <1>2, <1>3, <1>4, <2>1, <2>2
  <2>4. Header(r, Position).span = Len(log[r][Position].payload)
    BY <1>2, <2>1, <2>3, ValidBound, EntryRead
  <2> QED
    BY <1>2, <2>1, <2>4 DEF c
<1>13. ASSUME c.span # Empty, ~IsNext(r) PROVE c.timestamp > loc[Reader].valid
  <2>1. CASE Position \in 1 .. Len(log[r])
    <3>1. log[r][Position].timestamp \in Nat /\ ~(log[r][Position].timestamp <= loc[Reader].valid)
      BY <1>2, <1>13, <2>1, LogTypes DEF IsNext
    <3>2. HeaderOK(c, log[r][Position].timestamp)
      BY <1>2, <2>1 DEF Laid, Headed, HeadedAt, c
    <3> QED
      BY <1>2, <1>13, <3>1, <3>2 DEF HeaderOK
  <2>2. CASE Position = Len(log[r]) + 1
    <3>1. Len(loc[Reader].seen) = Len(log[r])
      <4>1. Len(loc[Reader].seen) \in Nat
        BY <1>0, <1>1, ReaderIn
      <4> QED
        BY <1>2, <2>2, <4>1 DEF Position
    <3>2. pc[r] # "clear_next"
      <4> SUFFICES ASSUME pc[r] = "clear_next" PROVE FALSE
        OBVIOUS
      <4>1. pc[r] \in Storing
        BY DEF Storing
      <4>2. Len(log[r]) > 0 /\ committed < log[r][Len(log[r])].timestamp
        BY <1>2, <4>1 DEF HistoryIInv, History, WriterOK
      <4>3. Len(log[r]) \in 1 .. Len(log[r])
        BY <1>2, <4>2
      <4>4. log[r][Len(log[r])].timestamp <= committed /\ log[r][Len(log[r])].timestamp \in Nat
        BY <1>2, <3>1, <4>3, LogTypes DEF Sees
      <4> QED
        BY <1>4, <4>2, <4>4
    <3>3. loc[Reader].offset = LogEnd(r) /\ LogEnd(r) < Capacity
      BY <1>2, <1>5, <2>2
    <3>4. TailOK(c, maxValid[r])
      BY <1>2, <3>2, <3>3 DEF Laid, Ended, TailBound, c
    <3>5. c.timestamp > maxValid[r]
      BY <1>13, <3>4 DEF TailOK
    <3> QED
      BY <1>2, <1>3, <1>4, <1>5, <3>5
  <2> QED
    BY <1>2, <2>1, <2>2
<1>14. HasLoaded(r)'
  <2>1. IsNext(r)' <=> IsNext(r)
    BY <1>1, <1>8, <1>10 DEF IsNext
  <2>2. IsNext(r)' => loc'[Reader].size = Len(log'[r][Position'].payload)
    BY <1>1, <1>8, <1>10, <1>12, <2>1
  <2>3. loc'[Reader].size # Empty =>
          IsNext(r)' \/ cells'[<<r, loc'[Reader].offset>>].timestamp > loc'[Reader].valid
    BY <1>1, <1>8, <1>13, <2>1 DEF c, Empty
  <2> QED
    BY <2>2, <2>3 DEF HasLoaded
<1>15. loc'[Reader].valid <= maxValid'[r]
  BY <1>1, <1>3, <1>8
<1>16. "load_timestamp" \notin Recovering \union {"recheck"}
  BY DEF Recovering
<1> QED
  BY <1>8, <1>9, <1>10, <1>11, <1>14, <1>15, <1>16, ReadsAt

\* What the iterator takes for valid is the next entry, and at a committed one that is the case.
LEMMA LoadTimestampReads ==
  ASSUME HistoryIInv, AllLaid, Reads, LoadTimestamp
  PROVE  Reads'
<1>1. /\ pc[Reader] = "load_timestamp"
      /\ UNCHANGED <<log, committed, runtimeOf, state, cells, maxValid>>
  BY DEF LoadTimestamp, timestamps, runtime, memory
<1>0. PICK r : r = loc[Reader].region
  OBVIOUS
<1>2. /\ r \in allocated /\ r \in Regions /\ Laid(r) /\ Sees(r) /\ Len(log[r]) \in Nat
      /\ Position \in 1 .. Len(log[r]) + 1 /\ Len(loc[Reader].seen) \in Nat /\ Position \in Nat
      /\ loc[Reader].valid \in Nat /\ loc[Reader].offset \in Nat /\ Reader \in Actors /\ Types
      /\ Position \in 1 .. Len(log[r]) =>
           /\ loc[Reader].offset = log[r][Position].offset
           /\ cells[<<r, loc[Reader].offset>>] = Header(r, Position)
  BY <1>0, <1>1, ReaderIn
<1>3. Compares(r) /\ loc[Reader].valid <= committed /\ HasLoaded(r)
  BY <1>0, <1>1 DEF Reads, Checking, Compares
<1>4. loc[Reader] \in Locals /\ committed \in Nat
  BY <1>2, StateTypes
<1> DEFINE t == cells[<<r, loc[Reader].offset>>].timestamp
           s == loc[Reader].size
           c == [span |-> s, timestamp |-> t]
           e == EntryAt(r, loc[Reader].offset)
<1>5. t \in Nat /\ s \in Nat
  <2>1. pc[Reader] \in Checking
    BY <1>1 DEF Checking
  <2>2. <<r, loc[Reader].offset>> \in Places
    BY <1>0, <2>1, ReaderPlace
  <2>3. cells[<<r, loc[Reader].offset>>] \in Cell
    BY <1>2, <2>2 DEF Types, CellTypes
  <2>4. s \in Nat
    BY <1>4, Constants DEF Locals
  <2> QED
    BY <2>3, <2>4 DEF Cell
<1>6. IsValid(c, loc[Reader].valid) <=> s # Empty /\ t # 0 /\ t <= loc[Reader].valid
  BY DEF IsValid
<1>7. \/ /\ IsValid(c, loc[Reader].valid)
         /\ loc' = [loc EXCEPT ![Reader].seen = Append(@, e), ![Reader].offset = @ + s + 1]
         /\ Goto(Reader, "load_committed")
      \/ ~IsValid(c, loc[Reader].valid) /\ Goto(Reader, "initialize") /\ loc' = loc
  BY <1>0 DEF LoadTimestamp
<1>8. ASSUME IsNext(r)
      PROVE  /\ Position \in 1 .. Len(log[r]) /\ e = log[r][Position]
             /\ log[r][Position].timestamp <= committed
             /\ s = Len(log[r][Position].payload) /\ s > 0
             /\ t = log[r][Position].timestamp /\ t <= loc[Reader].valid /\ t > 0
             /\ loc[Reader].offset + s + 1 = Start(r, Position + 1)
  <2>1. Position \in 1 .. Len(log[r]) /\ log[r][Position].timestamp <= loc[Reader].valid
    BY <1>2, <1>8 DEF IsNext
  <2>2. log[r][Position].timestamp \in Nat /\ 0 < log[r][Position].timestamp
    BY <1>2, <2>1, ValidBound
  <2>3. log[r][Position].timestamp <= committed
    BY <1>2, <1>3, <1>4, <2>1, <2>2
  <2>4. /\ Header(r, Position).span = Len(log[r][Position].payload) /\ Header(r, Position).span > 0
        /\ Header(r, Position).timestamp = log[r][Position].timestamp
        /\ EntryAt(r, log[r][Position].offset) = log[r][Position]
    BY <1>2, <2>1, <2>3, ValidBound, EntryRead
  <2>5. s = Len(log[r][Position].payload)
    BY <1>3, <1>8 DEF HasLoaded
  <2>6. Start(r, Position + 1) = log[r][Position].offset + 1 + Len(log[r][Position].payload)
        /\ log[r][Position].offset \in Nat
    BY <1>2, <2>1, Geometry DEF Laid
  <2>7. loc[Reader].offset + s + 1 = Start(r, Position + 1)
    <3>1. loc[Reader].offset = log[r][Position].offset
      BY <1>2, <2>1
    <3>2. \A x, y \in Nat : x + y + 1 = x + 1 + y
      OBVIOUS
    <3> HIDE DEF s
    <3>3. loc[Reader].offset + s + 1 = loc[Reader].offset + 1 + s
      BY <1>2, <1>5, <3>2
    <3> QED
      BY <2>5, <2>6, <3>1, <3>3
  <2>8. e = log[r][Position]
    BY <1>2, <2>1, <2>4
  <2>9. t = log[r][Position].timestamp /\ s > 0
    BY <1>2, <2>1, <2>4, <2>5
  <2> HIDE DEF e, s, t
  <2> QED
    BY <2>1, <2>2, <2>3, <2>5, <2>7, <2>8, <2>9
<1> HIDE DEF e, s, t, c
<1>9. CASE /\ IsValid(c, loc[Reader].valid)
           /\ loc' = [loc EXCEPT ![Reader].seen = Append(@, e), ![Reader].offset = @ + s + 1]
           /\ Goto(Reader, "load_committed")
  <2>1. IsNext(r)
    <3>1. t > loc[Reader].valid => ~(t <= loc[Reader].valid)
      BY <1>2, <1>5
    <3> QED
      BY <1>3, <1>6, <1>9, <3>1 DEF HasLoaded, s, t
  <2>2. pc'[Reader] = "load_committed"
    BY <1>2, <1>9, GoesTo DEF Moves
  <2>3. loc' = [loc EXCEPT ![Reader] = [loc[Reader] EXCEPT !.seen = Append(loc[Reader].seen, e),
                                                           !.offset = loc[Reader].offset + s + 1]]
    BY <1>2, <1>4, <1>9, StateTypes DEF Locals
  <2>4. loc'[Reader] = [loc[Reader] EXCEPT !.seen = Append(loc[Reader].seen, e),
                                           !.offset = loc[Reader].offset + s + 1]
    BY <1>2, <2>3, Keeps
  <2>5. /\ loc'[Reader].seen = Append(loc[Reader].seen, e) /\ loc'[Reader].region = r
        /\ loc'[Reader].offset = loc[Reader].offset + s + 1
    BY <1>0, <1>4, <2>4 DEF Locals
  <2>6. /\ Len(loc'[Reader].seen) = Len(loc[Reader].seen) + 1
        /\ \A k \in 1 .. Len(loc[Reader].seen) : loc'[Reader].seen[k] = loc[Reader].seen[k]
        /\ loc'[Reader].seen[Len(loc[Reader].seen) + 1] = e
    <3>1. loc[Reader].seen \in Seq(Entries)
      BY <1>4 DEF Locals
    <3>2. e \in Entries
      BY <1>2, <1>8, <2>1, LogTypes
    <3> QED
      BY <2>5, <3>1, <3>2
  <2>7. Position' = Position + 1 /\ Position = Len(loc[Reader].seen) + 1
    BY <1>2, <2>6 DEF Position
  <2>8. Sees(r)'
    <3>1. Len(loc'[Reader].seen) <= Len(log[r])
      BY <1>2, <1>8, <2>1, <2>6, <2>7
    <3>2. ASSUME NEW k \in 1 .. Len(loc'[Reader].seen)
          PROVE  loc'[Reader].seen[k] = log[r][k] /\ log[r][k].timestamp <= committed
      <4>1. k \in 1 .. Len(loc[Reader].seen) \/ k = Len(loc[Reader].seen) + 1
        BY <1>2, <2>6
      <4>2. ASSUME k \in 1 .. Len(loc[Reader].seen)
            PROVE  loc'[Reader].seen[k] = log[r][k] /\ log[r][k].timestamp <= committed
        BY <1>2, <2>6, <4>2 DEF Sees
      <4>3. ASSUME k = Len(loc[Reader].seen) + 1
            PROVE  loc'[Reader].seen[k] = log[r][k] /\ log[r][k].timestamp <= committed
        BY <1>8, <2>1, <2>6, <2>7, <4>3
      <4> QED
        BY <4>1, <4>2, <4>3
    <3>3. Start(r, Position)' = Start(r, Position + 1)
      BY <1>1, <2>7 DEF Start, EntryEnd
    <3>4. loc'[Reader].offset = Start(r, Position)'
      BY <1>8, <2>1, <2>5, <3>3
    <3> QED
      BY <1>1, <3>1, <3>2, <3>4 DEF Sees
  <2>9. "load_committed" \notin Checking /\ "load_committed" \notin Recovering \union {"recheck"}
    BY DEF Checking, Recovering
  <2> QED
    BY <2>2, <2>5, <2>8, <2>9, ReadsAt
<1>10. CASE ~IsValid(c, loc[Reader].valid) /\ Goto(Reader, "initialize") /\ loc' = loc
  <2>1. pc'[Reader] = "initialize"
    BY <1>2, <1>10, GoesTo DEF Moves
  <2>2. Sees(r)' /\ Position' = Position
    BY <1>1, <1>2, <1>10, SeesFrame
  <2>3. ASSUME NotReady(r)' PROVE (Position = Len(log[r]) + 1)'
    <3>1. NotReady(r)
      BY <1>1, <2>3 DEF NotReady
    <3>2. Position \notin 1 .. Len(log[r])
      <4> SUFFICES ASSUME Position \in 1 .. Len(log[r]) PROVE FALSE
        OBVIOUS
      <4>1. log[r][Position].timestamp <= loc[Reader].valid
        BY <1>3, <3>1 DEF Compares
      <4>2. IsNext(r)
        BY <1>2, <4>1 DEF IsNext
      <4>3. s > 0 /\ t > 0 /\ t <= loc[Reader].valid
        BY <1>8, <4>2
      <4>4. s # Empty /\ t # 0
        BY <1>5, <4>3 DEF Empty
      <4> QED
        BY <1>6, <1>10, <4>3, <4>4
    <3> QED
      BY <1>1, <1>2, <2>2, <3>2
  <2>4. "initialize" \notin Checking
    BY DEF Checking
  <2> QED
    BY <1>0, <1>10, <2>1, <2>2, <2>3, <2>4, ReadsAt
<1> QED
  BY <1>7, <1>9, <1>10

-----------------------------------------------------------------------------
(* The invariant                                                           *)

LEMMA LayoutInit == Init => Layout /\ Reads
<1> SUFFICES ASSUME Init PROVE Layout /\ Reads
  OBVIOUS
<1>1. /\ cells = [p \in Places |-> NoCell] /\ cellsMedium = [p \in Places |-> {cells[p]}]
      /\ log = [r \in Regions |-> << >>] /\ allocated = Regions /\ phase = "running"
      /\ pc = [a \in Actors |-> "idle"] /\ runtimeOf = [r \in Regions |-> Nobody]
  BY DEF Init
<1>2. Regions \subseteq Actors /\ Reader \in Actors /\ Capacity \in Nat
  BY Constants
<1>3. ASSUME NEW r \in Regions PROVE Laid(r) /\ Appends(r)
  <2>1. log[r] = << >> /\ Len(log[r]) = 0 /\ pc[r] = "idle" /\ NotReady(r)
    BY <1>1, <1>2, <1>3 DEF NotReady
  <2>2. \A k \in 1 .. Len(log[r]) : FALSE
    BY <2>1
  <2>3. LogEnd(r) = 0
    BY <2>1 DEF LogEnd
  <2>4. Tiled(r)
    BY <2>2 DEF Tiled
  <2>5. Written(r) /\ Stores(r) /\ Headed(r)
    BY <2>1, <2>2 DEF Written, Stores, Headed
  <2>6. Ended(r)
    <3> SUFFICES ASSUME LogEnd(r) < Capacity
                 PROVE  /\ TailOK(cells[<<r, LogEnd(r)>>], TailBound(r))
                        /\ \A v \in cellsMedium[<<r, LogEnd(r)>>] : TailOK(v, TailBound(r))
      BY DEF Ended
    <3>1. <<r, LogEnd(r)>> \in Places
      BY <1>2, <2>3 DEF Places
    <3>2. cells[<<r, LogEnd(r)>>] = NoCell /\ cellsMedium[<<r, LogEnd(r)>>] = {NoCell}
      BY <1>1, <3>1
    <3>3. NoCell.span = Empty
      BY DEF NoCell
    <3> QED
      BY <3>2, <3>3 DEF TailOK
  <2> QED
    BY <2>1, <2>4, <2>5, <2>6 DEF Laid, Appends
<1>4. \A a \in Actors : Recovers(a)
  BY <1>1 DEF Recovers
<1>5. pc[Reader] = "idle"
  BY <1>1, <1>2
<1>6. Reads
  BY <1>5 DEF Reads, Checking, Recovering
<1> QED
  BY <1>1, <1>3, <1>4, <1>6 DEF Layout

LEMMA LayoutStutters ==
  ASSUME AllLaid, Offsets, Reads, UNCHANGED vars
  PROVE  AllLaid' /\ Offsets' /\ Reads'
<1>1. UNCHANGED <<memory, timestamps, runtime, phase, pc, loc, log, counters>>
  BY DEF vars
<1>2. UNCHANGED <<cells, cellsMedium, maxValid, allocated, committed, persisted, ops, runtimeOf,
                  state, appendOffset>>
  BY <1>1 DEF memory, timestamps, runtime
<1>3. /\ Published' = Published /\ Copied' = Copied /\ Durable' = Durable
  BY <1>2 DEF Published, Copied, Durable
<1>4. ASSUME NEW r \in allocated PROVE Laid(r)'
  <2>1. Laid(r) /\ LogEnd(r)' = LogEnd(r) /\ TailBound(r)' = TailBound(r)
    BY <1>1, <1>2, <1>4 DEF AllLaid, LogEnd, EntryEnd, TailBound
  <2>2. Tiled(r)' /\ Stores(r)'
    BY <1>1, <1>2, <2>1 DEF Laid, Tiled, Stores, EntryEnd, Start
  <2>3. Written(r)'
    BY <1>1, <1>2, <1>3, <2>1, ZenonT(30) DEF Laid, Written, WrittenAt, Header
  <2>4. Headed(r)'
    BY <1>1, <1>2, <1>3, <2>1 DEF Laid, Headed, HeadedAt, Header, DurableBefore
  <2>5. Ended(r)'
    BY <1>1, <1>2, <1>3, <2>1 DEF Laid, Ended, AllDurable
  <2> QED
    BY <2>2, <2>3, <2>4, <2>5 DEF Laid
<1>5. \A r : NotReady(r)' <=> NotReady(r)
  BY <1>2 DEF NotReady
<1>6. \A r : LogEnd(r)' = LogEnd(r)
  BY <1>1 DEF LogEnd, EntryEnd
<1>7. Offsets'
  BY <1>1, <1>2, <1>5, <1>6 DEF Offsets, Appends, Recovers
<1>8. Position' = Position /\ \A r, k : Start(r, k)' = Start(r, k)
  BY <1>1 DEF Position, Start, EntryEnd
<1>9. Reads'
  <2>1. Sees(loc[Reader].region) => Sees(loc[Reader].region)'
    BY <1>1, <1>2, <1>8 DEF Sees
  <2>2. Compares(loc[Reader].region) => Compares(loc[Reader].region)'
    BY <1>1, <1>2, <1>5 DEF Compares
  <2>3. HasLoaded(loc[Reader].region) => HasLoaded(loc[Reader].region)'
    BY <1>1, <1>2, <1>8 DEF HasLoaded, IsNext
  <2> QED
    BY <1>1, <1>2, <1>5, <1>8, <2>1, <2>2, <2>3 DEF Reads
<1> QED
  BY <1>2, <1>4, <1>7, <1>9 DEF AllLaid

\* Each step of a recovery.
LEMMA RecheckStateAllLaid ==
  ASSUME HistoryIInv, RuntimeIInv', AllLaid, Reads, SplitCells = {}, NEW a \in Actors,
         RecheckState(a)
  PROVE  AllLaid'
<1>1. CASE UNCHANGED <<cells, cellsMedium>>
  BY <1>1, ActorLaid
<1>2. CASE /\ state[loc[a].runtime] = "read_ready"
           /\ ClearSpan(loc[a].region, IF a = Reader THEN loc[a].offset ELSE TailOf(loc[a].region))
  <2>0. PICK r : r = loc[a].region
    OBVIOUS
  <2>1. pc[a] = "recheck"
    BY DEF RecheckState
  <2>2. (IF a = Reader THEN loc[a].offset ELSE TailOf(r)) = LogEnd(r) /\ r \in Regions
    BY <1>2, <2>0, <2>1, RecheckTail
  <2>3. ClearSpan(r, LogEnd(r))
    BY <1>2, <2>0, <2>2
  <2> QED
    BY <2>0, <2>2, <2>3, RecheckStateLaid
<1> QED
  BY <1>1, <1>2 DEF RecheckState

LEMMA SetMaxValidAllLaid ==
  ASSUME HistoryIInv, RuntimeIInv', AllLaid, Offsets, NEW a \in Actors, SetMaxValid(a)
  PROVE  AllLaid'
<1>1. Recovers(a)
  BY DEF Offsets
<1>2. PICK r : r = loc[a].region
  OBVIOUS
<1>3. PICK p : p = <<r, LogEnd(r)>>
  OBVIOUS
<1> QED
  BY <1>1, <1>2, <1>3, SetMaxValidLaid

LEMMA LayoutSteps ==
  ASSUME SplitCells = {}, LayoutIInv, [Next]_vars
  PROVE  LayoutIInv'
<1>0. /\ HistoryIInv /\ RuntimeIInv /\ History /\ AllLaid /\ Offsets /\ Reads
      /\ HistoryIInv' /\ RuntimeIInv'
  <2>1. HistoryIInv /\ Layout /\ Reads
    BY DEF LayoutIInv
  <2>2. HistoryIInv'
    BY <2>1, HistorySteps
  <2> QED
    BY <2>1, <2>2 DEF HistoryIInv, Layout, AllLaid, Offsets
<1> SUFFICES AllLaid' /\ Offsets' /\ Reads'
  BY <1>0 DEF LayoutIInv, Layout, AllLaid, Offsets
<1>1. CASE UNCHANGED vars
  BY <1>0, <1>1, LayoutStutters
<1>2. ASSUME NEW r \in Regions, AppendBegin(r) \/ Write(r) \/ MarkRegion(r)
      PROVE  AllLaid' /\ Offsets' /\ Reads'
  <2>1. CASE AppendBegin(r)
    <3>1. AllLaid'
      BY <1>0, <2>1, WriterLaid
    <3>2. Offsets'
      BY <1>0, <2>1, WriterOffsets
    <3>3. Reads'
      BY <1>0, <2>1, WriterReads
    <3> QED
      BY <3>1, <3>2, <3>3
  <2>2. CASE Reserve(r)
    BY <1>0, <2>2, WriterLaid, ReserveOffsets, WriterReads
  <2>3. CASE AcquireTimestamp(r)
    <3>1. r \in Actors /\ pc[r] \in Writing
      BY <2>3, Constants DEF AcquireTimestamp, Writing
    <3>2. r \in allocated
      BY <1>0, <3>1, OfTheActor
    <3>3. Appends(r)
      BY <1>0, <3>2 DEF Offsets
    <3>4. AllLaid' /\ LogEnd(r)' = LogEnd(r) + loc[r].size + 1
      BY <1>0, <2>3, <3>3, AcquireLaid
    <3> QED
      BY <1>0, <2>3, <3>4, AcquireOffsets, AcquireReads
  <2>4. CASE ClearNext(r)
    BY <1>0, <2>4, ClearNextLaid, StoringOffsets, WriterReads
  <2>5. CASE StoreTimestamp(r) \/ StoreSpan(r)
    BY <1>0, <2>5, StoreHeaderLaid, StoringOffsets, WriterReads
  <2>6. CASE Publish(r)
    <3>1. AllLaid'
      BY <1>0, <2>6, PublishLaid
    <3>2. Offsets'
      BY <1>0, <2>6, WriterOffsets
    <3>3. Reads'
      BY <1>0, <2>6, WriterReads
    <3> QED
      BY <3>1, <3>2, <3>3
  <2>7. CASE MarkRegion(r)
    BY <1>0, <2>7, IdleLaid, PipelineOffsets, PipelineReads
  <2> QED
    BY <1>2, <2>1, <2>2, <2>3, <2>4, <2>5, <2>6, <2>7 DEF Write
<1>3. ASSUME NEW r \in Regions, Free(r) \/ RemoveRuntime(r) \/ Allocate(r)
      PROVE  AllLaid' /\ Offsets' /\ Reads'
  <2>1. Reads'
    BY <1>0, <1>3, RegionReads
  <2>2. CASE Free(r)
    BY <1>0, <2>1, <2>2, WriterLaid, FreeOffsets
  <2>3. CASE RemoveRuntime(r)
    BY <1>0, <2>1, <2>3, WriterLaid, WriterOffsets
  <2>4. CASE Allocate(r)
    BY <1>0, <2>1, <2>4, AllocateLaid, AllocateOffsets
  <2> QED
    BY <1>3, <2>2, <2>3, <2>4
<1>4. ASSUME NEW a \in Actors, GetOrCreate(a) \/ Recover(a)
      PROVE  AllLaid' /\ Offsets' /\ Reads'
  <2>1. Reads'
    BY <1>0, <1>4, ActorReads, ReaderSearches, ReaderRecovers
  <2>2. CASE GetOrCreate(a) \/ Initialize(a) \/ Lock(a)
    BY <1>0, <2>1, <2>2, ActorLaid, ActorOffsets
  <2>3. CASE RecheckState(a)
    BY <1>0, <2>1, <2>3, RecheckStateAllLaid, RecheckStateOffsets
  <2>4. CASE SetMaxValid(a)
    BY <1>0, <2>1, <2>4, SetMaxValidAllLaid, SetMaxValidOffsets
  <2>5. CASE WriteReady(a)
    BY <1>0, <2>1, <2>5, ActorLaid, WriteReadyOffsets
  <2> QED
    BY <1>4, <2>2, <2>3, <2>4, <2>5 DEF Recover
<1>5. CASE Read
  <2>1. AllLaid' /\ Offsets'
    BY <1>0, <1>5, ActorLaid, ReadOffsets
  <2>2. Reads'
    BY <1>0, <1>5, ReadBeginReads, LoadCommittedReads, LoadMaxValidReads, LoadSpanReads,
       LoadTimestampReads DEF Read
  <2> QED
    BY <2>1, <2>2
<1>6. ASSUME NEW op \in ops, CopyDone(op) \/ ProcessOp(op) \/ Commit(op)
      PROVE  AllLaid' /\ Offsets' /\ Reads'
  <2>1. Offsets'
    BY <1>0, <1>6, PipelineOffsets
  <2>2. PICK r : r = op.region
    OBVIOUS
  <2>3. CASE CopyDone(op)
    BY <1>0, <2>1, <2>2, <2>3, CopyDoneLaid, CopyDoneReads
  <2>4. CASE ProcessOp(op)
    BY <1>0, <2>1, <2>2, <2>4, ProcessOpLaid, PipelineReads
  <2>5. CASE Commit(op)
    BY <1>0, <2>1, <2>5, IdleLaid, PipelineReads
  <2> QED
    BY <1>6, <2>3, <2>4, <2>5
<1>7. CASE RecordPersisted \/ Opened
  <2>1. PICK x : x = 0
    OBVIOUS
  <2> QED
    BY <1>0, <1>7, <2>1, IdleLaid, PipelineOffsets, PipelineReads
<1>8. CASE Crash
  BY <1>0, <1>8, CrashLaid, CrashOffsets, CrashReads
<1> QED
  BY <1>1, <1>2, <1>3, <1>4, <1>5, <1>6, <1>7, <1>8 DEF Next

-----------------------------------------------------------------------------
(* Theorems                                                                *)

\* In every reachable state, whatever the constants are, provided that no header straddles
\* two cache lines: the entries of a region lie behind each other, their headers and
\* payloads are stored, and on the medium, as far as their operations got, nothing valid
\* lies behind them, the next entry goes there, and an iterator has seen the log so far.
\* (Run log_split_header shows that the proviso is needed.)
THEOREM LayoutInvariant ==
  ASSUME SplitCells = {}
  PROVE  Spec => []LayoutIInv
<1>1. Init => LayoutIInv
  BY HistoryInit, LayoutInit DEF LayoutIInv
<1>2. LayoutIInv /\ [Next]_vars => LayoutIInv'
  BY LayoutSteps
<1> QED
  BY <1>1, <1>2, PTL DEF Spec

LEMMA LaidOut == LayoutIInv => HistoryIInv /\ AllLaid /\ Offsets /\ Reads
  BY DEF LayoutIInv, Layout, AllLaid, Offsets

\* What a reader finds in a region is what was appended to it and committed: nothing is
\* missing, reordered or corrupted, nothing uncommitted is visible, and nothing comes back
\* after any power failures or when the region was freed and allocated again.
THEOREM VisibleIsTheCommittedLog ==
  ASSUME SplitCells = {}
  PROVE  Spec => []VisibleIsCommittedLog
<1>1. LayoutIInv => VisibleIsCommittedLog
  <2> SUFFICES ASSUME LayoutIInv, NEW r \in allocated PROVE Scan(r) = Upto(log[r], committed)
    BY DEF VisibleIsCommittedLog
  <2>1. HistoryIInv /\ Laid(r)
    BY LaidOut DEF AllLaid
  <2> QED
    BY <2>1, VisibleIs
<1> QED
  BY <1>1, LayoutInvariant, PTL

\* The next append goes behind the entries appended so far, whoever found that place: the
\* writer that recovered the region, or an iterator that came to its end without the lock.
THEOREM AppendOffsetIsTheTail ==
  ASSUME SplitCells = {}
  PROVE  Spec => []AppendOffsetIsTail
<1>1. LayoutIInv => AppendOffsetIsTail
  <2> SUFFICES ASSUME LayoutIInv, NEW r \in allocated, runtimeOf[r] # Nobody,
                      state[runtimeOf[r]] = "write_ready", pc[r] # "acquire"
               PROVE  appendOffset[runtimeOf[r]] = Length(log[r])
    BY DEF AppendOffsetIsTail
  <2>1. HistoryIInv /\ Appends(r) /\ ~NotReady(r)
    BY LaidOut DEF Offsets, NotReady
  <2>2. appendOffset[runtimeOf[r]] = LogEnd(r)
    BY <2>1 DEF Appends
  <2>3. log[r] \in Seq(Entries)
    BY <2>1, StateTypes DEF HistoryIInv, RuntimeIInv
  <2>4. log[r] = << >> <=> Len(log[r]) = 0
    BY <2>3
  <2> QED
    BY <2>2, <2>4 DEF Length, LogEnd, EntryEnd, Last
<1> QED
  BY <1>1, LayoutInvariant, PTL

\* What an iterator returned so far is the beginning of that log, although it reads word by
\* word while entries are appended, committed, and the region is recovered.
THEOREM IteratorSeesTheLog ==
  ASSUME SplitCells = {}
  PROVE  Spec => []IteratorSeesLog
<1>1. LayoutIInv => IteratorSeesLog
  <2> SUFFICES ASSUME LayoutIInv, pc[Reader] # "idle"
               PROVE  IsPrefix(loc[Reader].seen, Upto(log[loc[Reader].region], committed))
    BY DEF IteratorSeesLog
  <2>0. PICK r : r = loc[Reader].region
    OBVIOUS
  <2>1. HistoryIInv /\ AllLaid /\ Reads
    BY LaidOut
  <2>2. /\ r \in allocated /\ r \in Regions /\ Laid(r) /\ Sees(r) /\ Len(log[r]) \in Nat
        /\ Len(loc[Reader].seen) \in Nat /\ Types /\ Reader \in Actors
    BY <2>0, <2>1, ReaderIn
  <2> DEFINE s == loc[Reader].seen
             m == Len(s)
  <2>3. s \in Seq(Entries) /\ log[r] \in Seq(Entries) /\ m \in Nat
    BY <2>2, StateTypes DEF Locals
  <2>4. PICK n : CommittedTo(r, n) /\ Scan(r) = SubSeq(log[r], 1, n)
                 /\ Upto(log[r], committed) = Scan(r) /\ TailOf(r) = Start(r, n + 1)
    BY <2>1, <2>2, VisibleIs
  <2>5. n \in 0 .. Len(log[r]) /\ n \in Nat
        /\ \A k \in 1 .. Len(log[r]) : log[r][k].timestamp <= committed => k <= n
    BY <2>2, <2>4 DEF CommittedTo
  <2>6. m <= Len(log[r]) /\ \A k \in 1 .. m : s[k] = log[r][k] /\ log[r][k].timestamp <= committed
    BY <2>2 DEF Sees
  <2> HIDE DEF m, s
  <2>7. m <= n
    <3>1. CASE m = 0
      BY <2>5, <3>1
    <3>2. CASE m # 0
      <4>1. m \in 1 .. m /\ m \in 1 .. Len(log[r])
        BY <2>2, <2>3, <2>6, <3>2
      <4> QED
        BY <2>5, <2>6, <4>1
    <3> QED
      BY <3>1, <3>2
  <2>8. LET u == SubSeq(log[r], 1, n) IN u \in Seq(Entries) /\ Len(u) = n /\ \A k \in 1 .. n : u[k] = log[r][k]
    BY <2>2, <2>3, <2>5
  <2> DEFINE u == SubSeq(log[r], 1, n)
  <2>9. u \in Seq(Entries) /\ Len(u) = n /\ \A k \in 1 .. n : u[k] = log[r][k]
    BY <2>8
  <2> HIDE DEF u
  <2>10. \A k \in 1 .. m : s[k] = u[k]
    <3>1. \A k \in 1 .. m : k \in 1 .. n
      BY <2>3, <2>5, <2>7
    <3> QED
      BY <2>6, <2>9, <3>1
  <2>11. SubSeq(s, 1, m) = SubSeq(u, 1, m)
    <3>1. SubSeq(s, 1, m) = [k \in 1 .. m |-> s[k]] /\ SubSeq(u, 1, m) = [k \in 1 .. m |-> u[k]]
      BY <2>3, <2>5, <2>7, <2>9 DEF m
    <3> QED
      BY <2>10, <3>1
  <2>12. IsPrefix(s, u)
    BY <2>7, <2>9, <2>11 DEF IsPrefix, m
  <2> QED
    BY <2>0, <2>4, <2>12 DEF s, u
<1> QED
  BY <1>1, LayoutInvariant, PTL

-----------------------------------------------------------------------------
(* The regions implement LogSpec                                           *)

\* A sequence whose timestamps grow, and how many of its entries are not after n.
Grow(s) == \A j, k \in 1 .. Len(s) : j < k => s[j].timestamp < s[k].timestamp
CutAt(s, n, m) == m \in 0 .. Len(s) /\ \A k \in 1 .. Len(s) : s[k].timestamp <= n <=> k <= m

\* What Upto returns, from the number of entries it lets through.
LEMMA CutIs ==
  ASSUME NEW s \in Seq(Entries), Grow(s), NEW n \in Nat, NEW m, CutAt(s, n, m)
  PROVE  /\ Upto(s, n) = SubSeq(s, 1, m) /\ Len(Upto(s, n)) = m /\ m \in Nat
         /\ \A i \in 1 .. m : Upto(s, n)[i] = s[i]
         /\ Upto(s, n) \in Seq(Entries)
<1>1. PICK c \in 0 .. Len(s) :
        /\ Upto(s, n) = SubSeq(s, 1, c) /\ Len(Upto(s, n)) = c
        /\ \A i \in 1 .. c : Upto(s, n)[i] = s[i]
        /\ \A k \in 1 .. Len(s) : s[k].timestamp <= n <=> k <= c
  BY UptoCut DEF Grow
<1>2. Len(s) \in Nat /\ m \in 0 .. Len(s) /\ \A k \in 1 .. Len(s) : k <= c <=> k <= m
  BY <1>1 DEF CutAt
<1>3. c = m
  <2>1. \A x, y, z \in Nat : x <= z /\ y <= z /\ (\A k \in 1 .. z : k <= x <=> k <= y) => ~(x < y)
    <3> SUFFICES ASSUME NEW x \in Nat, NEW y \in Nat, NEW z \in Nat, x <= z, y <= z,
                        \A k \in 1 .. z : k <= x <=> k <= y, x < y
                 PROVE  FALSE
      OBVIOUS
    <3>1. y \in 1 .. z
      OBVIOUS
    <3> QED
      BY <3>1
  <2>2. c \in Nat /\ m \in Nat /\ c <= Len(s) /\ m <= Len(s)
    BY <1>2
  <2>3. ~(c < m) /\ ~(m < c)
    BY <1>2, <2>1, <2>2
  <2> QED
    BY <2>2, <2>3
<1>4. SubSeq(s, 1, m) \in Seq(Entries)
  BY <1>2
<1> QED
  BY <1>1, <1>2, <1>3, <1>4

LEMMA HasCut ==
  ASSUME NEW s \in Seq(Entries), Grow(s), NEW n \in Nat
  PROVE  \E m : CutAt(s, n, m)
<1>1. \E m \in 0 .. Len(s) : \A k \in 1 .. Len(s) : s[k].timestamp <= n <=> k <= m
  BY UptoCut DEF Grow
<1> QED
  BY <1>1 DEF CutAt

LEMMA SameUpto ==
  ASSUME NEW s \in Seq(Entries), Grow(s), NEW n \in Nat, NEW t \in Seq(Entries), Grow(t),
         NEW p \in Nat, NEW m, CutAt(s, n, m), CutAt(t, p, m), \A k \in 1 .. m : s[k] = t[k]
  PROVE  Upto(s, n) = Upto(t, p)
<1> DEFINE u == Upto(s, n)
           v == Upto(t, p)
<1>1. /\ u \in Seq(Entries) /\ Len(u) = m /\ m \in Nat /\ \A i \in 1 .. m : u[i] = s[i]
      /\ v \in Seq(Entries) /\ Len(v) = m /\ \A i \in 1 .. m : v[i] = t[i]
  BY CutIs
<1> HIDE DEF u, v
<1>2. \A i \in 1 .. m : u[i] = v[i]
  BY <1>1
<1>3. u = v
  BY <1>1, <1>2, SeqEqual
<1> QED
  BY <1>3 DEF u, v

LEMMA LogGrows ==
  ASSUME HistoryIInv, NEW r \in Regions
  PROVE  /\ log[r] \in Seq(Entries) /\ Grow(log[r]) /\ committed \in Nat /\ persisted \in Nat
         /\ next \in Nat /\ Len(log[r]) \in Nat /\ persisted <= committed /\ committed < next
         /\ \A k \in 1 .. Len(log[r]) : log[r][k].timestamp \in Nat
  BY StateTypes, LogTypes DEF HistoryIInv, RuntimeIInv, History, LogTimes, Grow, Counted

\* What LogSpec calls visible.
Shown(r) == IF r \in allocated THEN Scan(r) ELSE << >>

ShowsCommitted == \A r \in Regions : Shown(r) = Upto(log[r], committed)

LEMMA ShownIs == LayoutIInv => ShowsCommitted
<1> SUFFICES ASSUME LayoutIInv, NEW r \in Regions PROVE Shown(r) = Upto(log[r], committed)
  BY DEF ShowsCommitted
<1>1. HistoryIInv /\ AllLaid
  BY LaidOut
<1>2. CASE r \in allocated
  <2>1. Upto(log[r], committed) = Scan(r)
    BY <1>1, <1>2, VisibleIs DEF AllLaid
  <2> QED
    BY <1>2, <2>1 DEF Shown
<1>3. CASE r \notin allocated
  <2>1. log[r] = << >>
    BY <1>1, <1>3 DEF HistoryIInv, History, LogTimes
  <2>2. /\ log[r] \in Seq(Entries) /\ Grow(log[r]) /\ committed \in Nat
    BY <1>1, LogGrows
  <2>3. PICK m : CutAt(log[r], committed, m)
    BY <2>2, HasCut
  <2>4. Upto(log[r], committed) = SubSeq(log[r], 1, m) /\ Len(Upto(log[r], committed)) = m
        /\ Upto(log[r], committed) \in Seq(Entries)
    BY <2>2, <2>3, CutIs
  <2>5. m = 0
    BY <2>1, <2>3 DEF CutAt
  <2>6. \A s \in Seq(Entries) : Len(s) = 0 => s = << >>
    OBVIOUS
  <2>7. Upto(log[r], committed) = << >>
    BY <2>4, <2>5, <2>6
  <2> QED
    BY <1>3, <2>7 DEF Shown
<1> QED
  BY <1>2, <1>3

LEMMA AbstractStill ==
  ASSUME \A r \in Regions : Shown(r)' = Shown(r), UNCHANGED <<committed, persisted>>
  PROVE  [Abstract!Next]_(Abstract!vars)
  BY DEF Abstract!vars, Shown

\* The operators of the two modules are the same.
LEMMA UptoAgrees ==
  ASSUME NEW s, NEW n
  PROVE  Abstract!Upto(s, n) = Upto(s, n)
<1>1. \A S : Abstract!Cardinality(S) = Cardinality(S)
  BY DEF Abstract!Cardinality, Cardinality
<1> QED
  BY <1>1 DEF Upto, Abstract!Upto

\* A new entry is not visible yet.
LEMMA AcquireShows ==
  ASSUME HistoryIInv, HistoryIInv', NEW w \in Regions, AcquireTimestamp(w), NEW r \in Regions
  PROVE  Upto(log[r], committed)' = Upto(log[r], committed)
<1>1. RuntimeIInv
  BY DEF HistoryIInv
<1>2. /\ Len(log'[w]) = Len(log[w]) + 1 /\ log'[w][Len(log[w]) + 1].timestamp = next
      /\ \A k \in 1 .. Len(log[w]) : log'[w][k] = log[w][k]
      /\ \A q \in Regions : q # w => log'[q] = log[q]
      /\ committed' = committed
  BY <1>1, AcquireEffect
<1>3. CASE r # w
  BY <1>2, <1>3 DEF Upto
<1>4. CASE r = w
  <2>1. /\ log[w] \in Seq(Entries) /\ Grow(log[w]) /\ committed \in Nat /\ committed < next
        /\ Len(log[w]) \in Nat /\ next \in Nat
    BY LogGrows
  <2>2. log'[w] \in Seq(Entries) /\ Grow(log'[w])
    BY DEF HistoryIInv, RuntimeIInv, Types, ActorTypes, History, LogTimes, Grow
  <2>3. PICK m : CutAt(log[w], committed, m)
    BY <2>1, HasCut
  <2>4. m \in 0 .. Len(log[w]) /\ \A k \in 1 .. Len(log[w]) : log[w][k].timestamp <= committed <=> k <= m
    BY <2>3 DEF CutAt
  <2>5. ASSUME NEW k \in 1 .. Len(log'[w]) PROVE log'[w][k].timestamp <= committed <=> k <= m
    <3>1. CASE k = Len(log[w]) + 1
      <4>1. ~(next <= committed) /\ ~(Len(log[w]) + 1 <= m)
        BY <2>1, <2>4
      <4> QED
        BY <1>2, <3>1, <4>1
    <3>2. CASE k \in 1 .. Len(log[w])
      BY <1>2, <2>4, <3>2
    <3> QED
      BY <1>2, <2>1, <3>1, <3>2
  <2>6. m \in 0 .. Len(log'[w])
    BY <1>2, <2>1, <2>4
  <2>7. CutAt(log'[w], committed, m)
    BY <2>5, <2>6 DEF CutAt
  <2>8. \A k \in 1 .. m : log[w][k] = log'[w][k]
    BY <1>2, <2>1, <2>4
  <2>9. Upto(log[w], committed) = Upto(log'[w], committed)
    BY <2>1, <2>2, <2>3, <2>7, <2>8, SameUpto
  <2>10. Upto(log[r], committed)' = Upto(log'[w], committed)
    BY <1>2, <1>4 DEF Upto
  <2> QED
    BY <1>4, <2>9, <2>10
<1> QED
  BY <1>3, <1>4

\* Committing shows the next entry of its region, and of no other.
LEMMA CommitShows ==
  ASSUME HistoryIInv, NEW op \in ops, Commit(op), NEW r, r = op.region
  PROVE  /\ r \in Regions /\ committed' = committed + 1 /\ persisted' = persisted
         /\ \A q \in Regions \ {r} : Upto(log[q], committed)' = Upto(log[q], committed)
         /\ LET u == Upto(log[r], committed)
            IN  /\ Len(u') = Len(u) + 1 /\ SubSeq(u', 1, Len(u') - 1) = u
                /\ u'[Len(u')].timestamp = committed'
<1>1. RuntimeIInv /\ History
  BY DEF HistoryIInv
<1>2. log' = log /\ committed' = committed + 1 /\ op.timestamp = committed + 1 /\ persisted' = persisted
  BY DEF Commit
<1>3. /\ r \in Regions
      /\ \E k \in 1 .. Len(log[r]) :
           /\ log[r][k].timestamp = op.timestamp /\ log[r][k].offset = op.offset
           /\ Len(log[r][k].payload) = op.size
           /\ \A j \in 1 .. op.size : log[r][k].payload[j] = op.append
      /\ \A q \in Regions : \A m \in 1 .. Len(log[q]) :
           log[q][m].timestamp = op.timestamp => q = r
  BY <1>1, OpEntry
<1>4. ASSUME NEW q \in Regions
      PROVE  Upto(log[q], committed)' = Upto(log[q], committed + 1)
  BY <1>2 DEF Upto
<1>5. committed \in Nat /\ committed + 1 \in Nat
  BY <1>3, LogGrows
<1>6. ASSUME NEW q \in Regions \ {r}
      PROVE  Upto(log[q], committed)' = Upto(log[q], committed)
  <2>1. /\ log[q] \in Seq(Entries) /\ Grow(log[q]) /\ Len(log[q]) \in Nat
        /\ \A k \in 1 .. Len(log[q]) : log[q][k].timestamp \in Nat
    BY LogGrows
  <2>2. PICK m : CutAt(log[q], committed, m)
    BY <1>5, <2>1, HasCut
  <2>3. \A k \in 1 .. Len(log[q]) : log[q][k].timestamp # committed + 1
    BY <1>2, <1>3
  <2>4. \A k \in 1 .. Len(log[q]) : log[q][k].timestamp <= committed + 1 <=> log[q][k].timestamp <= committed
    BY <1>5, <2>1, <2>3
  <2>5. CutAt(log[q], committed + 1, m)
    BY <2>2, <2>4 DEF CutAt
  <2>6. Upto(log[q], committed + 1) = Upto(log[q], committed)
    BY <1>5, <2>1, <2>2, <2>5, SameUpto
  <2> QED
    BY <1>4, <2>6
<1>7. /\ log[r] \in Seq(Entries) /\ Grow(log[r]) /\ Len(log[r]) \in Nat
      /\ \A k \in 1 .. Len(log[r]) : log[r][k].timestamp \in Nat
  BY <1>3, LogGrows
<1>8. PICK k \in 1 .. Len(log[r]) : log[r][k].timestamp = committed + 1
  BY <1>2, <1>3
<1>9. \A j \in 1 .. Len(log[r]) :
        (j < k => log[r][j].timestamp < committed + 1) /\ (k < j => committed + 1 < log[r][j].timestamp)
  BY <1>7, <1>8 DEF Grow
<1>10. k \in Nat /\ k - 1 \in Nat /\ k >= 1 /\ k <= Len(log[r])
  BY <1>7
<1>11. \A j \in 1 .. Len(log[r]) :
         /\ log[r][j].timestamp <= committed <=> j <= k - 1
         /\ log[r][j].timestamp <= committed + 1 <=> j <= k
  <2> SUFFICES ASSUME NEW j \in 1 .. Len(log[r])
               PROVE  /\ log[r][j].timestamp <= committed <=> j <= k - 1
                      /\ log[r][j].timestamp <= committed + 1 <=> j <= k
    OBVIOUS
  <2>1. log[r][j].timestamp \in Nat /\ j \in Nat
    BY <1>7
  <2>2. CASE j < k
    <3>1. log[r][j].timestamp < committed + 1
      BY <1>9, <2>2
    <3> QED
      BY <1>5, <1>10, <2>1, <2>2, <3>1
  <2>3. CASE j = k
    BY <1>5, <1>8, <1>10, <2>1, <2>3
  <2>4. CASE k < j
    <3>1. committed + 1 < log[r][j].timestamp
      BY <1>9, <2>4
    <3> QED
      BY <1>5, <1>10, <2>1, <2>4, <3>1
  <2> QED
    BY <1>10, <2>1, <2>2, <2>3, <2>4
<1>12. CutAt(log[r], committed, k - 1) /\ CutAt(log[r], committed + 1, k)
  <2>1. k - 1 \in 0 .. Len(log[r]) /\ k \in 0 .. Len(log[r])
    BY <1>7, <1>10
  <2> QED
    BY <1>11, <2>1 DEF CutAt
<1> DEFINE u == Upto(log[r], committed)
           v == Upto(log[r], committed + 1)
<1>13. PICK m : m = k - 1
  OBVIOUS
<1>14. /\ u \in Seq(Entries) /\ Len(u) = k - 1 /\ \A i \in 1 .. k - 1 : u[i] = log[r][i]
       /\ v \in Seq(Entries) /\ Len(v) = k /\ \A i \in 1 .. k : v[i] = log[r][i]
  <2>1. CutAt(log[r], committed, m)
    BY <1>13, <1>12
  <2>2. u \in Seq(Entries) /\ Len(u) = m /\ \A i \in 1 .. m : u[i] = log[r][i]
    BY <1>5, <1>7, <2>1, CutIs
  <2>3. v \in Seq(Entries) /\ Len(v) = k /\ \A i \in 1 .. k : v[i] = log[r][i]
    <3>1. PICK c : c = committed + 1
      OBVIOUS
    <3>2. CutAt(log[r], c, k) /\ c \in Nat
      BY <1>5, <1>12, <3>1
    <3>3. /\ Upto(log[r], c) \in Seq(Entries) /\ Len(Upto(log[r], c)) = k
          /\ \A i \in 1 .. k : Upto(log[r], c)[i] = log[r][i]
      BY <1>7, <3>2, CutIs
    <3> QED
      BY <3>1, <3>3
  <2> HIDE DEF u, v
  <2> QED
    BY <1>13, <2>2, <2>3
<1>15. Upto(log[r], committed)' = v
  BY <1>3, <1>4
<1> HIDE DEF u, v
<1>16. SubSeq(v, 1, Len(v) - 1) = u
  <2>1. SubSeq(v, 1, k - 1) \in Seq(Entries) /\ Len(SubSeq(v, 1, k - 1)) = k - 1
        /\ \A i \in 1 .. k - 1 : SubSeq(v, 1, k - 1)[i] = v[i]
    BY <1>10, <1>14
  <2>2. \A i \in 1 .. k - 1 : v[i] = u[i]
    BY <1>10, <1>14
  <2> QED
    BY <1>14, <2>1, <2>2, SeqEqual
<1>17. Len(v) = Len(u) + 1 /\ v[Len(v)].timestamp = committed + 1
  <2>1. k \in 1 .. k
    BY <1>10
  <2> QED
    BY <1>8, <1>10, <1>14, <2>1
<1> QED
  BY <1>2, <1>3, <1>6, <1>15, <1>16, <1>17 DEF u

\* A power failure leaves what is visible up to the persisted timestamp.
LEMMA CrashShows ==
  ASSUME HistoryIInv, Crash, NEW r \in Regions
  PROVE  /\ Upto(log[r], committed)' = Upto(Upto(log[r], committed), persisted)
         /\ committed' = persisted /\ persisted' = persisted
<1>1. log'[r] = Upto(log[r], persisted) /\ committed' = persisted /\ persisted' = persisted
  BY DEF Crash
<1>2. /\ log[r] \in Seq(Entries) /\ Grow(log[r]) /\ committed \in Nat /\ persisted \in Nat
      /\ persisted <= committed /\ Len(log[r]) \in Nat
      /\ \A k \in 1 .. Len(log[r]) : log[r][k].timestamp \in Nat
  BY LogGrows
<1>3. PICK c : CutAt(log[r], committed, c)
  BY <1>2, HasCut
<1>4. PICK p : CutAt(log[r], persisted, p)
  BY <1>2, HasCut
<1> DEFINE u == Upto(log[r], committed)
           v == Upto(log[r], persisted)
<1>5. /\ u \in Seq(Entries) /\ Len(u) = c /\ c \in Nat /\ \A i \in 1 .. c : u[i] = log[r][i]
      /\ v \in Seq(Entries) /\ Len(v) = p /\ p \in Nat /\ \A i \in 1 .. p : v[i] = log[r][i]
  BY <1>2, <1>3, <1>4, CutIs
<1>6. /\ c <= Len(log[r]) /\ p <= Len(log[r])
      /\ \A k \in 1 .. Len(log[r]) : log[r][k].timestamp <= committed <=> k <= c
      /\ \A k \in 1 .. Len(log[r]) : log[r][k].timestamp <= persisted <=> k <= p
  BY <1>2, <1>3, <1>4 DEF CutAt
<1> HIDE DEF u, v
<1>7. p <= c
  <2>1. CASE p = 0
    BY <1>5, <2>1
  <2>2. CASE p # 0
    <3>1. p \in 1 .. Len(log[r]) /\ p <= p
      BY <1>2, <1>5, <1>6, <2>2
    <3>2. log[r][p].timestamp <= persisted /\ log[r][p].timestamp \in Nat
      BY <1>2, <1>6, <3>1
    <3>3. log[r][p].timestamp <= committed
      BY <1>2, <3>2
    <3> QED
      BY <1>6, <3>1, <3>3
  <2> QED
    BY <2>1, <2>2
<1>8. /\ \A k \in 1 .. c : k \in 1 .. Len(log[r]) /\ u[k] = log[r][k]
      /\ \A k \in 1 .. p : k \in 1 .. Len(log[r]) /\ v[k] = log[r][k]
  BY <1>2, <1>5, <1>6
<1>9. Grow(u) /\ Grow(v)
  BY <1>2, <1>5, <1>8 DEF Grow
<1>10. CutAt(u, persisted, p) /\ CutAt(v, persisted, p)
  <2>1. p \in 0 .. Len(u) /\ p \in 0 .. Len(v)
    BY <1>5, <1>7
  <2>2. \A k \in 1 .. Len(u) : u[k].timestamp <= persisted <=> k <= p
    BY <1>5, <1>6, <1>8
  <2>3. \A k \in 1 .. Len(v) : v[k].timestamp <= persisted <=> k <= p
    BY <1>5, <1>6, <1>8
  <2> QED
    BY <2>1, <2>2, <2>3 DEF CutAt
<1>11. \A k \in 1 .. p : v[k] = u[k]
  <2>1. \A k \in 1 .. p : k \in 1 .. c
    BY <1>5, <1>7
  <2> QED
    BY <1>8, <2>1
<1>12. Upto(v, persisted) = Upto(u, persisted)
  BY <1>2, <1>5, <1>9, <1>10, <1>11, SameUpto
<1>13. Upto(log[r], committed)' = Upto(v, persisted)
  BY <1>1 DEF Upto, v
<1> QED
  BY <1>1, <1>12, <1>13 DEF u

LEMMA AbstractInit == Init => Abstract!Init
<1> SUFFICES ASSUME Init PROVE Abstract!Init
  OBVIOUS
<1>1. LayoutIInv
  BY HistoryInit, LayoutInit DEF LayoutIInv
<1>2. \A r \in Regions : Shown(r) = << >>
  <2> SUFFICES ASSUME NEW r \in Regions PROVE Shown(r) = << >>
    OBVIOUS
  <2>1. Shown(r) = Upto(log[r], committed) /\ HistoryIInv
    BY <1>1, ShownIs DEF LayoutIInv, ShowsCommitted
  <2>2. log[r] = << >> /\ Len(log[r]) = 0
    BY DEF Init
  <2>3. log[r] \in Seq(Entries) /\ Grow(log[r]) /\ committed \in Nat
    BY <2>1, LogGrows
  <2>4. CutAt(log[r], committed, 0)
    BY <2>2 DEF CutAt
  <2>5. Upto(log[r], committed) \in Seq(Entries) /\ Len(Upto(log[r], committed)) = 0
    BY <2>3, <2>4, CutIs
  <2>6. \A s \in Seq(Entries) : Len(s) = 0 => s = << >>
    OBVIOUS
  <2> QED
    BY <2>1, <2>5, <2>6
<1>3. committed = 0 /\ persisted = 0
  BY DEF Init
<1> QED
  BY <1>2, <1>3 DEF Abstract!Init, Shown

LEMMA AbstractCommit ==
  ASSUME HistoryIInv, NEW op \in ops, Commit(op),
         \A q \in Regions : Shown(q) = Upto(log[q], committed),
         \A q \in Regions : Shown(q)' = Upto(log[q], committed)'
  PROVE  Abstract!Commit
<1>1. PICK r : r = op.region
  OBVIOUS
<1> DEFINE u == Upto(log[r], committed)
<1>2. /\ r \in Regions /\ committed' = committed + 1 /\ persisted' = persisted
      /\ \A q \in Regions \ {r} : Upto(log[q], committed)' = Upto(log[q], committed)
      /\ Len(u') = Len(u) + 1 /\ SubSeq(u', 1, Len(u') - 1) = u
      /\ u'[Len(u')].timestamp = committed'
  BY <1>1, CommitShows
<1>3. Shown(r) = u /\ Shown(r)' = u'
  BY <1>2
<1> HIDE DEF u
<1>4. /\ \A q \in Regions \ {r} : Shown(q)' = Shown(q)
      /\ Len(Shown(r)') = Len(Shown(r)) + 1
      /\ SubSeq(Shown(r)', 1, Len(Shown(r)') - 1) = Shown(r)
      /\ Shown(r)'[Len(Shown(r)')].timestamp = committed'
  BY <1>2, <1>3
<1> QED
  BY <1>2, <1>4 DEF Abstract!Commit, Abstract!Front, Abstract!Last, Shown

LEMMA AbstractSteps ==
  ASSUME LayoutIInv, LayoutIInv', ShowsCommitted, ShowsCommitted', [Next]_vars
  PROVE  [Abstract!Next]_(Abstract!vars)
<1>0. /\ HistoryIInv /\ HistoryIInv'
      /\ \A q \in Regions : Shown(q) = Upto(log[q], committed)
      /\ \A q \in Regions : Shown(q)' = Upto(log[q], committed)'
  BY DEF LayoutIInv, ShowsCommitted
<1>1. ASSUME UNCHANGED <<log, committed, persisted>> PROVE [Abstract!Next]_(Abstract!vars)
  <2>1. \A q \in Regions : Upto(log[q], committed)' = Upto(log[q], committed)
    BY <1>1 DEF Upto
  <2> QED
    BY <1>0, <1>1, <2>1, AbstractStill
<1>2. CASE UNCHANGED vars
  BY <1>1, <1>2 DEF vars, timestamps
<1>3. ASSUME NEW r \in Regions, AppendBegin(r) \/ Write(r) \/ MarkRegion(r)
      PROVE  [Abstract!Next]_(Abstract!vars)
  <2>1. CASE AcquireTimestamp(r)
    <3>1. \A q \in Regions : Upto(log[q], committed)' = Upto(log[q], committed)
      BY <1>0, <2>1, AcquireShows
    <3>2. UNCHANGED <<committed, persisted>>
      BY <2>1 DEF AcquireTimestamp
    <3> QED
      BY <1>0, <3>1, <3>2, AbstractStill
  <2>2. CASE \/ AppendBegin(r) \/ Reserve(r) \/ ClearNext(r) \/ StoreTimestamp(r) \/ StoreSpan(r)
             \/ Publish(r) \/ MarkRegion(r)
    BY <1>1, <2>2 DEF AppendBegin, Reserve, ClearNext, StoreTimestamp, StoreSpan, StoreHeader,
                      Publish, MarkRegion, timestamps
  <2> QED
    BY <1>3, <2>1, <2>2 DEF Write
<1>4. ASSUME NEW r \in Regions, Free(r) \/ RemoveRuntime(r) \/ Allocate(r)
      PROVE  [Abstract!Next]_(Abstract!vars)
  <2>1. CASE RemoveRuntime(r) \/ Allocate(r)
    BY <1>1, <2>1 DEF RemoveRuntime, Allocate, timestamps
  <2>2. CASE Free(r)
    <3>1. /\ allocated' = allocated \ {r} /\ UNCHANGED <<committed, persisted>>
          /\ \A q \in Regions : q # r => log'[q] = log[q]
      BY <1>0, <2>2, StateTypes DEF Free, timestamps, HistoryIInv, RuntimeIInv
    <3>2. \A q \in Regions : q # r => Shown(q)' = Shown(q)
      BY <1>0, <3>1, ZenonT(30) DEF Upto
    <3>3. Shown(r)' = << >>
      BY <3>1 DEF Shown
    <3>4. Abstract!Release
      BY <3>1, <3>2, <3>3 DEF Abstract!Release, Shown
    <3> QED
      BY <3>4 DEF Abstract!Next
  <2> QED
    BY <1>4, <2>1, <2>2
<1>5. ASSUME NEW a \in Actors, GetOrCreate(a) \/ Recover(a)
      PROVE  [Abstract!Next]_(Abstract!vars)
  BY <1>1, <1>5 DEF GetOrCreate, LookUp, Create, CreateFails, Recover, Initialize, Lock,
                    RecheckState, SetMaxValid, WriteReady, timestamps
<1>6. CASE Read
  BY <1>1, <1>6 DEF Read, ReadBegin, LoadCommitted, LoadMaxValid, LoadSpan, LoadTimestamp, timestamps
<1>7. ASSUME NEW op \in ops, CopyDone(op) \/ ProcessOp(op) \/ Commit(op)
      PROVE  [Abstract!Next]_(Abstract!vars)
  <2>1. CASE CopyDone(op) \/ ProcessOp(op)
    BY <1>1, <2>1 DEF CopyDone, ProcessOp
  <2>2. CASE Commit(op)
    <3>1. Abstract!Commit
      BY <1>0, <2>2, AbstractCommit
    <3> QED
      BY <3>1 DEF Abstract!Next
  <2> QED
    BY <1>7, <2>1, <2>2
<1>8. CASE RecordPersisted
  <2>1. persisted < committed /\ persisted' = committed /\ UNCHANGED <<log, committed>>
    BY <1>8 DEF RecordPersisted
  <2>2. \A q \in Regions : Shown(q)' = Shown(q)
    BY <1>0, <2>1 DEF Upto
  <2>3. committed \in Nat
    BY <1>0, StateTypes DEF HistoryIInv, RuntimeIInv
  <2>4. persisted < persisted' /\ persisted' <= committed
    BY <2>1, <2>3
  <2>5. Abstract!Record
    BY <2>1, <2>2, <2>4 DEF Abstract!Record, Shown
  <2> QED
    BY <2>5 DEF Abstract!Next
<1>9. CASE Crash
  <2>1. /\ \A q \in Regions : Upto(log[q], committed)' = Upto(Upto(log[q], committed), persisted)
        /\ committed' = persisted /\ persisted' = persisted
    <3>1. committed' = persisted /\ persisted' = persisted
      BY <1>9 DEF Crash
    <3> QED
      BY <1>0, <1>9, <3>1, CrashShows
  <2>2. \A q \in Regions : Shown(q)' = Abstract!Upto(Shown(q), persisted)
    BY <1>0, <2>1, UptoAgrees
  <2>3. Abstract!PowerFailure
    BY <2>1, <2>2 DEF Abstract!PowerFailure, Shown
  <2> QED
    BY <2>3 DEF Abstract!Next
<1>10. CASE Opened
  BY <1>1, <1>10 DEF Opened, timestamps
<1> QED
  BY <1>2, <1>3, <1>4, <1>5, <1>6, <1>7, <1>8, <1>9, <1>10 DEF Next

\* What a reader may see changes only as LogSpec says: one entry at a time, in the order of
\* timestamps; a release takes a region away, and a power failure what was not persisted.
THEOREM RegionsRefineLog ==
  ASSUME SplitCells = {}
  PROVE  Spec => ImplementsLogSpec
<1>1. LayoutIInv /\ LayoutIInv' /\ ShowsCommitted /\ ShowsCommitted' /\ [Next]_vars
        => [Abstract!Next]_(Abstract!vars)
  BY AbstractSteps
<1> QED
  BY AbstractInit, ShownIs, <1>1, LayoutInvariant, PTL DEF Spec, ImplementsLogSpec, Abstract!Spec

-----------------------------------------------------------------------------
(* No timestamp, offset or payload leaves its range                        *)

CellsBounded == \A p \in Places : cellsMedium[p] \subseteq CellValues
MarksBounded == \A r \in Regions : maxValidMedium[r] \subseteq 0 .. Forever
OffsetsBounded == \A o \in Runtimes : appendOffset[o] \in (0 .. Capacity) \union {NoOffset}
Bounded == CellsBounded /\ MarksBounded /\ OffsetsBounded

LEMMA ValuesOf ==
  ASSUME Types, CellsBounded, NEW p \in Places
  PROVE  /\ cells[p] \in CellValues /\ [cells[p] EXCEPT !.span = Empty] \in CellValues
         /\ cells[p].payload \in 0 .. MaxAppends /\ cells[p].span \in 0 .. Capacity
<1>1. cells[p] \in CellValues
  BY DEF Types, CellTypes, CellsBounded
<1>2. Empty \in 0 .. Capacity
  BY Constants DEF Empty
<1> QED
  BY <1>1, <1>2 DEF CellValues

LEMMA NoCellValue == NoCell \in CellValues
<1>1. Empty \in 0 .. Capacity /\ 0 \in 0 .. MaxAppends
  BY Constants DEF Empty
<1> QED
  BY <1>1 DEF CellValues, NoCell

\* A place gets nothing but values in range.
CellsWithin == \A p \in Places : cellsMedium'[p] \subseteq cellsMedium[p] \union CellValues

LEMMA StoreWithin ==
  ASSUME Types, SplitCells = {}, NEW p \in Places, NEW c \in CellValues, StoreCell(p, c)
  PROVE  CellsWithin
<1>1. cellsMedium' = [cellsMedium EXCEPT ![p] = cellsMedium[p] \union {c}]
  BY DEF StoreCell, Stored
<1>2. DOMAIN cellsMedium = Places
  BY DEF Types, CellTypes
<1>3. \A q \in Places : cellsMedium'[q] = IF q = p THEN cellsMedium[p] \union {c} ELSE cellsMedium[q]
  BY <1>1, <1>2
<1> QED
  BY <1>3 DEF CellsWithin

LEMMA ClearWithin ==
  ASSUME Types, CellsBounded, SplitCells = {}, NEW r \in Regions, NEW i \in Nat, ClearSpan(r, i)
  PROVE  CellsWithin
<1>1. CASE i < Capacity
  <2>0. i \in 0 .. Capacity - 1
    BY <1>1, Constants
  <2>1. <<r, i>> \in Places
    BY <2>0 DEF Places
  <2>2. StoreCell(<<r, i>>, [cells[<<r, i>>] EXCEPT !.span = Empty])
    BY <1>1 DEF ClearSpan
  <2>3. [cells[<<r, i>>] EXCEPT !.span = Empty] \in CellValues
    BY <2>1, ValuesOf
  <2> QED
    BY <2>1, <2>2, <2>3, StoreWithin
<1>2. CASE ~(i < Capacity)
  BY <1>2 DEF ClearSpan, CellsWithin
<1> QED
  BY <1>1, <1>2

\* What is stored in a header: the writer's timestamp and size.
LEMMA HeaderWithin ==
  ASSUME HistoryIInv, AllLaid, CellsBounded, SplitCells = {}, NEW r \in Regions,
         ClearNext(r) \/ StoreTimestamp(r) \/ StoreSpan(r)
  PROVE  CellsWithin
<1>1. RuntimeIInv /\ Types /\ Counted /\ History /\ r \in Actors
  BY Constants DEF HistoryIInv, RuntimeIInv
<1>2. pc[r] \in Storing /\ pc[r] \in Writing
  BY DEF ClearNext, StoreTimestamp, StoreSpan, StoreHeader, Storing, Writing
<1>3. /\ Len(log[r]) \in 1 .. Len(log[r]) /\ log[r][Len(log[r])].timestamp = loc[r].timestamp
      /\ log[r][Len(log[r])].offset = loc[r].offset
  BY <1>1, <1>2, WriterStores
<1>4. loc[r].offset \in Nat /\ loc[r].size \in 0 .. Capacity /\ loc[r].timestamp \in Nat
  <2>1. loc[r] \in Locals
    BY <1>1, StateTypes
  <2> QED
    BY <2>1 DEF Locals
<1>5. loc[r].timestamp \in 0 .. MaxAppends
  <2>1. loc[r].timestamp < next
    BY <1>1, <1>3 DEF History, LogTimes
  <2>2. next <= MaxAppends + 1 /\ next \in Nat /\ MaxAppends \in Nat
    BY <1>1, BelowForever, StateTypes
  <2> QED
    BY <1>4, <2>1, <2>2
<1>6. loc[r].offset \in 0 .. Capacity - 1
  <2>1. r \in allocated /\ Laid(r)
    BY <1>1, <1>2, OfTheActor DEF AllLaid
  <2> QED
    BY <1>1, <1>3, <2>1, HeaderIndex DEF Laid
<1>7. CASE ClearNext(r)
  <2>1. PICK i \in Nat : i = loc[r].offset + loc[r].size + 1
    BY <1>4, Constants
  <2> QED
    BY <1>1, <1>7, <2>1, ClearWithin DEF ClearNext
<1>8. <<r, loc[r].offset>> \in Places
  BY <1>6 DEF Places
<1>9. CASE StoreTimestamp(r)
  <2>1. [cells[<<r, loc[r].offset>>] EXCEPT !.timestamp = loc[r].timestamp] \in CellValues
    BY <1>1, <1>5, <1>8, ValuesOf DEF CellValues
  <2>2. StoreCell(<<r, loc[r].offset>>, [cells[<<r, loc[r].offset>>] EXCEPT !.timestamp = loc[r].timestamp])
    BY <1>9 DEF StoreTimestamp, StoreHeader
  <2> QED
    BY <1>1, <1>8, <2>1, <2>2, StoreWithin
<1>10. CASE StoreSpan(r)
  <2>1. [cells[<<r, loc[r].offset>>] EXCEPT !.span = loc[r].size] \in CellValues
    BY <1>1, <1>4, <1>8, ValuesOf DEF CellValues
  <2>2. StoreCell(<<r, loc[r].offset>>, [cells[<<r, loc[r].offset>>] EXCEPT !.span = loc[r].size])
    BY <1>10 DEF StoreSpan, StoreHeader
  <2> QED
    BY <1>1, <1>8, <2>1, <2>2, StoreWithin
<1> QED
  BY <1>7, <1>9, <1>10

\* A recovery finds its tail in the region: TailOf, or the place of the iterator.
LEMMA RecheckBounds ==
  ASSUME HistoryIInv, AllLaid, Reads, NEW a \in Actors, RecheckState(a)
  PROVE  \/ UNCHANGED <<cellsMedium, appendOffset>>
         \/ \E r \in Regions, o \in Runtimes, tail \in 0 .. Capacity :
              /\ appendOffset' = [appendOffset EXCEPT ![o] = tail]
              /\ ClearSpan(r, tail)
<1>1. Types
  BY DEF HistoryIInv, RuntimeIInv
<1> DEFINE r == loc[a].region
           tail == IF a = Reader THEN loc[a].offset ELSE TailOf(r)
<1>2. CASE state[loc[a].runtime] = "read_ready"
  <2>1. /\ appendOffset' = [appendOffset EXCEPT ![loc[a].runtime] = tail] /\ ClearSpan(r, tail)
        /\ pc[a] = "recheck"
    BY <1>2 DEF RecheckState
  <2>2. tail = LogEnd(r) /\ r \in allocated /\ r \in Regions /\ loc[a].runtime \in Runtimes
    BY <1>2, <2>1, RecheckTail
  <2>3. LogEnd(r) \in 0 .. Capacity
    <3> HIDE DEF r
    <3>1. Tiled(r)
      BY <2>2 DEF AllLaid, Laid
    <3>2. LogEnd(r) \in Nat /\ LogEnd(r) <= Capacity
      BY <1>1, <2>2, <3>1, Geometry
    <3> QED
      BY <3>2, Constants
  <2> HIDE DEF r, tail
  <2> QED
    BY <2>1, <2>2, <2>3
<1>3. CASE state[loc[a].runtime] # "read_ready"
  BY <1>3 DEF RecheckState
<1> QED
  BY <1>2, <1>3

LEMMA CopyDoneWithin ==
  ASSUME HistoryIInv, SplitCells = {}, NEW op \in ops, CopyDone(op)
  PROVE  CellsWithin
<1>1. op.append \in 0 .. MaxAppends
  <2>1. InFlight(op) /\ Types
    BY DEF HistoryIInv, History, RuntimeIInv
  <2>2. op.append \in Nat
    BY <2>1, StateTypes DEF Operations
  <2> QED
    BY <2>1, <2>2, Constants DEF InFlight
<1>2. 1 \in 0 .. Capacity
  BY Constants
<1>3. PayloadCell(op.append) \in CellValues
  <2>1. CASE MaxAppends = 0
    <3>1. 1 <= op.append
      BY DEF HistoryIInv, History, InFlight
    <3> QED
      BY <1>1, <2>1, <3>1
  <2>2. CASE MaxAppends # 0
    <3>1. 1 \in 0 .. MaxAppends
      BY <2>2, Constants
    <3> QED
      BY <1>1, <1>2, <3>1 DEF PayloadCell, CellValues
  <2> QED
    BY <2>1, <2>2
<1>4. \A p \in Places : \/ cellsMedium'[p] = cellsMedium[p]
                        \/ cellsMedium'[p] = cellsMedium[p] \union {PayloadCell(op.append)}
  BY DEF CopyDone, Stored
<1> QED
  BY <1>3, <1>4 DEF CellsWithin

LEMMA CellsKept ==
  ASSUME LayoutIInv, CellsBounded, SplitCells = {}, [Next]_vars
  PROVE  CellsBounded'
<1>0. HistoryIInv /\ AllLaid /\ Reads /\ Types
  BY LaidOut DEF HistoryIInv, RuntimeIInv
<1>1. ASSUME CellsWithin PROVE CellsBounded'
  BY <1>1 DEF CellsWithin, CellsBounded
<1>2. ASSUME UNCHANGED cellsMedium PROVE CellsBounded'
  BY <1>2 DEF CellsBounded
<1>3. CASE UNCHANGED vars
  BY <1>2, <1>3 DEF vars, memory
<1>4. ASSUME NEW r \in Regions, AppendBegin(r) \/ Write(r) \/ MarkRegion(r) PROVE CellsBounded'
  <2>1. CASE ClearNext(r) \/ StoreTimestamp(r) \/ StoreSpan(r)
    BY <1>0, <1>1, <2>1, HeaderWithin
  <2>2. CASE AppendBegin(r) \/ Reserve(r) \/ AcquireTimestamp(r) \/ Publish(r) \/ MarkRegion(r)
    BY <1>2, <2>2 DEF AppendBegin, Reserve, AcquireTimestamp, Publish, MarkRegion, memory
  <2> QED
    BY <1>4, <2>1, <2>2 DEF Write
<1>5. ASSUME NEW r \in Regions, Free(r) \/ RemoveRuntime(r) \/ Allocate(r) PROVE CellsBounded'
  <2>1. CASE Free(r) \/ RemoveRuntime(r)
    BY <1>2, <2>1 DEF Free, RemoveRuntime, memory
  <2>2. CASE Allocate(r)
    <3>1. cellsMedium' = [cellsMedium EXCEPT ![<<r, 0>>] = {NoCell}]
      BY <2>2 DEF Allocate
    <3>2. \A p \in Places : cellsMedium'[p] = cellsMedium[p] \/ cellsMedium'[p] = {NoCell}
      BY <1>0, <3>1 DEF Types, CellTypes
    <3> QED
      BY <1>1, <3>2, NoCellValue DEF CellsWithin
  <2> QED
    BY <1>5, <2>1, <2>2
<1>6. ASSUME NEW a \in Actors, GetOrCreate(a) \/ Recover(a) PROVE CellsBounded'
  <2>1. CASE RecheckState(a)
    <3>1. CASE UNCHANGED <<cellsMedium, appendOffset>>
      BY <1>2, <3>1
    <3>2. ASSUME NEW r \in Regions, NEW tail \in 0 .. Capacity, ClearSpan(r, tail)
          PROVE  CellsBounded'
      <4>1. tail \in Nat
        BY Constants
      <4> QED
        BY <1>0, <1>1, <3>2, <4>1, ClearWithin
    <3> QED
      BY <1>0, <2>1, <3>1, <3>2, RecheckBounds
  <2>2. CASE SetMaxValid(a)
    <3>1. \A p \in Places : cellsMedium'[p] = cellsMedium[p] \/ cellsMedium'[p] = {cells[p]}
      BY <1>0, <2>2 DEF SetMaxValid, Types, CellTypes
    <3> QED
      BY <1>0, <1>1, <3>1, ValuesOf DEF CellsWithin
  <2>3. CASE \/ LookUp(a) \/ Create(a) \/ CreateFails(a) \/ Initialize(a) \/ Lock(a)
             \/ WriteReady(a)
    BY <1>2, <2>3 DEF LookUp, Create, CreateFails, Initialize, Lock, WriteReady, memory
  <2> QED
    BY <1>6, <2>1, <2>2, <2>3 DEF GetOrCreate, Recover
<1>7. CASE Read
  BY <1>2, <1>7 DEF Read, ReadBegin, LoadCommitted, LoadMaxValid, LoadSpan, LoadTimestamp, memory
<1>8. ASSUME NEW op \in ops, CopyDone(op) \/ ProcessOp(op) \/ Commit(op) PROVE CellsBounded'
  <2>1. CASE CopyDone(op)
    BY <1>0, <1>1, <2>1, CopyDoneWithin
  <2>2. CASE ProcessOp(op)
    <3>1. \A p \in Places : cellsMedium'[p] = cellsMedium[p] \/ cellsMedium'[p] = {cells[p]}
      BY <2>2 DEF ProcessOp
    <3> QED
      BY <1>0, <1>1, <3>1, ValuesOf DEF CellsWithin
  <2>3. CASE Commit(op)
    BY <1>2, <2>3 DEF Commit, memory
  <2> QED
    BY <1>8, <2>1, <2>2, <2>3
<1>9. CASE RecordPersisted \/ Opened
  BY <1>2, <1>9 DEF RecordPersisted, Opened, memory
<1>10. CASE Crash
  <2>1. \A p \in Places : cellsMedium'[p] = {cells'[p]} /\ cells'[p] \in cellsMedium[p]
    BY <1>0, <1>10, CrashOutcome DEF Crash
  <2> QED
    BY <1>1, <2>1 DEF CellsWithin
<1> QED
  BY <1>3, <1>4, <1>5, <1>6, <1>7, <1>8, <1>9, <1>10 DEF Next

\* max_valid_timestamp is UINT64_MAX or a timestamp the stream was opened with.
LEMMA MarksKept ==
  ASSUME LayoutIInv, MarksBounded, [Next]_vars
  PROVE  MarksBounded'
<1>0. HistoryIInv /\ Types /\ Forever \in Nat /\ RuntimeIInv
  BY LaidOut, Constants DEF HistoryIInv, RuntimeIInv
<1>1. maxValidMedium \in [Regions -> SUBSET Nat] /\ \A r \in Regions : maxValid[r] \in 0 .. Forever
  BY <1>0, StateTypes DEF MarksBounded
<1>2. ASSUME \A r \in Regions : maxValidMedium'[r] \subseteq maxValidMedium[r] \union 0 .. Forever
      PROVE  MarksBounded'
  BY <1>2 DEF MarksBounded
<1>3. CASE UNCHANGED maxValidMedium
  BY <1>2, <1>3
<1>4. ASSUME NEW r \in Regions, MarkRegion(r) PROVE MarksBounded'
  <2>1. persisted \in 0 .. Forever
    BY <1>0, BelowForever, StateTypes DEF HistoryIInv
  <2>2. maxValidMedium' = [maxValidMedium EXCEPT ![r] = @ \union {persisted}]
    BY <1>4 DEF MarkRegion
  <2> QED
    BY <1>1, <1>2, <2>1, <2>2
<1>5. ASSUME NEW r \in Regions, Allocate(r) PROVE MarksBounded'
  <2>1. maxValidMedium' = [maxValidMedium EXCEPT ![r] = {Forever}]
    BY <1>5 DEF Allocate
  <2> QED
    BY <1>0, <1>1, <1>2, <2>1
<1>6. ASSUME NEW a \in Actors, SetMaxValid(a) \/ WriteReady(a) PROVE MarksBounded'
  <2>1. \/ maxValidMedium' = [maxValidMedium EXCEPT ![loc[a].region] = @ \union {Forever}]
        \/ maxValidMedium' = [maxValidMedium EXCEPT ![loc[a].region] = {maxValid[loc[a].region]}]
    BY <1>6 DEF SetMaxValid, WriteReady
  <2>2. loc[a].region \in Regions
    <3>1. pc[a] \in Locked
      BY <1>6 DEF SetMaxValid, WriteReady, Locked
    <3> QED
      BY <1>0, <3>1, OfTheActor
  <2> QED
    BY <1>0, <1>1, <1>2, <2>1, <2>2
<1>7. CASE Opened
  BY <1>1, <1>2, <1>7 DEF Opened
<1>8. CASE Crash
  <2>1. \A r \in Regions : maxValidMedium'[r] = {maxValid'[r]} /\ maxValid'[r] \in maxValidMedium[r]
    BY <1>0, <1>8, CrashOutcome DEF Crash
  <2> QED
    BY <1>2, <2>1
<1>9. CASE UNCHANGED vars
  BY <1>3, <1>9 DEF vars, memory
<1>10. ASSUME NEW r \in Regions,
              AppendBegin(r) \/ Write(r) \/ MarkRegion(r) \/ Free(r) \/ RemoveRuntime(r) \/ Allocate(r)
       PROVE  MarksBounded'
  <2>1. CASE \/ AppendBegin(r) \/ Reserve(r) \/ AcquireTimestamp(r) \/ ClearNext(r)
             \/ StoreTimestamp(r) \/ StoreSpan(r) \/ Publish(r) \/ Free(r) \/ RemoveRuntime(r)
    BY <1>3, <2>1 DEF AppendBegin, Reserve, AcquireTimestamp, ClearNext, StoreTimestamp, StoreSpan,
                      StoreHeader, Publish, Free, RemoveRuntime, memory
  <2> QED
    BY <1>4, <1>5, <1>10, <2>1 DEF Write
<1>11. ASSUME NEW a \in Actors, GetOrCreate(a) \/ Recover(a) PROVE MarksBounded'
  <2>1. CASE \/ LookUp(a) \/ Create(a) \/ CreateFails(a) \/ Initialize(a) \/ Lock(a)
             \/ RecheckState(a)
    BY <1>3, <2>1 DEF LookUp, Create, CreateFails, Initialize, Lock, RecheckState, memory
  <2> QED
    BY <1>6, <1>11, <2>1 DEF GetOrCreate, Recover
<1>12. CASE Read
  BY <1>3, <1>12 DEF Read, ReadBegin, LoadCommitted, LoadMaxValid, LoadSpan, LoadTimestamp, memory
<1>13. ASSUME NEW op \in ops, CopyDone(op) \/ ProcessOp(op) \/ Commit(op) PROVE MarksBounded'
  BY <1>3, <1>13 DEF CopyDone, ProcessOp, Commit, memory
<1>14. CASE RecordPersisted
  BY <1>3, <1>14 DEF RecordPersisted, memory
<1> QED
  BY <1>7, <1>8, <1>9, <1>10, <1>11, <1>12, <1>13, <1>14 DEF Next

\* A reservation checks that the entry fits, so no offset passes the end of the region.
LEMMA OffsetsKept ==
  ASSUME LayoutIInv, OffsetsBounded, [Next]_vars
  PROVE  OffsetsBounded'
<1>0. HistoryIInv /\ AllLaid /\ Reads /\ Types /\ RuntimeIInv
  BY LaidOut DEF HistoryIInv, RuntimeIInv
<1>1. appendOffset \in [Runtimes -> Nat]
  BY <1>0 DEF Types, RuntimeTypes
<1>2. ASSUME \A o \in Runtimes : \/ appendOffset'[o] = appendOffset[o]
                                 \/ appendOffset'[o] \in (0 .. Capacity) \union {NoOffset}
      PROVE  OffsetsBounded'
  BY <1>2 DEF OffsetsBounded
<1>3. CASE UNCHANGED appendOffset
  BY <1>2, <1>3
<1>4. ASSUME NEW r \in Regions, Reserve(r) PROVE OffsetsBounded'
  <2> DEFINE o == loc[r].runtime
             n == appendOffset[o] + loc[r].size + 1
  <2>1. CASE ~Fits(o, loc[r].size)
    BY <1>3, <1>4, <2>1 DEF Reserve
  <2>2. CASE Fits(o, loc[r].size)
    <3>1. appendOffset' = [appendOffset EXCEPT ![o] = n] /\ n <= Capacity /\ pc[r] = "reserve"
      BY <1>4, <2>2 DEF Reserve, Fits
    <3>2. o \in Runtimes
      <4>1. pc[r] \in HasRuntime /\ r \in Actors
        BY <3>1, Constants DEF HasRuntime, Writing
      <4> QED
        BY <1>0, <4>1, Before
    <3>3. loc[r].size \in Nat
      <4>1. loc[r] \in Locals
        BY <1>0, StateTypes
      <4> QED
        BY <4>1, Constants DEF Locals
    <3>4. n \in 0 .. Capacity
      BY <1>1, <3>1, <3>2, <3>3, Constants
    <3> HIDE DEF o, n
    <3> QED
      BY <1>1, <1>2, <3>1, <3>2, <3>4
  <2> QED
    BY <2>1, <2>2
<1>5. ASSUME NEW a \in Actors, RecheckState(a) PROVE OffsetsBounded'
  <2>1. CASE UNCHANGED <<cellsMedium, appendOffset>>
    BY <1>3, <2>1
  <2>2. ASSUME NEW o \in Runtimes, NEW tail \in 0 .. Capacity,
               appendOffset' = [appendOffset EXCEPT ![o] = tail]
        PROVE  OffsetsBounded'
    BY <1>1, <1>2, <2>2
  <2> QED
    BY <1>0, <1>5, <2>1, <2>2, RecheckBounds
<1>6. ASSUME NEW r \in Regions, RemoveRuntime(r) PROVE OffsetsBounded'
  BY <1>2, <1>6 DEF RemoveRuntime
<1>7. CASE Crash
  BY <1>2, <1>7 DEF Crash
<1>8. CASE UNCHANGED vars
  BY <1>3, <1>8 DEF vars, runtime
<1>9. ASSUME NEW r \in Regions,
             AppendBegin(r) \/ Write(r) \/ MarkRegion(r) \/ Free(r) \/ RemoveRuntime(r) \/ Allocate(r)
      PROVE  OffsetsBounded'
  <2>1. CASE \/ AppendBegin(r) \/ AcquireTimestamp(r) \/ ClearNext(r) \/ StoreTimestamp(r)
             \/ StoreSpan(r) \/ Publish(r) \/ MarkRegion(r) \/ Free(r) \/ Allocate(r)
    BY <1>3, <2>1 DEF AppendBegin, AcquireTimestamp, ClearNext, StoreTimestamp, StoreSpan,
                      StoreHeader, Publish, MarkRegion, Free, Allocate, runtime
  <2> QED
    BY <1>4, <1>6, <1>9, <2>1 DEF Write
<1>10. ASSUME NEW a \in Actors, GetOrCreate(a) \/ Recover(a) PROVE OffsetsBounded'
  <2>1. CASE \/ LookUp(a) \/ Create(a) \/ CreateFails(a) \/ Initialize(a) \/ Lock(a)
             \/ SetMaxValid(a) \/ WriteReady(a)
    BY <1>3, <2>1 DEF LookUp, Create, CreateFails, Initialize, Lock, SetMaxValid, WriteReady, runtime
  <2> QED
    BY <1>5, <1>10, <2>1 DEF GetOrCreate, Recover
<1>11. CASE Read
  BY <1>3, <1>11 DEF Read, ReadBegin, LoadCommitted, LoadMaxValid, LoadSpan, LoadTimestamp, runtime
<1>12. ASSUME NEW op \in ops, CopyDone(op) \/ ProcessOp(op) \/ Commit(op) PROVE OffsetsBounded'
  BY <1>3, <1>12 DEF CopyDone, ProcessOp, Commit, runtime
<1>13. CASE RecordPersisted \/ Opened
  BY <1>3, <1>13 DEF RecordPersisted, Opened, runtime
<1> QED
  BY <1>7, <1>8, <1>9, <1>10, <1>11, <1>12, <1>13 DEF Next

LEMMA BoundedInit == Init => Bounded
<1> SUFFICES ASSUME Init PROVE Bounded
  OBVIOUS
<1>1. /\ \A p \in Places : cellsMedium[p] = {NoCell}
      /\ \A r \in Regions : maxValidMedium[r] = {Forever}
      /\ \A o \in Runtimes : appendOffset[o] = NoOffset
  BY DEF Init
<1>2. Forever \in 0 .. Forever
  BY Constants
<1> QED
  BY <1>1, <1>2, NoCellValue DEF Bounded, CellsBounded, MarksBounded, OffsetsBounded

\* Every variable of the log has its type: no header holds a timestamp that was not
\* given out, no entry reaches beyond its region and no append offset leaves it.
THEOREM LogTypesHold ==
  ASSUME SplitCells = {}
  PROVE  Spec => []TypeOK
<1>1. LayoutIInv /\ Bounded /\ [Next]_vars => Bounded'
  BY CellsKept, MarksKept, OffsetsKept DEF Bounded
<1>2. LayoutIInv /\ Bounded => TypeOK
  <2> SUFFICES ASSUME LayoutIInv, Bounded PROVE TypeOK
    OBVIOUS
  <2>1. Types /\ Counted
    BY DEF LayoutIInv, HistoryIInv, RuntimeIInv
  <2>2. cells \in [Places -> CellValues]
    <3>1. \A p \in Places : cells[p] \in CellValues
      BY <2>1, ValuesOf DEF Bounded
    <3>2. cells \in [Places -> Cell]
      BY <2>1 DEF Types, CellTypes
    <3> QED
      BY <3>1, <3>2
  <2>3. maxValid \in [Regions -> 0 .. Forever]
    <3>1. maxValid \in [Regions -> Nat] /\ \A r \in Regions : maxValid[r] \in maxValidMedium[r]
      BY <2>1 DEF Types, RegionTypes
    <3>2. \A r \in Regions : maxValid[r] \in 0 .. Forever
      BY <3>1 DEF Bounded, MarksBounded
    <3> QED
      BY <3>1, <3>2
  <2>4. appendOffset \in [Runtimes -> (0 .. Capacity) \union {NoOffset}]
    <3>1. appendOffset \in [Runtimes -> Nat]
      BY <2>1 DEF Types, RuntimeTypes
    <3> QED
      BY <3>1 DEF Bounded, OffsetsBounded
  <2>5. /\ runtimeOf \in [Regions -> Runtimes \union {Nobody}]
        /\ state \in [Runtimes -> {"none", "read_ready", "write_ready"}]
        /\ lock \in [Runtimes -> Actors \union {Nobody}] /\ allocated \subseteq Regions
    BY <2>1 DEF Types, RuntimeTypes, RegionTypes
  <2>6. persisted <= committed /\ committed < next
    BY <2>1 DEF Counted
  <2> QED
    BY <2>2, <2>3, <2>4, <2>5, <2>6 DEF TypeOK, Bounded, CellsBounded, MarksBounded
<1> QED
  BY BoundedInit, <1>1, <1>2, LayoutInvariant, PTL DEF Spec

=============================================================================
