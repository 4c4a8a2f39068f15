--------------------------- MODULE SqwReaderProofs ---------------------------
(***************************************************************************)
(* sqw_reader on any file, with buffers of any size, with and without its  *)
(* read thread: every bin asked for is returned, and both buffers hold     *)
(* what they are said to hold.                                             *)
(***************************************************************************)
EXTENDS SqwReader, WellFoundedInduction, TLAPS

\* A set of numbers has a least one.
LEMMA LeastOfNats ==
  ASSUME NEW S \in SUBSET Nat, S # {}
  PROVE  \E x \in S : \A y \in S : x <= y
<1>1. PICK x \in S : \A y \in S : ~ (<<y, x>> \in OpToRel(<, Nat))
  BY WFMin, NatLessThanWellFounded
<1>2. \A y \in S : ~ (y < x)
  BY <1>1 DEF OpToRel
<1> QED
  BY <1>2

\* A finite set of numbers has a greatest one, its Max.
LEMMA MaxOfNats ==
  ASSUME NEW S \in SUBSET Nat, S # {}, NEW n \in Nat, \A x \in S : x <= n
  PROVE  Max(S) \in S /\ \A y \in S : Max(S) >= y
<1> DEFINE T == {m \in 0..n : n - m \in S}
<1>1. T \in SUBSET Nat
  OBVIOUS
<1>2. \A x \in S : x \in Nat /\ n - x \in 0..n /\ n - (n - x) = x
  OBVIOUS
<1>3. \A x \in S : n - x \in T
  BY <1>2
<1>4. PICK t \in T : \A y \in T : t <= y
  BY <1>1, <1>3, LeastOfNats
<1>5. n - t \in S /\ \A y \in S : n - t >= y
  BY <1>2, <1>3, <1>4
<1> QED
  BY <1>5 DEF Max

\* A file is the positions its bins begin at.
LEMMA FileFacts ==
  ASSUME NEW file \in Files
  PROVE  /\ file \in [0..NumBins -> Nat] /\ file[0] = 0
         /\ \A a, b \in 0..NumBins : a <= b => file[a] <= file[b]
         /\ NumBins \in Nat /\ NumBins > 0
BY FilesAssumption

\* Every bin ends where the next one begins, inside the file.
LEMMA NpixFacts ==
  ASSUME NEW file \in Files, NEW b \in Bins
  PROVE  /\ file[b] \in Nat /\ NpixOf(file, b) \in Nat
         /\ file[b] + NpixOf(file, b) = file[b + 1]
         /\ file[b + 1] <= file[NumBins] /\ file[NumBins] \in Nat
<1>1. b \in 0..NumBins /\ b + 1 \in 0..NumBins /\ NumBins \in 0..NumBins
  BY FilesAssumption DEF Bins
<1> QED
  BY <1>1, FileFacts DEF NpixOf, PixIn

\* The pixels of whole bins that fit n pixels are those of one bin at least and
\* none behind the end of the file; more than n only if one bin alone has them.
LEMMA WholeBinsFacts ==
  ASSUME NEW file \in Files, NEW b \in Bins, NEW n \in Nat
  PROVE  LET w == WholeBins(file, b, n)
         IN  /\ w \in Nat /\ NpixOf(file, b) <= w
             /\ file[b] + w <= file[NumBins]
             /\ w <= n \/ w = NpixOf(file, b)
<1>1. CASE NpixOf(file, b) >= n
  BY <1>1, NpixFacts DEF WholeBins
<1>2. CASE NpixOf(file, b) < n
  <2> DEFINE K == {j \in (b + 1)..NumBins : PixIn(file, b, j) <= n}
             S == {PixIn(file, b, k) : k \in K}
  <2>1. \A k \in K : /\ PixIn(file, b, k) \in Nat /\ NpixOf(file, b) <= PixIn(file, b, k)
                     /\ file[b] + PixIn(file, b, k) <= file[NumBins]
    <3> SUFFICES ASSUME NEW k \in K
                 PROVE  /\ PixIn(file, b, k) \in Nat
                        /\ NpixOf(file, b) <= PixIn(file, b, k)
                        /\ file[b] + PixIn(file, b, k) <= file[NumBins]
      OBVIOUS
    <3>1. /\ b \in 0..NumBins /\ b + 1 \in 0..NumBins /\ k \in 0..NumBins
          /\ NumBins \in 0..NumBins /\ b + 1 <= k /\ k <= NumBins
      BY FilesAssumption DEF Bins
    <3>2. file[b] <= file[b + 1] /\ file[b + 1] <= file[k] /\ file[k] <= file[NumBins]
      BY <3>1, FileFacts
    <3> QED
      BY <3>1, <3>2, FileFacts DEF PixIn, NpixOf
  <2>2. b + 1 \in K
    <3>1. b \in Nat /\ b + 1 <= NumBins /\ NumBins \in Nat
      BY FilesAssumption DEF Bins
    <3>2. b + 1 \in (b + 1)..NumBins
      BY <3>1
    <3>3. PixIn(file, b, b + 1) <= n
      BY <1>2, NpixFacts DEF NpixOf
    <3> QED  BY <3>2, <3>3
  <2>3. S \in SUBSET Nat /\ S # {} /\ \A x \in S : x <= n
    BY <2>1, <2>2
  <2>4. Max(S) \in S /\ Max(S) <= n
    <3> HIDE DEF S
    <3> QED  BY <2>3, MaxOfNats
  <2>5. WholeBins(file, b, n) = Max(S)
    BY <1>2, NpixFacts DEF WholeBins
  <2> HIDE DEF K
  <2> QED
    BY <2>1, <2>4, <2>5
<1> QED
  BY <1>1, <1>2, NpixFacts

(***************************************************************************)
(* The invariant.                                                          *)
(***************************************************************************)
Active == cpc \notin {"idle", "finish", "join", "finished"}
Ending == cpc \in {"finish", "join", "finished"}
Reading == cpc \in {"query", "take", "miss"}

\* Which places go with the read thread, and what it means to be there.
PlaceInv ==
  /\ ~HasThread => tpc = "ended"
  /\ Reading \/ Ending \/ cpc = "manual" => HasThread
  /\ cpc = "read" => ~HasThread
  /\ HasThread /\ ~Ending => ~pix_read_job_completed
  /\ tpc = "reading" /\ ~Ending => ~pix_read
  /\ cpc \in {"take", "miss"} => pix_read
  /\ cpc = "take" => ThreadHoldsBin

\* What the caller asks for is a bin of the file, and its memory has the size.
CallInv ==
  /\ mode.access # "random" /\ Active => cur = call.bin + 1
  /\ Active => /\ call.start = start[call.bin] /\ call.num = NpixOf(start, call.bin)
               /\ Len(out) = call.num
               /\ cpc \notin {"lookup", "return"} => call.num > 0
  /\ cpc = "return" => \A i \in 1..call.num : out[i] = call.start + i - 1

\* Reading directly, what is claimed lies before every bin still to come.
DirectInv ==
  Direct =>
    /\ buf_pix_end <= start[cur]
    /\ cpc \in {"lookup", "update", "read"} => buf_pix_end <= call.start
    /\ cpc = "copy" => \A i \in 1..call.num : out[i] = call.start + i - 1

\* The pixels to read are the bin's at least and all in the file; they are more
\* than the buffer has room for only if the bin alone is.
FitInv ==
  Reading \/ cpc = "read" =>
    /\ num_pix_to_read >= call.num /\ call.start + num_pix_to_read <= nPixInFile
    /\ num_pix_to_read = call.num \/ (~Direct /\ num_pix_to_read <= Len(pix_buffer))

CacheInv ==
  ~Direct =>
    /\ cpc = "manual" => Len(pix_buffer) >= call.num
    /\ cpc # "manual" =>
         /\ buf_pix_end - npix_in_buf_start <= Len(pix_buffer)
         /\ \A p \in npix_in_buf_start..(buf_pix_end - 1) :
              pix_buffer[p - npix_in_buf_start + 1] = p
    /\ cpc = "copy" =>
         \A i \in 1..call.num :
           pix_buffer[call.start - npix_in_buf_start + i] = call.start + i - 1

\* The buffers have one size, but for the one the thread's grows to when the bin
\* alone does not fit.
SizeInv ==
  HasThread =>
    \/ Len(thread_pix_buffer) = Len(pix_buffer)
    \/ Reading /\ Len(thread_pix_buffer) > Len(pix_buffer) /\ Len(thread_pix_buffer) = call.num

\* What the thread has read is in the file, and it has read as much as the
\* caller's buffer takes unless the file ends.
DataInv ==
  HasThread =>
    /\ n_first_threadbuf_pix <= nPixInFile
    /\ pix_read /\ ~pix_read_job_completed =>
         /\ num_treadbuf_pix <= Len(thread_pix_buffer)
         /\ n_first_threadbuf_pix + num_treadbuf_pix <= nPixInFile
         /\ \/ num_treadbuf_pix >= Len(pix_buffer)
            \/ n_first_threadbuf_pix + num_treadbuf_pix = nPixInFile
         /\ \A i \in 1..num_treadbuf_pix :
              thread_pix_buffer[i] = n_first_threadbuf_pix + i - 1

IInv ==
  /\ TypeOK /\ PlaceInv /\ CallInv /\ DirectInv /\ FitInv /\ CacheInv /\ SizeInv /\ DataInv

(***************************************************************************)
(* Memory.                                                                 *)
(***************************************************************************)
LEMMA Fixed ==
  ASSUME [Next]_vars
  PROVE  /\ mode' = mode /\ start' = start
         /\ HasThread' = HasThread /\ Direct' = Direct /\ nPixInFile' = nPixInFile
<1>1. mode' = mode /\ start' = start
  BY DEF Next, vars, Call, Methods, Lookup, Copy, Return, FitBins, ReadDirectly, ReadBuffer,
         QueryThread, TakeHit, TakeMiss, ReadMissed, FinishNotify, FinishJoin, FinishSet,
         Job, JobLoop, JobTest, JobBlock, JobRelock, JobRead, JobEnd, JobSpurious, Finished,
         callerVars
<1> QED
  BY <1>1 DEF HasThread, Direct, nPixInFile

\* A file has a number of pixels.
LEMMA FileSize ==
  ASSUME start \in Files
  PROVE  /\ nPixInFile \in Nat
         /\ \A b \in Bins : /\ start[b] \in Nat /\ NpixOf(start, b) \in Nat
                            /\ start[b] + NpixOf(start, b) <= nPixInFile
<1>1. NumBins \in 0..NumBins
  BY FilesAssumption
<1> QED
  BY <1>1, FileFacts, NpixFacts DEF nPixInFile

LEMMA Cell ==
  ASSUME NEW buf \in Memory, NEW i \in 1..Len(buf)
  PROVE  buf[i] \in Nat \cup {NoPix}
BY DEF Memory

\* Memory is what is defined place by place.
LEMMA MadeOf ==
  ASSUME NEW n \in Nat, NEW f \in [1..n -> Nat \cup {NoPix}]
  PROVE  f \in Memory /\ Len(f) = n
BY DEF Memory

LEMMA BlankFacts ==
  ASSUME NEW n \in Nat
  PROVE  Blank(n) \in Memory /\ Len(Blank(n)) = n
BY MadeOf DEF Blank

\* vector::resize keeps the elements there is still room for.
LEMMA ResizeFacts ==
  ASSUME NEW buf \in Memory, NEW n \in Nat
  PROVE  /\ Resize(buf, n) \in Memory /\ Len(Resize(buf, n)) = n
         /\ \A i \in 1..n : i <= Len(buf) => Resize(buf, n)[i] = buf[i]
<1>1. Len(buf) \in Nat
  BY DEF Memory
<1>2. \A i \in 1..n : (IF i <= Len(buf) THEN buf[i] ELSE NoPix) \in Nat \cup {NoPix}
  BY <1>1, Cell
<1>3. Resize(buf, n) \in [1..n -> Nat \cup {NoPix}]
  BY <1>2 DEF Resize
<1>4. \A i \in 1..n : i <= Len(buf) => Resize(buf, n)[i] = buf[i]
  BY DEF Resize
<1> QED
  BY <1>3, <1>4, MadeOf

LEMMA GrowFacts ==
  ASSUME NEW buf \in Memory, NEW n \in Nat
  PROVE  /\ Grow(buf, n) \in Memory
         /\ Len(Grow(buf, n)) = IF Len(buf) < n THEN n ELSE Len(buf)
         /\ \A i \in 1..Len(buf) : Grow(buf, n)[i] = buf[i]
<1>1. Len(buf) \in Nat
  BY DEF Memory
<1> QED
  BY <1>1, ResizeFacts DEF Grow

\* A read fills the beginning of the buffer and leaves the rest as it was.
LEMMA ReadPixFacts ==
  ASSUME NEW buf \in Memory, NEW first \in Nat, NEW n \in Nat, start \in Files
  PROVE  /\ ReadPix(first, buf, n) \in Memory /\ Len(ReadPix(first, buf, n)) = Len(buf)
         /\ \A i \in 1..Len(buf) :
              i <= n /\ first + i <= nPixInFile => ReadPix(first, buf, n)[i] = first + i - 1
<1>1. Len(buf) \in Nat
  BY DEF Memory
<1> DEFINE got == Fewest(n, nPixInFile - first)
<1>2. got \in Int /\ \A i \in 1..Len(buf) : i <= n /\ first + i <= nPixInFile => i <= got
  BY FileSize DEF Fewest
<1> HIDE DEF got
<1>3. ReadPix(first, buf, n) = [i \in 1..Len(buf) |-> IF i <= got THEN first + i - 1 ELSE buf[i]]
  BY DEF ReadPix, got
<1>4. \A i \in 1..Len(buf) :
        (IF i <= got THEN first + i - 1 ELSE buf[i]) \in Nat \cup {NoPix}
  BY <1>1, <1>2, Cell
<1>5. ReadPix(first, buf, n) \in [1..Len(buf) -> Nat \cup {NoPix}]
  BY <1>3, <1>4
<1> QED
  BY <1>1, <1>2, <1>3, <1>5, MadeOf

(***************************************************************************)
(* The initial state, and the place of every step.                         *)
(***************************************************************************)
LEMMA InitInv ==
  ASSUME Init
  PROVE  IInv
<1>1. mode \in Modes /\ start \in Files /\ mode.buf \in Nat
  BY ReaderAssumption DEF Init
<1>2. start[0] = 0 /\ 0 \in Bins /\ nPixInFile \in Nat /\ start[0] \in Nat /\ NpixOf(start, 0) \in Nat
  BY <1>1, FileFacts, FileSize, FilesAssumption DEF Bins
<1>3. /\ pix_buffer \in Memory /\ Len(pix_buffer) = mode.buf
      /\ thread_pix_buffer \in Memory
      /\ HasThread => Len(thread_pix_buffer) = mode.buf
  <2>1. << >> \in Memory
    BY DEF Memory
  <2> QED
    BY <1>1, <2>1, BlankFacts DEF Init
<1>4. TypeOK
  <2>1. out \in Memory
    BY DEF Memory, Init
  <2> QED
    BY <1>1, <1>2, <1>3, <2>1, FilesAssumption, SMTT(30) DEF Init, TypeOK, NoCall
<1>5. PlaceInv
  BY DEF Init, PlaceInv, Reading, Ending
<1>6. CallInv /\ FitInv
  BY DEF Init, CallInv, Active, FitInv, Reading
<1>7. DirectInv
  BY <1>2 DEF Init, DirectInv
<1>8. CacheInv
  BY <1>1, <1>3 DEF Init, CacheInv
<1>9. SizeInv /\ DataInv
  BY <1>2, <1>3 DEF Init, SizeInv, DataInv
<1> QED
  BY <1>4, <1>5, <1>6, <1>7, <1>8, <1>9 DEF IInv

LEMMA PlaceStep ==
  ASSUME IInv, [Next]_vars
  PROVE  PlaceInv'
<1> USE Fixed DEF PlaceInv, Reading, Ending, ThreadHoldsBin
<1>1. TypeOK /\ PlaceInv
  BY DEF IInv
<1>2. CASE Call
  BY <1>1, <1>2 DEF Call, threadVars, bufVars
<1>3. CASE Lookup \/ Copy \/ Return
  BY <1>1, <1>3 DEF Lookup, Copy, Return, threadVars
<1>4. CASE FitBins
  BY <1>1, <1>4 DEF FitBins
<1>5. CASE ReadDirectly \/ ReadBuffer
  BY <1>1, <1>5 DEF ReadDirectly, ReadBuffer, threadVars
<1>6. CASE QueryThread
  BY <1>1, <1>6 DEF QueryThread, ThreadHasData, threadVars
<1>7. CASE TakeHit \/ TakeMiss
  BY <1>1, <1>7 DEF TakeHit, TakeMiss, Swap, ThreadHasData, Woken
<1>8. CASE ReadMissed
  BY <1>1, <1>8 DEF ReadMissed, threadVars
<1>9. CASE FinishSet
  BY <1>1, <1>9 DEF FinishSet
<1>10. CASE FinishNotify \/ FinishJoin
  BY <1>1, <1>10 DEF FinishNotify, FinishJoin, Woken, threadVars
<1>11. CASE JobLoop \/ JobTest \/ JobBlock \/ JobRelock \/ JobSpurious
  BY <1>1, <1>11 DEF JobLoop, JobTest, JobBlock, JobRelock, JobSpurious, callerVars, threadVars
<1>12. CASE JobRead \/ JobEnd
  BY <1>1, <1>12 DEF JobRead, JobEnd, callerVars
<1>13. CASE UNCHANGED vars
  BY <1>1, <1>13 DEF vars, threadVars
<1> QED
  BY <1>2, <1>3, <1>4, <1>5, <1>6, <1>7, <1>8, <1>9, <1>10, <1>11, <1>12, <1>13
     DEF Next, Methods, Job, Finished

(***************************************************************************)
(* The bin asked for.                                                      *)
(***************************************************************************)
LEMMA CallFacts ==
  ASSUME IInv
  PROVE  /\ start \in Files /\ mode \in Modes /\ mode.buf \in Nat
         /\ call.bin \in Bins /\ call.start \in Nat /\ call.num \in Nat
         /\ Active => call.start + call.num <= nPixInFile
         /\ pix_buffer \in Memory /\ out \in Memory /\ thread_pix_buffer \in Memory
         /\ Len(pix_buffer) \in Nat /\ Len(out) \in Nat /\ Len(thread_pix_buffer) \in Nat
         /\ num_pix_to_read \in Nat /\ nPixInFile \in Nat
         /\ n_first_threadbuf_pix \in Nat /\ num_treadbuf_pix \in Nat
         /\ npix_in_buf_start \in Nat /\ buf_pix_end \in Nat
<1>1. TypeOK /\ CallInv
  BY DEF IInv
<1>2. /\ start \in Files /\ mode \in Modes /\ mode.buf \in Nat
      /\ call.bin \in Bins /\ call.start \in Nat /\ call.num \in Nat
  BY <1>1, ReaderAssumption DEF TypeOK
<1>3. Active => call.start + call.num <= nPixInFile
  BY <1>1, <1>2, FileSize DEF CallInv
<1> QED
  BY <1>1, <1>2, <1>3, FileSize DEF TypeOK, Memory

\* Whatever was read into the caller's memory or buffer at the bin is the bin.
LEMMA ReadAtBin ==
  ASSUME IInv, Active, NEW buf \in Memory, NEW n \in Nat, n >= call.num,
         Len(buf) >= call.num
  PROVE  \A i \in 1..call.num : ReadPix(call.start, buf, n)[i] = call.start + i - 1
<1>1. Len(buf) \in Nat
  BY DEF Memory
<1>2. /\ call.num \in Nat /\ call.start \in Nat /\ nPixInFile \in Nat /\ start \in Files
      /\ call.start + call.num <= nPixInFile
  BY CallFacts
<1>3. ASSUME NEW i \in 1..call.num
      PROVE  ReadPix(call.start, buf, n)[i] = call.start + i - 1
  <2>1. i \in 1..Len(buf) /\ i <= n /\ call.start + i <= nPixInFile
    BY <1>1, <1>2
  <2> QED
    BY <1>2, <2>1, ReadPixFacts
<1> QED
  BY <1>3

LEMMA CallStep ==
  ASSUME IInv, [Next]_vars
  PROVE  CallInv'
<1> USE Fixed, CallFacts DEF CallInv, Active
<1>1. TypeOK /\ CallInv /\ PlaceInv /\ FitInv /\ CacheInv /\ DirectInv
  BY DEF IInv
<1>2. CASE Call
  <2>1. PICK b \in Bins :
          /\ cur' = IF mode.access = "random" THEN 0 ELSE b + 1
          /\ call' = [bin |-> b, start |-> start[b], num |-> NpixOf(start, b)]
          /\ out' = Blank(NpixOf(start, b))
    BY <1>2 DEF Call
  <2>2. Len(out') = NpixOf(start, b)
    BY <2>1, FileSize, BlankFacts
  <2> QED
    BY <1>1, <1>2, <2>1, <2>2 DEF Call
<1>3. CASE Lookup
  BY <1>1, <1>3 DEF Lookup
<1>4. CASE Copy
  <2> DEFINE new == [i \in 1..call.num |-> pix_buffer[call.start - npix_in_buf_start + i]]
  <2>1. CASE Direct
    BY <1>1, <1>4, <2>1 DEF Copy, DirectInv
  <2>2. CASE ~Direct
    <3>1. \A i \in 1..call.num : new[i] = call.start + i - 1
      BY <1>1, <1>4, <2>2 DEF CacheInv, Copy
    <3>2. new \in [1..call.num -> Nat \cup {NoPix}]
      <4>1. \A i \in 1..call.num : call.start + i - 1 \in Nat
        OBVIOUS
      <4> HIDE DEF CallInv, Active
      <4> QED
        BY <3>1, <4>1
    <3>3. Len(new) = call.num
      BY <3>2, MadeOf
    <3>4. out' = new
      BY <1>4, <2>2 DEF Copy
    <3> HIDE DEF new
    <3> QED
      BY <1>1, <1>4, <3>1, <3>3, <3>4 DEF Copy
  <2> QED  BY <2>1, <2>2
<1>5. CASE Return
  BY <1>1, <1>5 DEF Return
<1>6. CASE FitBins
  BY <1>1, <1>6 DEF FitBins
<1>7. CASE ReadDirectly
  <2>1. Len(out') = Len(out)
    BY <1>7, ReadPixFacts DEF ReadDirectly
  <2> QED
    BY <1>1, <1>7, <2>1 DEF ReadDirectly
<1>8. CASE ReadBuffer \/ QueryThread \/ TakeHit \/ TakeMiss \/ ReadMissed
  BY <1>1, <1>8 DEF ReadBuffer, QueryThread, TakeHit, TakeMiss, ReadMissed
<1>9. CASE FinishSet \/ FinishNotify \/ FinishJoin
  BY <1>1, <1>9 DEF FinishSet, FinishNotify, FinishJoin
<1>10. CASE Job \/ JobSpurious
  BY <1>1, <1>10 DEF Job, JobLoop, JobTest, JobBlock, JobRelock, JobRead, JobEnd, JobSpurious,
                     callerVars
<1>11. CASE UNCHANGED vars
  BY <1>1, <1>11 DEF vars
<1> QED
  BY <1>2, <1>3, <1>4, <1>5, <1>6, <1>7, <1>8, <1>9, <1>10, <1>11 DEF Next, Methods, Finished

LEMMA DirectStep ==
  ASSUME IInv, [Next]_vars
  PROVE  DirectInv'
<1>1. /\ TypeOK /\ CallInv /\ PlaceInv /\ FitInv /\ DirectInv
      /\ Direct => mode.access # "random"
  BY ReaderAssumption DEF IInv, TypeOK, Direct
<1> USE Fixed, CallFacts DEF DirectInv
<1>3. CASE Call
  <2>1. PICK b \in Bins : /\ b >= cur
                          /\ cur' = IF mode.access = "random" THEN 0 ELSE b + 1
                          /\ call' = [bin |-> b, start |-> start[b], num |-> NpixOf(start, b)]
    BY <1>3 DEF Call
  <2>2. b \in 0..NumBins /\ b + 1 \in 0..NumBins /\ b <= b + 1 /\ cur \in 0..NumBins
    BY <1>1, FilesAssumption DEF Bins, TypeOK
  <2>3. start[cur] \in Nat /\ start[b] \in Nat /\ start[b + 1] \in Nat
    BY <2>2, FileFacts
  <2>4. start[cur] <= start[b] /\ start[b] <= start[b + 1]
    BY <2>1, <2>2, FileFacts
  <2>5. cpc' = "lookup" /\ buf_pix_end' = buf_pix_end
    BY <1>3 DEF Call, bufVars
  <2>6. Direct => buf_pix_end <= start[b] /\ buf_pix_end <= start[b + 1]
    BY <1>1, <2>3, <2>4
  <2>7. call'.start = start[b] /\ (Direct => start[cur'] = start[b + 1])
    BY <1>1, <2>1
  <2> QED
    BY <2>5, <2>6, <2>7
<1>4. CASE Lookup
  <2>1. Direct /\ call.num # 0 => ~InCache
    BY <1>1, <1>4 DEF Lookup, InCache
  <2>2. Direct => cpc' # "copy"
    BY <1>4, <2>1 DEF Lookup
  <2>3. buf_pix_end' = buf_pix_end /\ cur' = cur /\ call' = call
    BY <1>4 DEF Lookup, bufVars
  <2>4. Direct => buf_pix_end <= call.start /\ buf_pix_end <= start[cur]
    BY <1>1, <1>4 DEF Lookup
  <2> QED
    BY <2>2, <2>3, <2>4
<1>5. CASE ReadDirectly
  <2>1. \A i \in 1..call.num : out'[i] = call.start + i - 1
    BY <1>1, <1>5, ReadAtBin, SMTT(30) DEF ReadDirectly, CallInv, Active, FitInv
  <2>2. Direct => call.start + num_pix_to_read <= start[cur]
    <3>1. Direct => num_pix_to_read = call.num /\ cur = call.bin + 1
      BY <1>1, <1>5 DEF ReadDirectly, CallInv, Active, FitInv, TypeOK
    <3> QED
      BY <1>1, <3>1, NpixFacts, <1>5 DEF CallInv, Active, ReadDirectly
  <2> QED
    BY <1>1, <1>5, <2>1, <2>2 DEF ReadDirectly, Claim
<1>6. CASE Copy \/ Return \/ FitBins
  BY <1>1, <1>6 DEF Copy, Return, FitBins, bufVars
<1>7. CASE ReadBuffer \/ QueryThread \/ TakeHit \/ TakeMiss \/ ReadMissed
  BY <1>1, <1>7 DEF ReadBuffer, QueryThread, TakeHit, TakeMiss, ReadMissed, PlaceInv, HasThread,
                    Reading
<1>8. CASE FinishSet \/ FinishNotify \/ FinishJoin
  BY <1>1, <1>8 DEF FinishSet, FinishNotify, FinishJoin, bufVars
<1>9. CASE Job \/ JobSpurious
  BY <1>1, <1>9 DEF Job, JobLoop, JobTest, JobBlock, JobRelock, JobRead, JobEnd, JobSpurious,
                    callerVars, bufVars
<1>10. CASE UNCHANGED vars
  BY <1>1, <1>10 DEF vars, bufVars
<1> QED
  BY <1>3, <1>4, <1>5, <1>6, <1>7, <1>8, <1>9, <1>10 DEF Next, Methods, Finished

(***************************************************************************)
(* The buffers.                                                            *)
(***************************************************************************)
LEMMA FitStep ==
  ASSUME IInv, [Next]_vars
  PROVE  FitInv'
<1>1. TypeOK /\ PlaceInv /\ CallInv /\ FitInv
  BY DEF IInv
<1> USE Fixed, CallFacts DEF FitInv, Reading
<1>2. CASE FitBins
  <2> DEFINE w == WholeBins(start, call.bin, Len(pix_buffer))
  <2>1. /\ Active /\ call.start = start[call.bin] /\ call.num = NpixOf(start, call.bin)
        /\ pix_buffer' = pix_buffer /\ call' = call
        /\ num_pix_to_read' = IF Direct THEN call.num ELSE w
    BY <1>1, <1>2 DEF FitBins, CallInv, Active, bufVars
  <2>2. CASE Direct
    <3>1. num_pix_to_read' = call.num /\ call.start + call.num <= nPixInFile
      BY <2>1, <2>2
    <3> QED
      BY <2>1, <3>1
  <2>3. CASE ~Direct
    <3>1. /\ w \in Nat /\ call.num <= w /\ call.start + w <= nPixInFile
          /\ w <= Len(pix_buffer) \/ w = call.num
      BY <2>1, WholeBinsFacts DEF nPixInFile
    <3>2. num_pix_to_read' = w
      BY <2>1, <2>3
    <3> HIDE DEF w
    <3> QED
      BY <2>1, <2>3, <3>1, <3>2
  <2> QED  BY <2>2, <2>3
<1>3. CASE QueryThread
  BY <1>1, <1>3 DEF QueryThread, bufVars
<1>4. CASE Call \/ Lookup \/ Copy \/ Return
  BY <1>1, <1>4 DEF Call, Lookup, Copy, Return
<1>5. CASE ReadDirectly \/ ReadBuffer \/ TakeHit \/ TakeMiss \/ ReadMissed
  BY <1>1, <1>5 DEF ReadDirectly, ReadBuffer, TakeHit, TakeMiss, ReadMissed
<1>6. CASE FinishSet \/ FinishNotify \/ FinishJoin
  BY <1>1, <1>6 DEF FinishSet, FinishNotify, FinishJoin
<1>7. CASE Job \/ JobSpurious
  BY <1>1, <1>7 DEF Job, JobLoop, JobTest, JobBlock, JobRelock, JobRead, JobEnd, JobSpurious,
                    callerVars, bufVars
<1>8. CASE UNCHANGED vars
  BY <1>1, <1>8 DEF vars, bufVars
<1> QED
  BY <1>2, <1>3, <1>4, <1>5, <1>6, <1>7, <1>8 DEF Next, Methods, Finished

\* The vectors after a hand-over, which gives both the size of the caller's.
LEMMA SwapFacts ==
  ASSUME IInv, NEW pixbuf \in Memory, NEW next \in Nat, Swap(pixbuf, next)
  PROVE  /\ pix_buffer' \in Memory /\ thread_pix_buffer' = pixbuf
         /\ Len(pix_buffer') = Len(pixbuf) /\ Len(pixbuf) \in Nat
         /\ \A i \in 1..Len(pixbuf) :
              i <= Len(thread_pix_buffer) => pix_buffer'[i] = thread_pix_buffer[i]
         /\ n_first_threadbuf_pix' = next /\ ~pix_read'
<1>1. Len(pixbuf) \in Nat
  BY DEF Memory
<1>2. pix_buffer' = Resize(thread_pix_buffer, Len(pixbuf))
  BY DEF Swap
<1>3. thread_pix_buffer \in Memory
  BY CallFacts
<1>4. /\ pix_buffer' \in Memory /\ Len(pix_buffer') = Len(pixbuf)
      /\ \A i \in 1..Len(pixbuf) :
           i <= Len(thread_pix_buffer) => pix_buffer'[i] = thread_pix_buffer[i]
  BY <1>1, <1>2, <1>3, ResizeFacts
<1> QED
  BY <1>1, <1>4 DEF Swap

\* When the bin is in the thread's buffer, so is all there is to read: the
\* buffer has not grown since the thread has filled it.
LEMMA HitFacts ==
  ASSUME IInv, cpc = "take"
  PROVE  /\ Len(thread_pix_buffer) = Len(pix_buffer)
         /\ num_pix_to_read <= num_treadbuf_pix /\ num_treadbuf_pix <= Len(pix_buffer)
         /\ n_first_threadbuf_pix <= call.start
         /\ call.start + call.num < n_first_threadbuf_pix + num_treadbuf_pix
         /\ \A i \in 1..num_treadbuf_pix :
              thread_pix_buffer[i] = n_first_threadbuf_pix + i - 1
<1>1. /\ HasThread /\ ThreadHoldsBin /\ pix_read /\ ~pix_read_job_completed
      /\ SizeInv /\ DataInv /\ FitInv
  BY DEF IInv, PlaceInv, Reading, Ending
<1>2. /\ n_first_threadbuf_pix <= call.start
      /\ call.start + call.num < n_first_threadbuf_pix + num_treadbuf_pix
      /\ num_treadbuf_pix <= Len(thread_pix_buffer)
      /\ n_first_threadbuf_pix + num_treadbuf_pix <= nPixInFile
      /\ \/ num_treadbuf_pix >= Len(pix_buffer)
         \/ n_first_threadbuf_pix + num_treadbuf_pix = nPixInFile
      /\ \A i \in 1..num_treadbuf_pix : thread_pix_buffer[i] = n_first_threadbuf_pix + i - 1
  BY <1>1 DEF ThreadHoldsBin, DataInv
<1>3. Len(thread_pix_buffer) = Len(pix_buffer)
  BY <1>1, <1>2, CallFacts DEF SizeInv
<1>4. call.start + num_pix_to_read <= nPixInFile
      /\ (num_pix_to_read = call.num \/ num_pix_to_read <= Len(pix_buffer))
  BY <1>1 DEF FitInv, Reading
<1> QED
  BY <1>2, <1>3, <1>4, CallFacts

LEMMA MissFacts ==
  ASSUME IInv, TakeMiss
  PROVE  \E pixbuf \in Memory : /\ Swap(pixbuf, call.start + call.num)
                                /\ Len(pixbuf) >= call.num /\ Len(pixbuf) >= Len(pix_buffer)
<1> DEFINE pixbuf == IF Len(pix_buffer) < call.num THEN Resize(pix_buffer, call.num + 1)
                     ELSE pix_buffer
<1> DEFINE n == call.num + 1
<1>1. Resize(pix_buffer, n) \in Memory /\ Len(Resize(pix_buffer, n)) = call.num + 1
  <2>1. n \in Nat /\ pix_buffer \in Memory
    BY CallFacts
  <2>2. n = call.num + 1
    OBVIOUS
  <2> HIDE DEF n
  <2> QED
    BY <2>1, <2>2, ResizeFacts
<1>2. pixbuf \in Memory /\ Len(pixbuf) >= call.num /\ Len(pixbuf) >= Len(pix_buffer)
  BY <1>1, CallFacts
<1>3. Swap(pixbuf, call.start + call.num)
  BY DEF TakeMiss
<1> HIDE DEF pixbuf
<1> QED
  BY <1>2, <1>3

LEMMA SizeStep ==
  ASSUME IInv, [Next]_vars
  PROVE  SizeInv'
<1>1. TypeOK /\ PlaceInv /\ CallInv /\ FitInv /\ SizeInv
  BY DEF IInv
<1> USE Fixed, CallFacts DEF SizeInv, Reading
<1>2. CASE FitBins
  <2>1. HasThread => Len(thread_pix_buffer) = Len(pix_buffer)
    BY <1>1, <1>2 DEF FitBins
  <2>2. /\ num_pix_to_read' \in Nat
        /\ HasThread => num_pix_to_read' = call.num \/ num_pix_to_read' <= Len(pix_buffer)
    BY <1>2, FitStep, CallFacts, WholeBinsFacts DEF FitBins, FitInv, Reading, bufVars
  <2>3. HasThread => Len(thread_pix_buffer') =
                       IF Len(thread_pix_buffer) < num_pix_to_read' THEN num_pix_to_read'
                       ELSE Len(thread_pix_buffer)
    BY <1>2, <2>2, GrowFacts DEF FitBins
  <2>4. /\ HasThread => cpc' = "query"
        /\ call' = call /\ pix_buffer' = pix_buffer
    BY <1>2 DEF FitBins, bufVars
  <2>5. CASE Len(thread_pix_buffer) < num_pix_to_read'
    <3>1. HasThread => /\ Len(thread_pix_buffer') = num_pix_to_read' /\ num_pix_to_read' = call.num
                       /\ Len(thread_pix_buffer') > Len(pix_buffer)
      BY <2>1, <2>2, <2>3, <2>5
    <3> QED
      BY <2>4, <3>1
  <2>6. CASE ~ (Len(thread_pix_buffer) < num_pix_to_read')
    BY <2>1, <2>3, <2>4, <2>6
  <2> QED
    BY <2>5, <2>6
<1>3. CASE QueryThread
  BY <1>1, <1>3 DEF QueryThread, bufVars, threadVars
<1>4. CASE Call \/ Lookup \/ Copy \/ Return
  BY <1>1, <1>4 DEF Call, Lookup, Copy, Return, bufVars, threadVars
<1>5. CASE ReadDirectly \/ ReadBuffer
  BY <1>1, <1>5 DEF ReadDirectly, ReadBuffer, PlaceInv
<1>6. CASE TakeHit
  <2>1. call.start + num_pix_to_read \in Nat /\ Swap(pix_buffer, call.start + num_pix_to_read)
    BY <1>6 DEF TakeHit
  <2> QED
    BY <2>1, SwapFacts
<1>7. CASE TakeMiss
  BY <1>7, MissFacts, SwapFacts
<1>8. CASE ReadMissed
  <2>1. Len(pix_buffer') = Len(pix_buffer)
    BY <1>8, ReadPixFacts DEF ReadMissed
  <2> QED
    BY <1>1, <1>8, <2>1 DEF ReadMissed, threadVars
<1>9. CASE FinishSet \/ FinishNotify \/ FinishJoin
  BY <1>1, <1>9 DEF FinishSet, FinishNotify, FinishJoin, bufVars, threadVars
<1>10. CASE JobRead
  <2>1. Len(thread_pix_buffer') = Len(thread_pix_buffer)
    <3>1. PICK n \in Int : thread_pix_buffer' = ReadPix(n_first_threadbuf_pix, thread_pix_buffer, n)
      BY <1>10, CallFacts DEF JobRead, Fewest
    <3> QED
      BY <3>1, MadeOf DEF ReadPix
  <2> QED
    BY <1>1, <1>10, <2>1 DEF JobRead, callerVars, bufVars
<1>11. CASE JobLoop \/ JobTest \/ JobBlock \/ JobRelock \/ JobEnd \/ JobSpurious
  BY <1>1, <1>11 DEF JobLoop, JobTest, JobBlock, JobRelock, JobEnd, JobSpurious,
                     callerVars, bufVars, threadVars
<1>12. CASE UNCHANGED vars
  BY <1>1, <1>12 DEF vars, bufVars, threadVars
<1> QED
  BY <1>2, <1>3, <1>4, <1>5, <1>6, <1>7, <1>8, <1>9, <1>10, <1>11, <1>12
     DEF Next, Methods, Job, Finished

LEMMA DataStep ==
  ASSUME IInv, [Next]_vars
  PROVE  DataInv'
<1>1. TypeOK /\ PlaceInv /\ CallInv /\ FitInv /\ SizeInv /\ DataInv
  BY DEF IInv
<1> USE Fixed DEF DataInv
<1>2. CASE FitBins
  <2>1. num_pix_to_read' \in Nat
    BY <1>2, CallFacts, WholeBinsFacts DEF FitBins
  <2>2. HasThread =>
          /\ Len(thread_pix_buffer') >= Len(thread_pix_buffer)
          /\ \A i \in 1..Len(thread_pix_buffer) : thread_pix_buffer'[i] = thread_pix_buffer[i]
    BY <1>2, <2>1, CallFacts, GrowFacts, SMTT(30) DEF FitBins
  <2>3. /\ pix_buffer' = pix_buffer /\ pix_read' = pix_read
        /\ pix_read_job_completed' = pix_read_job_completed
        /\ n_first_threadbuf_pix' = n_first_threadbuf_pix /\ num_treadbuf_pix' = num_treadbuf_pix
    BY <1>2 DEF FitBins, bufVars
  <2>4. HasThread /\ pix_read /\ ~pix_read_job_completed =>
          /\ num_treadbuf_pix <= Len(thread_pix_buffer')
          /\ \A i \in 1..num_treadbuf_pix :
               thread_pix_buffer'[i] = n_first_threadbuf_pix + i - 1
    <3> SUFFICES ASSUME HasThread, pix_read, ~pix_read_job_completed
                 PROVE  /\ num_treadbuf_pix <= Len(thread_pix_buffer')
                        /\ \A i \in 1..num_treadbuf_pix :
                             thread_pix_buffer'[i] = n_first_threadbuf_pix + i - 1
      OBVIOUS
    <3>1. num_treadbuf_pix <= Len(thread_pix_buffer) /\ Len(thread_pix_buffer') \in Nat
      BY <1>1, <1>2, <2>1, CallFacts, GrowFacts DEF FitBins
    <3>2. \A i \in 1..num_treadbuf_pix : i \in 1..Len(thread_pix_buffer)
      BY <3>1, CallFacts
    <3> QED
      BY <1>1, <2>2, <3>1, <3>2, CallFacts
  <2> QED
    BY <1>1, <2>3, <2>4
<1>3. CASE Call \/ Lookup \/ Copy \/ Return \/ QueryThread
  BY <1>1, <1>3 DEF Call, Lookup, Copy, Return, QueryThread, bufVars, threadVars
<1>4. CASE ReadDirectly \/ ReadBuffer
  BY <1>1, <1>4 DEF ReadDirectly, ReadBuffer, PlaceInv
<1>5. CASE TakeHit
  <2>1. call.start + num_pix_to_read \in Nat /\ Swap(pix_buffer, call.start + num_pix_to_read)
    BY <1>5, CallFacts DEF TakeHit
  <2>2. call.start + num_pix_to_read <= nPixInFile
    BY <1>1, <1>5 DEF FitInv, TakeHit, Reading
  <2> QED
    BY <2>1, <2>2, CallFacts DEF Swap
<1>6. CASE TakeMiss
  <2>1. call.start + call.num <= nPixInFile
    BY <1>6, CallFacts DEF TakeMiss, Active
  <2> QED
    BY <1>6, <2>1 DEF TakeMiss, Swap
<1>7. CASE ReadMissed
  <2>1. Len(pix_buffer') = Len(pix_buffer)
    BY <1>7, CallFacts, ReadPixFacts DEF ReadMissed
  <2> QED
    BY <1>1, <1>7, <2>1 DEF ReadMissed, threadVars
<1>8. CASE FinishSet \/ FinishNotify \/ FinishJoin
  BY <1>1, <1>8 DEF FinishSet, FinishNotify, FinishJoin, bufVars, threadVars
<1>9. CASE JobRead
  <2> SUFFICES ASSUME HasThread  PROVE DataInv'
    OBVIOUS
  <2> DEFINE n == Fewest(Len(thread_pix_buffer), nPixInFile - n_first_threadbuf_pix)
  <2>1. /\ n \in Nat /\ n <= Len(thread_pix_buffer) /\ n_first_threadbuf_pix + n <= nPixInFile
        /\ n = Len(thread_pix_buffer) \/ n_first_threadbuf_pix + n = nPixInFile
    BY <1>1, CallFacts DEF Fewest
  <2>2. /\ thread_pix_buffer' = ReadPix(n_first_threadbuf_pix, thread_pix_buffer, n)
        /\ num_treadbuf_pix' = n /\ n_first_threadbuf_pix' = n_first_threadbuf_pix
        /\ pix_buffer' = pix_buffer
    BY <1>9 DEF JobRead, callerVars, bufVars
  <2> HIDE DEF n
  <2>3. /\ Len(thread_pix_buffer') = Len(thread_pix_buffer)
        /\ \A i \in 1..Len(thread_pix_buffer) :
             i <= n /\ n_first_threadbuf_pix + i <= nPixInFile =>
               thread_pix_buffer'[i] = n_first_threadbuf_pix + i - 1
    BY <2>1, <2>2, CallFacts, ReadPixFacts, SMTT(30)
  <2>4. \A i \in 1..n : i \in 1..Len(thread_pix_buffer) /\ i <= n
                        /\ n_first_threadbuf_pix + i <= nPixInFile
    BY <2>1, CallFacts
  <2>5. Len(thread_pix_buffer) >= Len(pix_buffer)
    BY <1>1, CallFacts DEF SizeInv
  <2>6. n >= Len(pix_buffer) \/ n_first_threadbuf_pix + n = nPixInFile
    BY <2>1, <2>5, CallFacts
  <2> QED
    BY <1>1, <2>1, <2>2, <2>3, <2>4, <2>6
<1>10. CASE JobLoop \/ JobTest \/ JobBlock \/ JobRelock \/ JobEnd \/ JobSpurious
  BY <1>1, <1>10 DEF JobLoop, JobTest, JobBlock, JobRelock, JobEnd, JobSpurious,
                     callerVars, bufVars, threadVars
<1>11. CASE UNCHANGED vars
  BY <1>1, <1>11 DEF vars, bufVars, threadVars
<1> QED
  BY <1>2, <1>3, <1>4, <1>5, <1>6, <1>7, <1>8, <1>9, <1>10, <1>11
     DEF Next, Methods, Job, Finished

\* A buffer that got the pixels from first on holds what is then claimed of it.
LEMMA ClaimFacts ==
  ASSUME IInv, NEW first \in Nat, NEW n \in Nat, Claim(first, n), n <= Len(pix_buffer'),
         \A i \in 1..n : pix_buffer'[i] = first + i - 1
  PROVE  /\ buf_pix_end' - npix_in_buf_start' <= Len(pix_buffer')
         /\ \A p \in npix_in_buf_start'..(buf_pix_end' - 1) :
              pix_buffer'[p - npix_in_buf_start' + 1] = p
<1>1. npix_in_buf_start' = first /\ buf_pix_end' = first + n
  BY DEF Claim
<1>2. \A p \in first..(first + n - 1) : /\ p - first + 1 \in 1..n
                                        /\ first + (p - first + 1) - 1 = p
  OBVIOUS
<1> QED
  BY <1>1, <1>2

LEMMA CacheStep ==
  ASSUME IInv, [Next]_vars
  PROVE  CacheInv'
<1>1. TypeOK /\ PlaceInv /\ CallInv /\ FitInv /\ CacheInv
  BY DEF IInv
<1> USE Fixed DEF CacheInv
<1>2. CASE Call
  BY <1>1, <1>2 DEF Call, bufVars
<1>3. CASE Lookup
  <2>1. ~Direct /\ cpc' = "copy" =>
          \A i \in 1..call.num :
            pix_buffer[call.start - npix_in_buf_start + i] = call.start + i - 1
    <3> SUFFICES ASSUME ~Direct, InCache, NEW i \in 1..call.num
                 PROVE  pix_buffer[call.start - npix_in_buf_start + i] = call.start + i - 1
      BY <1>3 DEF Lookup
    <3> DEFINE p == call.start + i - 1
    <3>0. /\ call.start \in Nat /\ call.num \in Nat
          /\ npix_in_buf_start \in Nat /\ buf_pix_end \in Nat
      BY CallFacts
    <3>1. /\ p \in npix_in_buf_start..(buf_pix_end - 1)
          /\ p - npix_in_buf_start + 1 = call.start - npix_in_buf_start + i
      BY <3>0 DEF InCache
    <3>2. pix_buffer[p - npix_in_buf_start + 1] = p
      BY <1>1, <1>3, <3>1 DEF Lookup
    <3> QED
      BY <3>1, <3>2
  <2> QED
    BY <1>1, <1>3, <2>1 DEF Lookup, bufVars
<1>4. CASE Copy \/ Return \/ FitBins \/ QueryThread
  BY <1>1, <1>4 DEF Copy, Return, FitBins, QueryThread, bufVars
<1>5. CASE ReadDirectly
  BY <1>5 DEF ReadDirectly
<1>6. CASE ReadBuffer
  <2> DEFINE buf == Grow(pix_buffer, num_pix_to_read)
  <2>1. /\ buf \in Memory /\ num_pix_to_read <= Len(buf) /\ Len(buf) \in Nat
    BY CallFacts, GrowFacts
  <2>2. /\ pix_buffer' = ReadPix(call.start, buf, num_pix_to_read)
        /\ call' = call /\ cpc' = "copy" /\ Claim(call.start, num_pix_to_read)
    BY <1>6 DEF ReadBuffer
  <2>3. /\ num_pix_to_read >= call.num /\ call.start + num_pix_to_read <= nPixInFile
    BY <1>1, <1>6 DEF ReadBuffer, FitInv
  <2> HIDE DEF buf
  <2>4. /\ Len(pix_buffer') = Len(buf)
        /\ \A i \in 1..Len(buf) : i <= num_pix_to_read /\ call.start + i <= nPixInFile =>
             pix_buffer'[i] = call.start + i - 1
    BY <2>1, <2>2, CallFacts, ReadPixFacts, SMTT(30)
  <2>5. \A i \in 1..num_pix_to_read : pix_buffer'[i] = call.start + i - 1
    <3>1. \A i \in 1..num_pix_to_read : i \in 1..Len(buf) /\ i <= num_pix_to_read
                                        /\ call.start + i <= nPixInFile
      BY <2>1, <2>3, CallFacts
    <3> QED
      BY <2>4, <3>1
  <2>6. /\ buf_pix_end' - npix_in_buf_start' <= Len(pix_buffer')
        /\ \A p \in npix_in_buf_start'..(buf_pix_end' - 1) :
             pix_buffer'[p - npix_in_buf_start' + 1] = p
    BY <2>1, <2>2, <2>4, <2>5, CallFacts, ClaimFacts
  <2>7. \A i \in 1..call.num : /\ i \in 1..num_pix_to_read
                               /\ call.start - npix_in_buf_start' + i = i
    BY <2>2, <2>3, CallFacts DEF Claim
  <2> QED
    BY <2>2, <2>5, <2>6, <2>7
<1>7. CASE TakeHit
  <2>1. call.start + num_pix_to_read \in Nat /\ Swap(pix_buffer, call.start + num_pix_to_read)
        /\ call' = call /\ cpc' = "copy" /\ cpc = "take"
        /\ Claim(n_first_threadbuf_pix, num_pix_to_read)
    BY <1>7, CallFacts DEF TakeHit
  <2>2. /\ Len(pix_buffer') = Len(pix_buffer)
        /\ \A i \in 1..Len(pix_buffer) :
             i <= Len(thread_pix_buffer) => pix_buffer'[i] = thread_pix_buffer[i]
    BY <2>1, CallFacts, SwapFacts
  <2>3. \A i \in 1..num_treadbuf_pix : i \in 1..Len(pix_buffer) /\ i <= Len(thread_pix_buffer)
    BY <2>1, CallFacts, HitFacts
  <2>4. \A i \in 1..num_treadbuf_pix : pix_buffer'[i] = n_first_threadbuf_pix + i - 1
    BY <2>1, <2>2, <2>3, HitFacts
  <2>5. /\ num_pix_to_read <= num_treadbuf_pix /\ num_pix_to_read <= Len(pix_buffer')
        /\ \A i \in 1..num_pix_to_read : i \in 1..num_treadbuf_pix
    BY <2>1, <2>2, CallFacts, HitFacts
  <2>6. /\ buf_pix_end' - npix_in_buf_start' <= Len(pix_buffer')
        /\ \A p \in npix_in_buf_start'..(buf_pix_end' - 1) :
             pix_buffer'[p - npix_in_buf_start' + 1] = p
    BY <2>1, <2>4, <2>5, CallFacts, ClaimFacts
  <2>7. \A i \in 1..call.num :
          LET k == call.start - n_first_threadbuf_pix + i
          IN  k \in 1..num_treadbuf_pix /\ n_first_threadbuf_pix + k - 1 = call.start + i - 1
    <3>1. /\ call.start \in Nat /\ call.num \in Nat
          /\ n_first_threadbuf_pix \in Nat /\ num_treadbuf_pix \in Nat
      BY CallFacts
    <3>2. /\ n_first_threadbuf_pix <= call.start
          /\ call.start + call.num < n_first_threadbuf_pix + num_treadbuf_pix
      BY <2>1, HitFacts
    <3> QED
      BY <3>1, <3>2
  <2>8. \A i \in 1..call.num :
          pix_buffer'[call.start - npix_in_buf_start' + i] = call.start + i - 1
    BY <2>1, <2>4, <2>7 DEF Claim
  <2> QED
    BY <2>1, <2>6, <2>8
<1>8. CASE TakeMiss
  <2>1. PICK pixbuf \in Memory : Swap(pixbuf, call.start + call.num) /\ Len(pixbuf) >= call.num
    BY <1>8, MissFacts
  <2>2. Len(pix_buffer') >= call.num
    BY <2>1, CallFacts, SwapFacts
  <2> QED
    BY <1>8, <2>2 DEF TakeMiss
<1>9. CASE ReadMissed
  <2>1. /\ pix_buffer' = ReadPix(call.start, pix_buffer, call.num)
        /\ call' = call /\ cpc' = "copy" /\ Claim(call.start, call.num) /\ Active
    BY <1>9 DEF ReadMissed, Active
  <2> SUFFICES ASSUME ~Direct  PROVE CacheInv'
    OBVIOUS
  <2>2. call.num <= Len(pix_buffer)
    BY <1>1, <1>9, CallFacts DEF ReadMissed
  <2>3. Len(pix_buffer') = Len(pix_buffer)
    BY <2>1, CallFacts, ReadPixFacts
  <2>4. \A i \in 1..call.num : pix_buffer'[i] = call.start + i - 1
    BY <2>1, <2>2, CallFacts, ReadAtBin, SMTT(30)
  <2>5. /\ buf_pix_end' - npix_in_buf_start' <= Len(pix_buffer')
        /\ \A p \in npix_in_buf_start'..(buf_pix_end' - 1) :
             pix_buffer'[p - npix_in_buf_start' + 1] = p
    BY <2>1, <2>2, <2>3, <2>4, CallFacts, ClaimFacts
  <2>6. \A i \in 1..call.num : call.start - npix_in_buf_start' + i = i
    BY <2>1, CallFacts DEF Claim
  <2> QED
    BY <2>1, <2>4, <2>5, <2>6
<1>10. CASE FinishSet \/ FinishNotify \/ FinishJoin
  BY <1>1, <1>10 DEF FinishSet, FinishNotify, FinishJoin, bufVars
<1>11. CASE Job \/ JobSpurious
  BY <1>1, <1>11 DEF Job, JobLoop, JobTest, JobBlock, JobRelock, JobRead, JobEnd, JobSpurious,
                     callerVars, bufVars
<1>12. CASE UNCHANGED vars
  BY <1>1, <1>12 DEF vars, bufVars
<1> QED
  BY <1>2, <1>3, <1>4, <1>5, <1>6, <1>7, <1>8, <1>9, <1>10, <1>11, <1>12
     DEF Next, Methods, Finished

LEMMA TypeStep ==
  ASSUME IInv, [Next]_vars
  PROVE  TypeOK'
<1>1. TypeOK /\ PlaceInv /\ CallInv /\ FitInv /\ DataInv
  BY DEF IInv
<1> USE Fixed DEF TypeOK
<1>2. CASE Call
  <2>1. PICK b \in Bins :
          /\ cur' = IF mode.access = "random" THEN 0 ELSE b + 1
          /\ call' = [bin |-> b, start |-> start[b], num |-> NpixOf(start, b)]
          /\ out' = Blank(NpixOf(start, b))
    BY <1>2 DEF Call
  <2>2. start[b] \in Nat /\ NpixOf(start, b) \in Nat
    BY CallFacts, FileSize
  <2>3. cur' \in 0..NumBins /\ call' \in [bin : Bins, start : Nat, num : Nat] /\ out' \in Memory
    BY <2>1, <2>2, BlankFacts, FilesAssumption DEF Bins
  <2> QED
    BY <1>1, <1>2, <2>3 DEF Call, bufVars, threadVars
<1>3. CASE Lookup \/ QueryThread
  BY <1>1, <1>3 DEF Lookup, QueryThread, bufVars, threadVars
<1>4. CASE Copy
  <2> DEFINE new == [i \in 1..call.num |-> pix_buffer[call.start - npix_in_buf_start + i]]
  <2>1. ~Direct => \A i \in 1..call.num : new[i] = call.start + i - 1
    BY <1>4 DEF Copy, IInv, CacheInv
  <2>2. call.num \in Nat /\ \A i \in 1..call.num : call.start + i - 1 \in Nat
    BY CallFacts
  <2>3. ~Direct => new \in [1..call.num -> Nat \cup {NoPix}]
    BY <2>1, <2>2
  <2>4. out' = IF Direct THEN out ELSE new
    BY <1>4 DEF Copy
  <2> HIDE DEF new
  <2>5. out' \in Memory
    BY <1>1, <2>2, <2>3, <2>4, MadeOf
  <2> QED
    BY <1>1, <1>4, <2>5 DEF Copy, bufVars, threadVars
<1>5. CASE Return
  <2>1. << >> \in Memory /\ NoCall \in [bin : Bins, start : Nat, num : Nat]
    BY FilesAssumption DEF Memory, NoCall, Bins
  <2> QED
    BY <1>1, <1>5, <2>1 DEF Return, bufVars, threadVars
<1>6. CASE FitBins
  <2>1. num_pix_to_read' \in Nat
    BY <1>6, CallFacts, WholeBinsFacts DEF FitBins
  <2>2. thread_pix_buffer' \in Memory
    BY <1>1, <1>6, <2>1, GrowFacts DEF FitBins
  <2> QED
    BY <1>1, <1>6, <2>1, <2>2 DEF FitBins, bufVars
<1>7. CASE ReadDirectly
  <2>1. out' \in Memory /\ npix_in_buf_start' \in Nat /\ buf_pix_end' \in Nat
    BY <1>7, CallFacts, ReadPixFacts DEF ReadDirectly, Claim
  <2> QED
    BY <1>1, <1>7, <2>1 DEF ReadDirectly, threadVars
<1>8. CASE ReadBuffer
  <2>1. Grow(pix_buffer, num_pix_to_read) \in Memory
    BY CallFacts, GrowFacts
  <2>2. pix_buffer' \in Memory /\ npix_in_buf_start' \in Nat /\ buf_pix_end' \in Nat
    BY <1>8, <2>1, CallFacts, ReadPixFacts DEF ReadBuffer, Claim
  <2> QED
    BY <1>1, <1>8, <2>2 DEF ReadBuffer, threadVars
<1>9. CASE TakeHit
  <2>1. call.start + num_pix_to_read \in Nat /\ Swap(pix_buffer, call.start + num_pix_to_read)
    BY <1>9, CallFacts DEF TakeHit
  <2>2. pix_buffer' \in Memory /\ thread_pix_buffer' \in Memory
    BY <1>1, <2>1, SwapFacts
  <2>3. npix_in_buf_start' \in Nat /\ buf_pix_end' \in Nat
    BY <1>9, CallFacts DEF TakeHit, Claim
  <2> QED
    BY <1>1, <1>9, <2>1, <2>2, <2>3 DEF TakeHit, Swap, Woken
<1>10. CASE TakeMiss
  <2>1. PICK pixbuf \in Memory : Swap(pixbuf, call.start + call.num)
    BY <1>10, MissFacts
  <2>2. pix_buffer' \in Memory /\ thread_pix_buffer' \in Memory /\ call.start + call.num \in Nat
    BY <2>1, CallFacts, SwapFacts
  <2> QED
    BY <1>1, <1>10, <2>1, <2>2 DEF TakeMiss, Swap, Woken
<1>11. CASE ReadMissed
  <2>1. pix_buffer' \in Memory /\ npix_in_buf_start' \in Nat /\ buf_pix_end' \in Nat
    BY <1>11, CallFacts, ReadPixFacts DEF ReadMissed, Claim
  <2> QED
    BY <1>1, <1>11, <2>1 DEF ReadMissed, threadVars
<1>12. CASE JobRead
  <2> DEFINE n == Fewest(Len(thread_pix_buffer), nPixInFile - n_first_threadbuf_pix)
  <2>1. HasThread /\ n \in Nat
    BY <1>1, <1>12, CallFacts DEF Fewest, JobRead, PlaceInv, DataInv
  <2>2. thread_pix_buffer' = ReadPix(n_first_threadbuf_pix, thread_pix_buffer, n)
        /\ num_treadbuf_pix' = n
    BY <1>12 DEF JobRead
  <2> HIDE DEF n
  <2>3. thread_pix_buffer' \in Memory
    BY <2>1, <2>2, CallFacts, ReadPixFacts
  <2> QED
    BY <1>1, <1>12, <2>1, <2>2, <2>3 DEF JobRead, callerVars, bufVars
<1>13. CASE FinishSet \/ FinishNotify \/ FinishJoin
  BY <1>1, <1>13 DEF FinishSet, FinishNotify, FinishJoin, bufVars, threadVars, Woken
<1>14. CASE JobLoop \/ JobTest \/ JobBlock \/ JobRelock \/ JobEnd \/ JobSpurious
  BY <1>1, <1>14 DEF JobLoop, JobTest, JobBlock, JobRelock, JobEnd, JobSpurious,
                     callerVars, bufVars, threadVars
<1>15. CASE UNCHANGED vars
  BY <1>1, <1>15 DEF vars, bufVars, threadVars
<1> QED
  BY <1>2, <1>3, <1>4, <1>5, <1>6, <1>7, <1>8, <1>9, <1>10, <1>11, <1>12, <1>13, <1>14, <1>15
     DEF Next, Methods, Job, Finished

(***************************************************************************)
(* Theorems.                                                               *)
(***************************************************************************)
\* The parts of the invariant keep each other true in every step of the caller
\* and of the read thread.
THEOREM Invariant == Spec => []IInv
<1>1. IInv /\ [Next]_vars => IInv'
  BY PlaceStep, CallStep, DirectStep, FitStep, SizeStep, DataStep, CacheStep, TypeStep DEF IInv
<1> QED
  BY InitInv, <1>1, PTL DEF Spec

\* Every variable keeps its type: what is claimed, read and asked for are numbers
\* of pixels, and the three memories hold pixels.
THEOREM TypeCorrect == Spec => []TypeOK
<1>1. IInv => TypeOK
  BY DEF IInv
<1> QED
  BY Invariant, <1>1, PTL

LEMMA BinReturned ==
  ASSUME IInv
  PROVE  BinPixelsReturned
<1> SUFFICES ASSUME cpc = "return"
             PROVE  out = Pixels(start[call.bin], NpixOf(start, call.bin))
  BY DEF BinPixelsReturned
<1>1. /\ call.start = start[call.bin] /\ call.num = NpixOf(start, call.bin)
      /\ Len(out) = call.num /\ \A i \in 1..call.num : out[i] = call.start + i - 1
  BY DEF IInv, CallInv, Active
<1>2. out \in [1..call.num -> Nat \cup {NoPix}]
  BY <1>1, CallFacts DEF Memory
<1>3. out = Pixels(call.start, call.num)
  BY <1>1, <1>2 DEF Pixels
<1> QED
  BY <1>1, <1>3

\* get_pix_for_bin fills the caller's memory with the pixels of the bin, in
\* whatever order bins are asked for and wherever the read thread stands.
THEOREM BinsCorrect == Spec => []BinPixelsReturned
BY Invariant, BinReturned, PTL

LEMMA BuffersHold ==
  ASSUME IInv
  PROVE  BuffersHoldFile
<1>1. CacheHoldsFile
  BY DEF IInv, CacheInv, CacheHoldsFile
<1>2. BuffersSameSize
  BY DEF IInv, SizeInv, BuffersSameSize, Reading
<1>3. ThreadDataRight
  <2> SUFFICES ASSUME HasThread, pix_read, ~pix_read_job_completed
               PROVE  /\ n_first_threadbuf_pix + num_treadbuf_pix <= nPixInFile
                      /\ SubSeq(thread_pix_buffer, 1, num_treadbuf_pix) =
                           Pixels(n_first_threadbuf_pix, num_treadbuf_pix)
    BY DEF ThreadDataRight
  <2>1. /\ n_first_threadbuf_pix + num_treadbuf_pix <= nPixInFile
        /\ num_treadbuf_pix <= Len(thread_pix_buffer)
        /\ \A i \in 1..num_treadbuf_pix :
             thread_pix_buffer[i] = n_first_threadbuf_pix + i - 1
    BY DEF IInv, DataInv
  <2>2. SubSeq(thread_pix_buffer, 1, num_treadbuf_pix) =
          [i \in 1..num_treadbuf_pix |-> thread_pix_buffer[i]]
    BY <2>1, CallFacts DEF Memory
  <2> QED
    BY <2>1, <2>2 DEF Pixels
<1> QED
  BY <1>1, <1>2, <1>3 DEF BuffersHoldFile

\* Both buffers hold the pixels of the file they are said to hold, however they
\* are swapped and resized, and have one size between calls.
THEOREM BuffersCorrect == Spec => []BuffersHoldFile
BY Invariant, BuffersHold, PTL
=============================================================================
