---------------------------- MODULE PixelDataProofs ----------------------------
(***************************************************************************)
(* Proofs about PixelData: for every size of a page, every file and every  *)
(* mixture of methods the assumption allows, the object is a list of pages *)
(* of which an edit changes only the current one, each can be loaded, each *)
(* pixel is found by its index, and the range covers them all.             *)
(*                                                                         *)
(* The invariant says where the pixels are: page_dirty_ marks every page   *)
(* with a tmp file, a page that is not cached is in its tmp file or in the *)
(* file, which is then open, and a cached page differs from what is stored *)
(* only if it is marked as edited.                                         *)
(***************************************************************************)
EXTENDS PixelData, WellFoundedInduction, TLAPS

(***************************************************************************)
(* The parts of an object by number of pixels n, with a page BasePage long. *)
(***************************************************************************)
Start(p) == (p - 1) * BasePage
PagesOf(n) == MaxOf(CeilDiv(n, BasePage), 1)
PageLen(n, p) == MinOf(BasePage, n - Start(p))
CleanOf(f, n, p) == SubSeq(f, Start(p) + 1, MinOf(MinOf(Start(p) + BasePage, n), Len(f)))
StoredOf(f, n, t, p) == IF p \in DOMAIN t THEN t[p] ELSE CleanOf(f, n, p)

NPages == PagesOf(num_pixels_)
Stored(p) == StoredOf(file, num_pixels_, tmp, p)
Now(p) == IF p = page_number_ /\ raw_data_ # << >> THEN raw_data_ ELSE Stored(p)

(***************************************************************************)
(* The inductive invariant.                                                *)
(***************************************************************************)
TypeInv ==
  /\ uses \in Sessions /\ file \in Seq(Pixel) /\ raw_data_ \in Seq(Pixel)
  /\ f_accessor_ \in BOOLEAN /\ dirty_page_edited_ \in BOOLEAN
  /\ num_pixels_ \in 1..MaxPixels /\ page_number_ \in 1..NPages
  /\ page_dirty_ \subseteq 1..NPages /\ DOMAIN tmp \subseteq page_dirty_
  /\ \A p \in DOMAIN tmp : tmp[p] \in Seq(Pixel)
  /\ pix_range_ \in Int \X Int /\ sweep \in {"none", "edit", "next"}

\* A file stays open while there are several pages; without append it has all.
FileInv ==
  /\ f_accessor_ => NPages > 1
  /\ "append" \notin uses =>
       /\ NPages > 1 => f_accessor_ /\ file # << >>
       /\ file # << >> => Len(file) = num_pixels_

\* The marks of edited pages.
DirtyInv ==
  /\ dirty_page_edited_ => raw_data_ # << >> /\ page_number_ \in page_dirty_
  /\ "nosave" \notin uses =>
       \A p \in page_dirty_ : p \in DOMAIN tmp \/ (p = page_number_ /\ dirty_page_edited_)

\* Unless it was edited in the cache, a page has its pixels in a tmp file or the
\* open file.
StoredInv ==
  NPages > 1 =>
    \A p \in 1..NPages :
      p # page_number_ \/ ~dirty_page_edited_ \/ "append" \notin uses =>
        Len(Stored(p)) = PageLen(num_pixels_, p) /\ (p \in DOMAIN tmp \/ f_accessor_)

\* The cache is the current page, as it is stored unless it was edited.
CachedInv ==
  /\ raw_data_ = << >> => NPages > 1
  /\ raw_data_ # << >> =>
       /\ Len(raw_data_) = PageLen(num_pixels_, page_number_)
       /\ NPages > 1 /\ ~dirty_page_edited_ => raw_data_ = Stored(page_number_)

Covered(pix, r) == \A i \in DOMAIN pix : pix[i].u >= r[1] /\ pix[i].u <= r[2]

\* The range covers each page, also as it is put back by nosave.
RangeInv ==
  "copy" \notin uses /\ ("append" \in uses => f_accessor_) =>
    \A p \in 1..NPages :
      /\ Covered(Now(p), pix_range_)
      /\ NPages > 1 /\ "nosave" \in uses => Covered(Stored(p), pix_range_)

\* In a sweep the pages in front of the current one have been done.
SweepInv ==
  /\ sweep # "none" =>
       goal = [p \in 1..NPages |-> IF p < page_number_ \/ (p = page_number_ /\ sweep = "next")
                                 THEN Now(p) ELSE Flip(Now(p))]
  /\ sweep = "next" => raw_data_ # << >>

IInv == TypeInv /\ FileInv /\ DirtyInv /\ StoredInv /\ CachedInv /\ RangeInv /\ SweepInv

(***************************************************************************)
(* Arithmetic of pages.                                                    *)
(***************************************************************************)
LEMMA LeastOfNats ==
  ASSUME NEW S \in SUBSET Nat, S # {}
  PROVE  \E x \in S : \A y \in S : x <= y
<1>1. PICK x \in S : \A y \in S : ~ (<<y, x>> \in OpToRel(<, Nat))
  BY WFMin, NatLessThanWellFounded
<1>2. \A y \in S : ~ (y < x)
  BY <1>1 DEF OpToRel
<1> QED
  BY <1>2

LEMMA StartFacts ==
  /\ Start(1) = 0
  /\ \A p \in Nat \ {0} : /\ Start(p) \in Nat /\ Start(p + 1) = Start(p) + BasePage
                          /\ Start(p) + BasePage = p * BasePage
                          /\ Start(p) = (p - 1) * BasePage
  /\ \A p, q \in Nat \ {0} : p < q => Start(p) + BasePage <= Start(q)
<1> USE PixelAssumption
<1>1. \A a, b \in Nat : a * b \in Nat
  OBVIOUS
<1>2. \A p \in Nat \ {0} : Start(p) \in Nat
  BY <1>1 DEF Start
<1>3. \A p, q \in Nat \ {0} : p < q => Start(p) + BasePage <= Start(q)
  <2> SUFFICES ASSUME NEW p \in Nat \ {0}, NEW q \in Nat \ {0}, p < q
               PROVE  Start(p) + BasePage <= Start(q)
    OBVIOUS
  <2> DEFINE d == q - p - 1
  <2>1. d \in Nat /\ q - 1 = (p - 1) + 1 + d
    OBVIOUS
  <2>2. d * BasePage \in Nat
    BY <2>1, <1>1
  <2>3. (q - 1) * BasePage = (p - 1) * BasePage + BasePage + d * BasePage
    OBVIOUS
  <2> QED
    BY <2>2, <2>3, <1>2 DEF Start
<1>4. \A p \in Nat \ {0} : Start(p + 1) = Start(p) + BasePage /\ Start(p) + BasePage = p * BasePage
  BY DEF Start
<1> QED
  BY <1>2, <1>3, <1>4 DEF Start

LEMMA DivFacts ==
  ASSUME NEW a \in Nat, NEW b \in Nat \ {0}
  PROVE  a \div b \in Nat /\ b * (a \div b) <= a /\ a < b * (a \div b) + b
OBVIOUS

LEMMA PageCountFacts ==
  ASSUME NEW n \in Nat \ {0}
  PROVE  /\ PagesOf(n) \in Nat \ {0} /\ PagesOf(n) = CeilDiv(n, BasePage)
         /\ Start(PagesOf(n)) < n /\ n <= Start(PagesOf(n)) + BasePage
<1> USE PixelAssumption
<1> DEFINE q == (n + BasePage - 1) \div BasePage
<1>1. q \in Nat /\ BasePage * q <= n + BasePage - 1 /\ n + BasePage - 1 < BasePage * q + BasePage
  BY DivFacts
<1> HIDE DEF q
<1>2. q # 0
  BY <1>1
<1>3. Start(q) + BasePage = BasePage * q /\ Start(q) \in Nat
  <2>1. q \in Nat \ {0} /\ q * BasePage = BasePage * q
    BY <1>1, <1>2
  <2> QED
    BY <2>1, StartFacts
<1>4. PagesOf(n) = q /\ CeilDiv(n, BasePage) = q
  BY <1>1, <1>2 DEF PagesOf, CeilDiv, MaxOf, q
<1> QED
  BY <1>1, <1>2, <1>3, <1>4

\* The number of pages is the only one whose last page has pixels and no more than fit.
LEMMA PageCountIs ==
  ASSUME NEW n \in Nat \ {0}, NEW p \in Nat \ {0}, Start(p) < n
  PROVE  /\ p <= PagesOf(n)
         /\ n <= Start(p) + BasePage => p = PagesOf(n)
<1>1. PagesOf(n) < p => Start(PagesOf(n)) + BasePage <= Start(p)
  BY StartFacts, PageCountFacts
<1>2. p < PagesOf(n) => Start(p) + BasePage <= Start(PagesOf(n))
  BY StartFacts, PageCountFacts
<1> HIDE DEF Start, PagesOf
<1>3. /\ PagesOf(n) \in Nat \ {0} /\ Start(PagesOf(n)) < n /\ n <= Start(PagesOf(n)) + BasePage
      /\ Start(p) \in Nat /\ Start(PagesOf(n)) \in Nat /\ BasePage \in Nat
  BY PageCountFacts, StartFacts, PixelAssumption
<1> QED
  BY <1>1, <1>2, <1>3

LEMMA PageLenFacts ==
  ASSUME NEW n \in Nat \ {0}, NEW p \in 1..PagesOf(n)
  PROVE  /\ PageLen(n, p) \in 1..BasePage
         /\ Start(p) \in Nat /\ Start(p) + PageLen(n, p) <= n
         /\ p < PagesOf(n) => PageLen(n, p) = BasePage /\ Start(p) + BasePage < n
         /\ p = PagesOf(n) => PageLen(n, p) = n - Start(p)
<1>1. /\ PagesOf(n) \in Nat \ {0} /\ Start(PagesOf(n)) < n /\ n <= Start(PagesOf(n)) + BasePage
      /\ Start(p) \in Nat /\ Start(PagesOf(n)) \in Nat /\ BasePage \in Nat \ {0}
      /\ p < PagesOf(n) => Start(p) + BasePage <= Start(PagesOf(n))
  <2>1. /\ PagesOf(n) \in Nat \ {0} /\ Start(PagesOf(n)) < n
        /\ n <= Start(PagesOf(n)) + BasePage
    BY PageCountFacts
  <2>2. p \in Nat \ {0}
    BY <2>1
  <2> QED
    BY <2>1, <2>2, StartFacts, PixelAssumption
<1> QED
  BY <1>1 DEF PageLen, MinOf

LEMMA FirstPageFacts ==
  ASSUME NEW n \in Nat \ {0}
  PROVE  /\ 1 \in 1..PagesOf(n)
         /\ PagesOf(n) = 1 => PageLen(n, 1) = n /\ n <= BasePage
         /\ PagesOf(n) > 1 => PageLen(n, 1) = BasePage /\ BasePage < n
<1>1. PagesOf(n) \in Nat \ {0} /\ 1 \in 1..PagesOf(n) /\ Start(1) = 0
  BY PageCountFacts, StartFacts
<1>2. /\ 1 < PagesOf(n) => PageLen(n, 1) = BasePage /\ Start(1) + BasePage < n
      /\ 1 = PagesOf(n) => PageLen(n, 1) = n - Start(1)
      /\ PageLen(n, 1) \in 1..BasePage
  BY <1>1, PageLenFacts
<1> QED
  BY <1>1, <1>2, PixelAssumption

(***************************************************************************)
(* Pages of pixels and their range.                                        *)
(***************************************************************************)
LEMMA PixelType ==
  /\ \A q \in Pixel : /\ q.u \in Int /\ q.s \in {0, 1}
                      /\ [q EXCEPT !.u = -@] \in Pixel /\ [q EXCEPT !.s = 1 - @] \in Pixel
  /\ \A x \in Int : [u |-> x, s |-> 0] \in Pixel
BY DEF Pixel

LEMMA PixelFacts ==
  ASSUME NEW pix \in Seq(Pixel)
  PROVE  /\ DOMAIN pix = 1..Len(pix) /\ Len(pix) \in Nat
         /\ \A i \in 1..Len(pix) : pix[i] \in Pixel /\ pix[i].u \in Int
<1>1. DOMAIN pix = 1..Len(pix) /\ Len(pix) \in Nat /\ \A i \in 1..Len(pix) : pix[i] \in Pixel
  OBVIOUS
<1> QED
  BY <1>1, PixelType

LEMMA EditedPages ==
  ASSUME NEW pix \in Seq(Pixel)
  PROVE  /\ Flip(pix) \in Seq(Pixel) /\ Len(Flip(pix)) = Len(pix)
         /\ Mirror(pix) \in Seq(Pixel) /\ Len(Mirror(pix)) = Len(pix)
         /\ DOMAIN pix = 1..Len(pix) /\ Len(pix) \in Nat
         /\ pix # << >> <=> Len(pix) > 0
<1>1. DOMAIN pix = 1..Len(pix) /\ Len(pix) \in Nat /\ \A i \in 1..Len(pix) : pix[i] \in Pixel
  OBVIOUS
<1> DEFINE n == Len(pix)
           f == [i \in 1..n |-> [pix[i] EXCEPT !.s = 1 - @]]
           m == [i \in 1..n |-> [pix[i] EXCEPT !.u = -@]]
<1>2. Flip(pix) = f /\ Mirror(pix) = m
  BY <1>1 DEF Flip, Mirror
<1>3. \A i \in 1..n : [pix[i] EXCEPT !.s = 1 - @] \in Pixel /\ [pix[i] EXCEPT !.u = -@] \in Pixel
  BY <1>1, PixelType
<1> HIDE DEF n
<1>4. n \in Nat /\ n = Len(pix)
  BY <1>1 DEF n
<1>5. f \in [1..n -> Pixel] /\ m \in [1..n -> Pixel]
  BY <1>3
<1> HIDE DEF f, m
<1>6. f \in Seq(Pixel) /\ Len(f) = n /\ m \in Seq(Pixel) /\ Len(m) = n
  BY <1>4, <1>5
<1> QED
  BY <1>1, <1>2, <1>4, <1>6

\* A number of integers has a smallest one.
LEMMA LeastOfSeq ==
  ASSUME NEW n \in Nat \ {0}, NEW f \in [1..n -> Int]
  PROVE  \E i \in 1..n : \A j \in 1..n : f[i] <= f[j]
<1> DEFINE HasLeast(k) == \E i \in 1..k : \A j \in 1..k : f[i] <= f[j]
           S == {k \in 1..n : ~HasLeast(k)}
<1>1. HasLeast(1)
  <2>1. 1 \in 1..1 /\ \A j \in 1..1 : f[1] <= f[j]
    OBVIOUS
  <2> QED
    BY <2>1
<1>2. ASSUME NEW k \in 2..n, HasLeast(k - 1)
      PROVE  HasLeast(k)
  <2>1. PICK i \in 1..(k - 1) : \A j \in 1..(k - 1) : f[i] <= f[j]
    BY <1>2
  <2>2. /\ i \in 1..k /\ k \in 1..k /\ f[i] \in Int /\ f[k] \in Int
        /\ \A j \in 1..k : f[j] \in Int /\ (j = k \/ j \in 1..(k - 1))
    OBVIOUS
  <2>3. CASE f[i] <= f[k]
    <3>1. \A j \in 1..k : f[i] <= f[j]
      BY <2>1, <2>2, <2>3
    <3> QED
      BY <2>2, <3>1
  <2>4. CASE ~(f[i] <= f[k])
    <3>1. \A j \in 1..k : f[k] <= f[j]
      BY <2>1, <2>2, <2>4
    <3> QED
      BY <2>2, <3>1
  <2> QED
    BY <2>3, <2>4
<1> HIDE DEF HasLeast
<1>3. S = {}
  <2> SUFFICES ASSUME S # {} PROVE FALSE
    OBVIOUS
  <2>1. S \in SUBSET Nat
    OBVIOUS
  <2>2. PICK k \in S : \A y \in S : k <= y
    BY <2>1, LeastOfNats
  <2>3. k \in 2..n /\ ~HasLeast(k) /\ k - 1 \in 1..n
    BY <2>2, <1>1
  <2>4. k - 1 \notin S
    BY <2>2, <2>3
  <2>5. HasLeast(k - 1)
    BY <2>3, <2>4
  <2> QED
    BY <2>3, <2>5, <1>2
<1>4. HasLeast(n)
  BY <1>3
<1> QED
  BY <1>4 DEF HasLeast

LEMMA RangeFacts ==
  ASSUME NEW pix \in Seq(Pixel), pix # << >>
  PROVE  CoordRange(pix) \in Int \X Int /\ Covered(pix, CoordRange(pix))
<1> DEFINE n == Len(pix)
           us == {pix[i].u : i \in DOMAIN pix}
           f == [i \in 1..n |-> pix[i].u]
           g == [i \in 1..n |-> -pix[i].u]
<1>1. n \in Nat \ {0} /\ DOMAIN pix = 1..n
  BY EditedPages
<1>2. \A i \in 1..n : pix[i].u \in Int
  BY <1>1, PixelFacts
<1>3. f \in [1..n -> Int] /\ g \in [1..n -> Int]
  BY <1>2
<1> HIDE DEF n
<1>4. PICK i \in 1..n : \A j \in 1..n : f[i] <= f[j]
  BY <1>1, <1>3, LeastOfSeq
<1>5. PICK k \in 1..n : \A j \in 1..n : g[k] <= g[j]
  BY <1>1, <1>3, LeastOfSeq
<1>6. pix[i].u \in us /\ \A x \in us : pix[i].u <= x
  BY <1>1, <1>4
<1>7. pix[k].u \in us /\ \A x \in us : pix[k].u >= x
  BY <1>1, <1>2, <1>5
<1> DEFINE lo == CHOOSE m \in us : \A x \in us : m <= x
           hi == CHOOSE m \in us : \A x \in us : m >= x
<1>8. lo \in us /\ \A x \in us : lo <= x
  BY <1>6
<1>9. hi \in us /\ \A x \in us : hi >= x
  BY <1>7
<1>10. us \subseteq Int
  BY <1>1, <1>2
<1>11. CoordRange(pix) = <<lo, hi>>
  BY DEF CoordRange
<1> HIDE DEF lo, hi
<1>12. \A j \in DOMAIN pix : pix[j].u \in us /\ pix[j].u \in Int
  BY <1>1, <1>2
<1> QED
  BY <1>8, <1>9, <1>10, <1>11, <1>12 DEF Covered

LEMMA WidenFacts ==
  ASSUME NEW r \in Int \X Int, NEW q \in Int \X Int
  PROVE  /\ Widen(r, q) \in Int \X Int
         /\ \A pix \in Seq(Pixel) :
              Covered(pix, r) \/ Covered(pix, q) => Covered(pix, Widen(r, q))
<1>1. /\ Widen(r, q) \in Int \X Int
      /\ Widen(r, q)[1] <= r[1] /\ Widen(r, q)[1] <= q[1]
      /\ Widen(r, q)[2] >= r[2] /\ Widen(r, q)[2] >= q[2]
  BY DEF Widen, MinOf, MaxOf
<1>2. ASSUME NEW pix \in Seq(Pixel), Covered(pix, r) \/ Covered(pix, q)
      PROVE  Covered(pix, Widen(r, q))
  <2>1. \A i \in DOMAIN pix : pix[i].u \in Int
    BY PixelFacts
  <2> QED
    BY <1>1, <1>2, <2>1 DEF Covered
<1> QED
  BY <1>1, <1>2

LEMMA PartFacts ==
  ASSUME NEW pix \in Seq(Pixel), NEW a \in Nat \ {0}, NEW b \in Nat, a <= b + 1, b <= Len(pix)
  PROVE  /\ SubSeq(pix, a, b) \in Seq(Pixel) /\ Len(SubSeq(pix, a, b)) = b - a + 1
         /\ \A k \in 1..(b - a + 1) : SubSeq(pix, a, b)[k] = pix[a + k - 1]
<1>1. Len(pix) \in Nat /\ \A i \in 1..Len(pix) : pix[i] \in Pixel
  BY PixelFacts
<1> DEFINE n == b - a + 1
           f == [k \in 1..n |-> pix[k + a - 1]]
<1>2. SubSeq(pix, a, b) = f
  OBVIOUS
<1>3. n \in Nat /\ \A k \in 1..n : k + a - 1 \in 1..Len(pix)
  BY <1>1
<1>4. f \in [1..n -> Pixel]
  BY <1>1, <1>3
<1>5. \A k \in 1..n : f[k] = pix[a + k - 1]
  OBVIOUS
<1> HIDE DEF n, f
<1>6. f \in Seq(Pixel) /\ Len(f) = n
  BY <1>3, <1>4
<1> QED
  BY <1>2, <1>5, <1>6 DEF n

LEMMA NewPixelsFacts ==
  ASSUME NEW a \in Nat \ {0}, NEW b \in Nat, a <= b + 1
  PROVE  /\ NewPixels(a, b) \in Seq(Pixel) /\ Len(NewPixels(a, b)) = b - a + 1
         /\ \A k \in 1..(b - a + 1) : NewPixels(a, b)[k].u = a + k - 1
<1> DEFINE n == b - a + 1
           f == [i \in 1..n |-> [u |-> a + i - 1, s |-> 0]]
<1>1. n \in Nat /\ NewPixels(a, b) = f
  BY DEF NewPixels
<1>2. \A i \in 1..n : f[i] \in Pixel /\ f[i].u = a + i - 1
  BY PixelType
<1>3. f \in [1..n -> Pixel]
  BY <1>2
<1> HIDE DEF n, f
<1>4. f \in Seq(Pixel) /\ Len(f) = n
  BY <1>1, <1>3
<1> QED
  BY <1>1, <1>2, <1>4 DEF n

LEMMA FilePixelsFacts ==
  ASSUME NEW n \in Nat \ {0}
  PROVE  /\ NewPixels(1, n) \in Seq(Pixel) /\ Len(NewPixels(1, n)) = n
         /\ \A i \in 1..n : NewPixels(1, n)[i].u = i
<1>1. 1 \in Nat \ {0} /\ n \in Nat /\ 1 <= n + 1
  OBVIOUS
<1>2. /\ NewPixels(1, n) \in Seq(Pixel) /\ Len(NewPixels(1, n)) = n - 1 + 1
      /\ \A k \in 1..(n - 1 + 1) : NewPixels(1, n)[k].u = 1 + k - 1
  BY <1>1, NewPixelsFacts
<1>3. n - 1 + 1 = n /\ \A k \in 1..n : 1 + k - 1 = k
  OBVIOUS
<1> QED
  BY <1>2, <1>3

\* The pixels of page p in the file: all of the page once the file has them.
LEMMA CleanFacts ==
  ASSUME NEW f \in Seq(Pixel), NEW n \in Nat \ {0}, NEW p \in 1..PagesOf(n)
  PROVE  /\ CleanOf(f, n, p) \in Seq(Pixel)
         /\ Len(f) = n => Len(CleanOf(f, n, p)) = PageLen(n, p)
         /\ Len(CleanOf(f, n, p)) <= BasePage
         /\ \A k \in 1..Len(CleanOf(f, n, p)) :
              Start(p) + k <= Len(f) /\ CleanOf(f, n, p)[k] = f[Start(p) + k]
<1> DEFINE e == MinOf(MinOf(Start(p) + BasePage, n), Len(f))
<1>1. /\ Start(p) \in Nat /\ Start(p) < n /\ BasePage \in Nat \ {0} /\ Len(f) \in Nat
      /\ PageLen(n, p) = MinOf(BasePage, n - Start(p))
  BY PageLenFacts, PixelFacts, PixelAssumption DEF PageLen
<1>2. /\ e \in Nat /\ e <= Len(f) /\ e <= Start(p) + BasePage
      /\ Len(f) = n => e - Start(p) = PageLen(n, p)
  BY <1>1 DEF MinOf
<1>3. CleanOf(f, n, p) = SubSeq(f, Start(p) + 1, e)
  BY DEF CleanOf
<1> HIDE DEF e
<1>4. CASE Start(p) <= e
  <2>1. /\ CleanOf(f, n, p) \in Seq(Pixel) /\ Len(CleanOf(f, n, p)) = e - Start(p)
        /\ \A k \in 1..(e - Start(p)) : CleanOf(f, n, p)[k] = f[Start(p) + k]
    <3>1. Start(p) + 1 \in Nat \ {0} /\ Start(p) + 1 <= e + 1 /\ e - (Start(p) + 1) + 1 = e - Start(p)
          /\ \A k \in 1..(e - Start(p)) : (Start(p) + 1) + k - 1 = Start(p) + k
      BY <1>1, <1>2, <1>4, SMTT(30)
    <3> QED
      BY <1>2, <1>3, <3>1, PartFacts
  <2> QED
    BY <1>1, <1>2, <1>4, <2>1
<1>5. CASE ~(Start(p) <= e)
  <2>1. CleanOf(f, n, p) = << >>
    BY <1>1, <1>2, <1>3, <1>5
  <2>2. Len(f) # n
    BY <1>1, <1>2, <1>5, PageLenFacts
  <2> QED
    BY <1>1, <2>1, <2>2
<1> QED
  BY <1>4, <1>5

LEMMA StoredAfterWrite ==
  ASSUME NEW f, NEW n, NEW t, NEW p, NEW pix
  PROVE  /\ StoredOf(f, n, WithTmp(t, p, pix), p) = pix
         /\ \A q : q # p => StoredOf(f, n, WithTmp(t, p, pix), q) = StoredOf(f, n, t, q)
<1> DEFINE w == WithTmp(t, p, pix)
<1>1. DOMAIN w = DOMAIN t \cup {p} /\ w[p] = pix /\ \A q \in DOMAIN t : q # p => w[q] = t[q]
  BY DEF WithTmp
<1> HIDE DEF w
<1>2. StoredOf(f, n, w, p) = pix
  BY <1>1 DEF StoredOf
<1>3. ASSUME NEW q, q # p
      PROVE  StoredOf(f, n, w, q) = StoredOf(f, n, t, q)
  <2>1. q \in DOMAIN w <=> q \in DOMAIN t
    BY <1>1, <1>3
  <2>2. q \in DOMAIN t => w[q] = t[q]
    BY <1>1, <1>3
  <2> QED
    BY <2>1, <2>2 DEF StoredOf
<1> QED
  BY <1>2, <1>3 DEF w

(***************************************************************************)
(* The derived properties of the class in a state of the invariant.        *)
(***************************************************************************)
LEMMA SizeFacts ==
  ASSUME TypeInv, CachedInv
  PROVE  /\ num_pixels_ \in Nat \ {0} /\ NPages \in Nat \ {0} /\ page_number_ \in 1..NPages
         /\ Len(raw_data_) \in 0..BasePage /\ base_page_size = BasePage /\ NumPages = NPages
<1>1. num_pixels_ \in Nat \ {0}
  BY DEF TypeInv
<1>2. NPages \in Nat \ {0} /\ page_number_ \in 1..NPages
  BY <1>1, PageCountFacts DEF TypeInv, NPages
<1>3. Len(raw_data_) \in 0..BasePage
  <2>1. CASE raw_data_ = << >>
    BY <2>1, PixelAssumption
  <2>2. CASE raw_data_ # << >>
    <3>1. Len(raw_data_) = PageLen(num_pixels_, page_number_)
      BY <2>2 DEF CachedInv
    <3> QED
      BY <1>1, <1>2, <3>1, PageLenFacts, PixelAssumption DEF NPages
  <2> QED
    BY <2>1, <2>2
<1>4. base_page_size = BasePage
  BY <1>3, PixelAssumption DEF base_page_size, PageSize, MaxOf
<1> QED
  BY <1>1, <1>2, <1>3, <1>4 DEF NumPages, NPages, PagesOf

LEMMA View ==
  ASSUME IInv
  PROVE  /\ FileBacked <=> NPages > 1
         /\ CacheEmpty <=> raw_data_ = << >>
         /\ \A p \in 1..NPages : /\ HasTmp(p) <=> p \in DOMAIN tmp
                                 /\ CleanPage(p) = CleanOf(file, num_pixels_, p)
                                 /\ StoredPage(p) = Stored(p)
                                 /\ PageNow(p) = Now(p)
<1>1. /\ base_page_size = BasePage /\ NumPages = NPages /\ NPages \in Nat \ {0}
      /\ page_number_ \in 1..NPages
  BY SizeFacts DEF IInv
<1>2. FileBacked <=> NPages > 1
  BY <1>1 DEF FileBacked, IInv, FileInv
<1>3. ASSUME NEW p \in 1..NPages
      PROVE  /\ HasTmp(p) <=> p \in DOMAIN tmp
             /\ CleanPage(p) = CleanOf(file, num_pixels_, p)
             /\ StoredPage(p) = Stored(p)
  <2>1. HasTmp(p) <=> p \in DOMAIN tmp
    BY DEF HasTmp, IInv, TypeInv
  <2>2. Start(p) = (p - 1) * BasePage /\ Start(p) + BasePage = p * BasePage
    BY <1>1, StartFacts
  <2>3. CleanPage(p) = CleanOf(file, num_pixels_, p)
    BY <1>1, <2>2 DEF CleanPage, CleanOf
  <2> QED
    BY <2>1, <2>3 DEF StoredPage, Stored, StoredOf
<1>4. CacheEmpty <=> raw_data_ = << >>
  BY DEF CacheEmpty
<1> QED
  BY <1>1, <1>2, <1>3, <1>4 DEF PageNow, Now

\* Every page can be had, with the pixels that belong to it.
LEMMA NowFacts ==
  ASSUME IInv, NEW p \in 1..NPages
  PROVE  /\ Stored(p) \in Seq(Pixel) /\ Now(p) \in Seq(Pixel)
         /\ Len(Now(p)) = PageLen(num_pixels_, p) /\ Len(Now(p)) \in 1..BasePage
         /\ Now(p) # << >>
<1>1. num_pixels_ \in Nat \ {0} /\ NPages \in Nat \ {0} /\ page_number_ \in 1..NPages
  BY SizeFacts DEF IInv
<1>2. Stored(p) \in Seq(Pixel)
  BY <1>1, CleanFacts DEF Stored, StoredOf, NPages, IInv, TypeInv
<1>3. PageLen(num_pixels_, p) \in 1..BasePage
  BY <1>1, PageLenFacts DEF NPages
<1>4. CASE p = page_number_ /\ raw_data_ # << >>
  BY <1>2, <1>3, <1>4 DEF Now, IInv, CachedInv, TypeInv
<1>5. CASE ~(p = page_number_ /\ raw_data_ # << >>)
  <2>1. NPages > 1
    BY <1>1, <1>5 DEF IInv, CachedInv
  <2>2. Len(Stored(p)) = PageLen(num_pixels_, p)
    BY <2>1, <1>5 DEF IInv, StoredInv, DirtyInv
  <2> QED
    BY <1>2, <1>3, <1>5, <2>2 DEF Now
<1> QED
  BY <1>4, <1>5

\* Loading a page of several opens and closes nothing.
LEMMA LoadedFacts ==
  ASSUME IInv, NPages > 1, NEW p \in 1..NPages
  PROVE  Loaded(p) = [raw |-> Stored(p),
                      dirty |-> IF p \in DOMAIN tmp THEN page_dirty_ ELSE page_dirty_ \ {p},
                      open |-> f_accessor_, edited |-> FALSE]
<1>1. /\ num_pixels_ \in Nat \ {0} /\ NPages \in Nat \ {0} /\ file \in Seq(Pixel)
      /\ f_accessor_ \in BOOLEAN
  BY SizeFacts DEF IInv, TypeInv
<1>2. Len(CleanOf(file, num_pixels_, p)) <= BasePage /\ CleanOf(file, num_pixels_, p) \in Seq(Pixel)
  BY <1>1, CleanFacts DEF NPages
<1>3. Start(1) = 0 /\ Start(1) + BasePage < num_pixels_
  BY <1>1, PageLenFacts, StartFacts DEF NPages
<1>4. Len(CleanPage(p)) # num_pixels_
  <2>1. CleanPage(p) = CleanOf(file, num_pixels_, p)
    BY View
  <2>2. Len(CleanOf(file, num_pixels_, p)) \in Nat
    BY <1>2
  <2> QED
    BY <1>1, <1>2, <1>3, <2>1, <2>2, PixelAssumption
<1>5. (f_accessor_ /\ (HasTmp(p) \/ Len(CleanPage(p)) # num_pixels_)) = f_accessor_
  BY <1>1, <1>4
<1>6. StoredPage(p) = Stored(p) /\ (HasTmp(p) <=> p \in DOMAIN tmp)
  BY View
<1> QED
  BY <1>5, <1>6 DEF Loaded

LEMMA CurrentFacts ==
  ASSUME IInv
  PROVE  /\ Current.raw = Now(page_number_) /\ Current.open = f_accessor_
         /\ Current.edited = dirty_page_edited_
         /\ Current.dirty \subseteq page_dirty_ /\ DOMAIN tmp \subseteq Current.dirty
         /\ page_dirty_ \ {page_number_} \subseteq Current.dirty
         /\ raw_data_ # << >> \/ "nosave" \notin uses => Current.dirty = page_dirty_
         /\ Current = [raw |-> Current.raw, dirty |-> Current.dirty, open |-> Current.open,
                       edited |-> Current.edited]
<1>1. page_number_ \in 1..NPages
  BY SizeFacts DEF IInv
<1>2. CASE raw_data_ # << >>
  <2>1. Current = Cached
    BY <1>2 DEF Current, CacheEmpty
  <2> QED
    BY <1>1, <1>2, <2>1 DEF Cached, Now, IInv, TypeInv
<1>3. CASE raw_data_ = << >>
  <2>1. NPages > 1 /\ FileBacked
    BY <1>3, View DEF IInv, CachedInv
  <2>2. Current = [raw |-> Stored(page_number_),
                   dirty |-> IF page_number_ \in DOMAIN tmp THEN page_dirty_
                             ELSE page_dirty_ \ {page_number_},
                   open |-> f_accessor_, edited |-> FALSE]
    BY <1>1, <1>3, <2>1, LoadedFacts DEF Current, CacheEmpty
  <2>3. dirty_page_edited_ = FALSE /\ Now(page_number_) = Stored(page_number_)
    BY <1>3 DEF IInv, DirtyInv, TypeInv, Now
  <2>4. DOMAIN tmp \subseteq page_dirty_
    BY DEF IInv, TypeInv
  <2>5. "nosave" \notin uses => (page_number_ \in page_dirty_ => page_number_ \in DOMAIN tmp)
    BY <1>3 DEF IInv, DirtyInv
  <2> QED
    BY <1>3, <2>2, <2>3, <2>4, <2>5
<1> QED
  BY <1>2, <1>3

(***************************************************************************)
(* The steps.  Base is the invariant without the sweep.                    *)
(***************************************************************************)
Base == TypeInv /\ FileInv /\ DirtyInv /\ StoredInv /\ CachedInv /\ RangeInv
SamePlace == /\ NPages' = NPages /\ page_number_' = page_number_
             /\ \A p \in 1..NPages : Stored(p)' = Stored(p)

\* What a step does to the pages an object consists of.
PagesKept == \A p \in 1..NPages : Now(p)' = Now(p)
PageDiscarded ==
  \A p \in 1..NPages : Now(p)' = IF p = page_number_ THEN Stored(p) ELSE Now(p)
NoneCached == \A p \in 1..NPages : Now(p)' = Stored(p)'

LEMMA RangeAfterFacts ==
  ASSUME IInv, NEW pix \in Seq(Pixel), Len(pix) \in 1..BasePage
  PROVE  RangeAfter(pix, f_accessor_, pix_range_)
           = IF f_accessor_ THEN Widen(pix_range_, CoordRange(pix)) ELSE CoordRange(pix)
<1>1. PageSize(pix) = BasePage
  BY PixelAssumption DEF PageSize, MaxOf
<1>2. NPages = CeilDiv(num_pixels_, BasePage)
  BY SizeFacts, PageCountFacts DEF IInv, NPages
<1>3. f_accessor_ => CeilDiv(num_pixels_, BasePage) > 1
  BY <1>2 DEF IInv, FileInv
<1> QED
  BY <1>1, <1>3 DEF RangeAfter

LEMMA GetStep ==
  ASSUME IInv, Get
  PROVE  IInv' /\ SamePlace /\ PagesKept /\ uses' = uses
<1>1. /\ raw_data_' = Now(page_number_) /\ f_accessor_' = f_accessor_
      /\ dirty_page_edited_' = dirty_page_edited_ /\ page_dirty_' = Current.dirty
      /\ UNCHANGED <<uses, file, num_pixels_, page_number_, tmp, pix_range_, sweep, goal>>
      /\ sweep = "none"
  BY CurrentFacts DEF Get, Idle, Store
<1>2. page_number_ \in 1..NPages /\ NPages \in Nat \ {0}
  BY SizeFacts DEF IInv
<1>3. NPages' = NPages /\ \A p : Stored(p)' = Stored(p)
  BY <1>1 DEF NPages, Stored
<1>4. \A p \in 1..NPages : Now(p)' = Now(p)
  BY <1>1, <1>2, <1>3, NowFacts DEF Now
<1>5. TypeInv'
  <2>1. Now(page_number_) \in Seq(Pixel)
    BY <1>2, NowFacts
  <2>2. Current.dirty \subseteq page_dirty_ /\ DOMAIN tmp \subseteq Current.dirty
    BY CurrentFacts
  <2> QED
    BY <1>1, <1>3, <2>1, <2>2 DEF IInv, TypeInv
<1>6. FileInv'
  BY <1>1, <1>3 DEF IInv, FileInv
<1>7. DirtyInv'
  <2>1. Now(page_number_) # << >>
    BY <1>2, NowFacts
  <2>2. dirty_page_edited_ => page_number_ \in Current.dirty
    BY CurrentFacts DEF IInv, DirtyInv
  <2>3. Current.dirty \subseteq page_dirty_
    BY CurrentFacts
  <2> QED
    BY <1>1, <2>1, <2>2, <2>3 DEF IInv, DirtyInv
<1>8. StoredInv'
  BY <1>1, <1>3 DEF IInv, StoredInv
<1>9. CachedInv'
  <2>1. Now(page_number_) # << >> /\ Len(Now(page_number_)) = PageLen(num_pixels_, page_number_)
    BY <1>2, NowFacts
  <2>2. NPages > 1 /\ ~dirty_page_edited_ => Now(page_number_) = Stored(page_number_)
    BY DEF IInv, CachedInv, Now
  <2> QED
    BY <1>1, <1>3, <2>1, <2>2 DEF CachedInv
<1>10. RangeInv'
  <2>1. ASSUME NEW p \in 1..NPages
        PROVE  /\ Covered(Now(p), pix_range_)' <=> Covered(Now(p), pix_range_)
               /\ Covered(Stored(p), pix_range_)' <=> Covered(Stored(p), pix_range_)
    BY <1>1, <1>3, <1>4 DEF Covered
  <2> QED
    BY <1>1, <1>3, <2>1 DEF IInv, RangeInv
<1>11. SweepInv'
  BY <1>1 DEF SweepInv
<1> QED
  BY <1>1, <1>3, <1>4, <1>5, <1>6, <1>7, <1>8, <1>9, <1>10, <1>11 DEF IInv, SamePlace, PagesKept

\* A setter puts new in the place of the current page.
LEMMA EditStep ==
  ASSUME IInv, NEW new \in Seq(Pixel), Len(new) = Len(Now(page_number_)),
         Store(Edited(Current, new)),
         pix_range_' = RangeAfter(raw_data_', Current.open, pix_range_),
         UNCHANGED <<uses, file, num_pixels_, page_number_, tmp>>,
         sweep' \in {"none", "edit", "next"}
  PROVE  /\ Base' /\ SamePlace /\ raw_data_' # << >>
         /\ \A p \in 1..NPages : Now(p)' = IF p = page_number_ THEN new ELSE Now(p)
<1>1. /\ raw_data_' = new /\ f_accessor_' = f_accessor_
      /\ dirty_page_edited_' = TRUE /\ page_dirty_' = Current.dirty \cup {page_number_}
      /\ UNCHANGED <<uses, file, num_pixels_, page_number_, tmp>>
  BY CurrentFacts DEF Store, Edited
<1>2. page_number_ \in 1..NPages /\ NPages \in Nat \ {0}
  BY SizeFacts DEF IInv
<1>3. /\ Len(new) = PageLen(num_pixels_, page_number_) /\ Len(new) \in 1..BasePage
      /\ new # << >>
  BY <1>2, NowFacts, EditedPages
<1>4. NPages' = NPages /\ \A p : Stored(p)' = Stored(p)
  BY <1>1 DEF NPages, Stored
<1>5. \A p \in 1..NPages : Now(p)' = IF p = page_number_ THEN new ELSE Now(p)
  BY <1>1, <1>3, <1>4 DEF Now
<1>6. pix_range_' = IF f_accessor_ THEN Widen(pix_range_, CoordRange(new)) ELSE CoordRange(new)
  BY <1>1, <1>3, CurrentFacts, RangeAfterFacts
<1>7. CoordRange(new) \in Int \X Int /\ Covered(new, CoordRange(new))
  BY <1>3, RangeFacts
<1>8. pix_range_ \in Int \X Int /\ pix_range_' \in Int \X Int
  BY <1>6, <1>7, WidenFacts DEF IInv, TypeInv
<1>9. TypeInv'
  <2>1. Current.dirty \subseteq page_dirty_ /\ DOMAIN tmp \subseteq Current.dirty
    BY CurrentFacts
  <2> QED
    BY <1>1, <1>2, <1>4, <1>8, <2>1 DEF IInv, TypeInv
<1>10. FileInv'
  BY <1>1, <1>4 DEF IInv, FileInv
<1>11. DirtyInv'
  <2>1. Current.dirty \subseteq page_dirty_
    BY CurrentFacts
  <2> QED
    BY <1>1, <1>3, <2>1 DEF IInv, DirtyInv
<1>12. StoredInv'
  BY <1>1, <1>3, <1>4 DEF IInv, StoredInv
<1>13. CachedInv'
  BY <1>1, <1>3, <1>4 DEF CachedInv
<1>14. RangeInv'
  <2> SUFFICES ASSUME "copy" \notin uses, "append" \in uses => f_accessor_, NEW p \in 1..NPages
               PROVE  /\ Covered(Now(p)', pix_range_')
                      /\ NPages > 1 /\ "nosave" \in uses => Covered(Stored(p), pix_range_')
    BY <1>1, <1>4 DEF RangeInv, Covered
  <2>1. CASE f_accessor_
    <3>1. pix_range_' = Widen(pix_range_, CoordRange(new))
      BY <1>6, <2>1
    <3>2. Covered(new, pix_range_')
      BY <3>1, <1>7, <1>8, WidenFacts
    <3>3. \A pix \in Seq(Pixel) : Covered(pix, pix_range_) => Covered(pix, pix_range_')
      BY <3>1, <1>7, <1>8, WidenFacts
    <3>4. /\ Covered(Now(p), pix_range_)
          /\ NPages > 1 /\ "nosave" \in uses => Covered(Stored(p), pix_range_)
      BY <2>1 DEF IInv, RangeInv
    <3> QED
      BY <1>5, <3>2, <3>3, <3>4, NowFacts
  <2>2. CASE ~f_accessor_
    <3>1. NPages = 1 /\ p = page_number_
      BY <1>2, <2>2 DEF IInv, FileInv
    <3> QED
      BY <1>5, <1>6, <1>7, <2>2, <3>1
  <2> QED
    BY <2>1, <2>2
<1> QED
  BY <1>1, <1>3, <1>4, <1>5, <1>9, <1>10, <1>11, <1>12, <1>13, <1>14 DEF Base, SamePlace

\* Turning to page p writes the edited page, or with nosave forgets the edit.
LEMMA TurnStep ==
  ASSUME IInv, NEW p \in 1..NPages, NEW nosave \in BOOLEAN, TurnTo(p, nosave),
         nosave => "nosave" \in uses, sweep' \in {"none", "edit", "next"}
  PROVE  /\ Base' /\ NPages > 1 /\ NPages' = NPages /\ page_number_' = p /\ raw_data_' = << >>
         /\ uses' = uses /\ NoneCached
         /\ ~nosave => PagesKept
         /\ nosave => PageDiscarded
<1> DEFINE w == ~nosave /\ dirty_page_edited_
<1>1. page_number_ \in 1..NPages /\ NPages \in Nat \ {0} /\ NPages > 1
  BY SizeFacts, View DEF IInv, TurnTo
<1>2. /\ raw_data_' = << >> /\ page_number_' = p /\ dirty_page_edited_' = FALSE
      /\ UNCHANGED <<uses, file, f_accessor_, num_pixels_, page_dirty_, pix_range_>>
  BY DEF TurnTo
<1>3. w => /\ tmp' = WithTmp(tmp, page_number_, raw_data_) /\ raw_data_ = Now(page_number_)
           /\ page_number_ \in page_dirty_
  <2> SUFFICES ASSUME w
               PROVE  /\ tmp' = WithTmp(tmp, page_number_, raw_data_)
                      /\ raw_data_ = Now(page_number_) /\ page_number_ \in page_dirty_
    OBVIOUS
  <2>1. raw_data_ # << >> /\ page_number_ \in page_dirty_
    BY DEF IInv, DirtyInv
  <2>2. Current.raw = raw_data_ /\ raw_data_ = Now(page_number_)
    BY <2>1, CurrentFacts DEF Now
  <2> QED
    BY <2>1, <2>2 DEF TurnTo
<1>4. ~w => tmp' = tmp
  BY DEF TurnTo
<1>5. NPages' = NPages
  BY <1>2 DEF NPages
<1>6. /\ \A q : q # page_number_ \/ ~w => Stored(q)' = Stored(q)
      /\ w => \A q : q = page_number_ => Stored(q)' = Now(q)
  <2> HIDE DEF w
  <2>1. CASE w
    <3>1. tmp' = WithTmp(tmp, page_number_, Now(page_number_))
      BY <1>3, <2>1
    <3>2. /\ StoredOf(file, num_pixels_, tmp', page_number_) = Now(page_number_)
          /\ \A q : q # page_number_ =>
               StoredOf(file, num_pixels_, tmp', q) = StoredOf(file, num_pixels_, tmp, q)
      BY <3>1, StoredAfterWrite
    <3> QED
      BY <1>2, <2>1, <3>2 DEF Stored
  <2>2. CASE ~w
    BY <1>2, <1>4, <2>2 DEF Stored
  <2> QED
    BY <2>1, <2>2
<1>7. DOMAIN tmp' = IF w THEN DOMAIN tmp \cup {page_number_} ELSE DOMAIN tmp
  BY <1>3, <1>4 DEF WithTmp
<1>8. \A q : Now(q)' = Stored(q)'
  BY <1>2 DEF Now
<1>9. \A q \in 1..NPages : q # page_number_ \/ ~nosave => Now(q)' = Now(q)
  <2>1. ~dirty_page_edited_ => Now(page_number_) = Stored(page_number_)
    BY <1>1 DEF IInv, CachedInv, Now
  <2>2. \A q : q # page_number_ => Now(q) = Stored(q)
    BY DEF Now
  <2>3. w \/ ~dirty_page_edited_ \/ nosave
    BY DEF IInv, TypeInv
  <2> HIDE DEF w
  <2> SUFFICES ASSUME NEW q \in 1..NPages, q # page_number_ \/ ~nosave
               PROVE  Stored(q)' = Now(q)
    BY <1>8
  <2>4. CASE q # page_number_
    BY <1>6, <2>2, <2>4
  <2>5. CASE q = page_number_
    BY <1>6, <2>1, <2>3, <2>5
  <2> QED
    BY <2>4, <2>5
<1>10. \A q : q = page_number_ /\ nosave => Now(q)' = Stored(q)
  <2>1. nosave => ~w
    OBVIOUS
  <2> HIDE DEF w
  <2> QED
    BY <1>6, <1>8, <2>1
<1> HIDE DEF w
<1>11. TypeInv'
  <2>1. /\ Now(page_number_) \in Seq(Pixel) /\ TypeInv /\ << >> \in Seq(Pixel)
        /\ w => tmp' = WithTmp(tmp, page_number_, Now(page_number_))
    BY <1>1, <1>3, NowFacts DEF IInv
  <2>2. \A q \in DOMAIN tmp' : tmp'[q] \in Seq(Pixel)
    <3>1. CASE w
      BY <2>1, <3>1 DEF WithTmp, TypeInv
    <3>2. CASE ~w
      BY <2>1, <3>2, <1>4 DEF TypeInv
    <3> QED
      BY <3>1, <3>2
  <2>3. DOMAIN tmp' \subseteq page_dirty_
    BY <1>3, <1>7, <2>1 DEF TypeInv
  <2> QED
    BY <1>2, <1>5, <2>1, <2>2, <2>3 DEF TypeInv
<1>12. FileInv'
  BY <1>2, <1>5 DEF IInv, FileInv
<1>13. DirtyInv'
  BY <1>2, <1>7 DEF IInv, DirtyInv, w
<1>14. StoredInv'
  <2> SUFFICES ASSUME NEW q \in 1..NPages
               PROVE  /\ Len(Stored(q)') = PageLen(num_pixels_, q)
                      /\ q \in DOMAIN tmp' \/ f_accessor_
    <3> HIDE DEF Stored
    <3> QED
      BY <1>2, <1>5 DEF StoredInv
  <2>1. CASE q = page_number_ /\ w
    BY <1>1, <1>6, <1>7, <2>1, NowFacts
  <2>2. CASE ~(q = page_number_ /\ w)
    <3>1. q # page_number_ \/ ~dirty_page_edited_ \/ "append" \notin uses
      BY <2>2, PixelAssumption DEF w, IInv, TypeInv
    <3>2. Len(Stored(q)) = PageLen(num_pixels_, q) /\ (q \in DOMAIN tmp \/ f_accessor_)
      BY <1>1, <3>1 DEF IInv, StoredInv
    <3>3. Stored(q)' = Stored(q)
      BY <1>6, <2>2
    <3> QED
      BY <1>7, <3>2, <3>3
  <2> QED
    BY <2>1, <2>2
<1>15. CachedInv'
  BY <1>1, <1>2, <1>5 DEF CachedInv
<1>16. RangeInv'
  <2> SUFFICES ASSUME "copy" \notin uses, "append" \in uses => f_accessor_, NEW q \in 1..NPages
               PROVE  Covered(Stored(q)', pix_range_)
    <3> HIDE DEF Stored, Now
    <3>1. "copy" \notin uses' /\ ("append" \in uses' => f_accessor_') =>
            \A q \in 1..NPages : Covered(Stored(q)', pix_range_)
      BY <1>2
    <3>2. pix_range_' = pix_range_ /\ \A q \in 1..NPages : Now(q)' = Stored(q)'
      BY <1>2, <1>8
    <3> QED
      BY <1>5, <3>1, <3>2 DEF RangeInv, Covered
  <2>1. Covered(Now(q), pix_range_) /\ ("nosave" \in uses => Covered(Stored(q), pix_range_))
    BY <1>1 DEF IInv, RangeInv
  <2> QED
    BY <1>8, <1>9, <1>10, <2>1
<1>17. NoneCached
  BY <1>8 DEF NoneCached
<1>18. ~nosave => PagesKept
  BY <1>9 DEF PagesKept
<1>19. nosave => PageDiscarded
  <2> SUFFICES ASSUME nosave, NEW q \in 1..NPages
               PROVE  Now(q)' = IF q = page_number_ THEN Stored(q) ELSE Now(q)
    BY DEF PageDiscarded
  <2>1. CASE q = page_number_
    BY <1>10, <2>1
  <2>2. CASE q # page_number_
    BY <1>9, <2>2
  <2> QED
    BY <2>1, <2>2
<1> QED
  BY <1>1, <1>2, <1>5, <1>11, <1>12, <1>13, <1>14, <1>15, <1>16, <1>17, <1>18, <1>19 DEF Base

\* A copy has the same pages, edited ones from the cache or from tmp files.
LEMMA CopyStep ==
  ASSUME IInv, Copy
  PROVE  /\ IInv' /\ NPages' = NPages /\ page_number_' = page_number_ /\ uses' = uses
         /\ PagesKept /\ (NPages > 1 => SamePlace)
<1>1. /\ raw_data_' = Now(page_number_) /\ UNCHANGED <<uses, sweep, goal>> /\ sweep = "none"
      /\ "copy" \in uses /\ "append" \notin uses
  BY CurrentFacts, PixelAssumption DEF Copy, Idle, IInv, TypeInv
<1>2. page_number_ \in 1..NPages /\ NPages \in Nat \ {0} /\ num_pixels_ \in Nat \ {0}
  BY SizeFacts DEF IInv
<1>3. /\ Now(page_number_) \in Seq(Pixel) /\ Now(page_number_) # << >>
      /\ Len(Now(page_number_)) = PageLen(num_pixels_, page_number_)
      /\ CoordRange(Now(page_number_)) \in Int \X Int
  BY <1>2, NowFacts, RangeFacts
<1>4. CASE FileBacked /\ file # << >>
  <2>1. /\ num_pixels_' = Len(file) /\ f_accessor_' = (Len(file) > BasePage)
        /\ pix_range_' = IF Len(file) > BasePage
                         THEN Widen(CoordRange(file), CoordRange(raw_data_'))
                         ELSE CoordRange(raw_data_')
        /\ UNCHANGED <<file, page_number_, tmp, page_dirty_, dirty_page_edited_>>
    BY <1>4 DEF Copy
  <2>2. NPages > 1 /\ f_accessor_ /\ Len(file) = num_pixels_ /\ file \in Seq(Pixel)
    BY <1>1, <1>4, View DEF IInv, FileInv, TypeInv
  <2>3. num_pixels_ > BasePage
    BY <1>2, <2>2, FirstPageFacts DEF NPages
  <2>4. UNCHANGED <<num_pixels_, f_accessor_>> /\ pix_range_' \in Int \X Int
    BY <1>1, <1>3, <1>4, <2>1, <2>2, <2>3, RangeFacts, WidenFacts DEF IInv, TypeInv
  <2>5. NPages' = NPages /\ \A p : Stored(p)' = Stored(p)
    BY <2>1, <2>4 DEF NPages, Stored
  <2>6. \A p \in 1..NPages : Now(p)' = Now(p)
    BY <1>1, <1>3, <2>1, <2>5 DEF Now
  <2>7. TypeInv'
    BY <1>1, <1>3, <2>1, <2>4, <2>5 DEF IInv, TypeInv
  <2>8. FileInv' /\ DirtyInv' /\ StoredInv'
    BY <1>1, <1>3, <2>1, <2>4, <2>5 DEF IInv, FileInv, DirtyInv, StoredInv
  <2>9. CachedInv'
    <3>1. NPages > 1 /\ ~dirty_page_edited_ => Now(page_number_) = Stored(page_number_)
      BY DEF IInv, CachedInv, Now
    <3> QED
      BY <1>1, <1>3, <2>1, <2>4, <2>5, <3>1 DEF CachedInv
  <2>10. RangeInv' /\ SweepInv'
    BY <1>1 DEF RangeInv, SweepInv
  <2> QED
    BY <1>1, <2>1, <2>5, <2>6, <2>7, <2>8, <2>9, <2>10 DEF IInv, PagesKept, SamePlace
<1>5. CASE ~(FileBacked /\ file # << >>)
  <2>1. /\ num_pixels_' = Len(raw_data_') /\ f_accessor_' = FALSE
        /\ pix_range_' = CoordRange(raw_data_')
        /\ page_number_' = 1 /\ tmp' = << >>
        /\ page_dirty_' = {} /\ dirty_page_edited_' = FALSE /\ file' = << >>
    BY <1>5 DEF Copy
  <2>2. NPages = 1 /\ page_number_ = 1
    BY <1>1, <1>2, <1>5, View DEF IInv, FileInv
  <2>3. num_pixels_' = num_pixels_
    BY <1>1, <1>2, <1>3, <2>1, <2>2, FirstPageFacts DEF NPages
  <2>4. NPages' = NPages
    BY <2>3 DEF NPages
  <2>5. \A p \in 1..NPages : Now(p)' = Now(p)
    BY <1>1, <1>3, <2>1, <2>2 DEF Now
  <2>6. TypeInv'
    <3>1. TypeInv /\ << >> \in Seq(Pixel) /\ DOMAIN << >> = {}
      BY DEF IInv
    <3> QED
      BY <1>1, <1>2, <1>3, <2>1, <2>2, <2>3, <2>4, <3>1 DEF TypeInv
  <2>7. FileInv' /\ DirtyInv' /\ StoredInv' /\ CachedInv'
    BY <1>1, <1>3, <2>1, <2>2, <2>3, <2>4 DEF FileInv, DirtyInv, StoredInv, CachedInv
  <2>8. RangeInv' /\ SweepInv'
    BY <1>1 DEF RangeInv, SweepInv
  <2> QED
    BY <1>1, <2>1, <2>2, <2>4, <2>5, <2>6, <2>7, <2>8 DEF IInv, PagesKept
<1> QED
  BY <1>4, <1>5

LEMMA OnLastFacts ==
  ASSUME IInv
  PROVE  /\ AtLast <=> page_number_ = NPages
         /\ OnLast.raw = Now(NPages) /\ OnLast.open = f_accessor_
         /\ NPages \in 1..NPages /\ Len(Now(NPages)) = num_pixels_ - Start(NPages)
         /\ Start(NPages) \in Nat /\ Now(NPages) \in Seq(Pixel) /\ Now(NPages) # << >>
         /\ Len(Now(NPages)) \in 1..BasePage
<1>1. /\ page_number_ \in 1..NPages /\ NPages \in Nat \ {0} /\ NPages \in 1..NPages
      /\ NumPages = NPages /\ num_pixels_ \in Nat \ {0}
  BY SizeFacts DEF IInv
<1>2. AtLast <=> page_number_ = NPages
  BY <1>1 DEF AtLast
<1>3. OnLast.raw = Now(NPages) /\ OnLast.open = f_accessor_
  <2>1. CASE page_number_ = NPages
    BY <1>2, <2>1, CurrentFacts DEF OnLast
  <2>2. CASE page_number_ # NPages
    <3>1. NPages > 1
      BY <1>1, <2>2
    <3>2. Loaded(NPages).raw = Stored(NPages) /\ Loaded(NPages).open = f_accessor_
      BY <1>1, <3>1, LoadedFacts
    <3> QED
      BY <1>1, <1>2, <2>2, <3>2 DEF OnLast, Now
  <2> QED
    BY <2>1, <2>2
<1>4. Start(NPages) \in Nat /\ PageLen(num_pixels_, NPages) = num_pixels_ - Start(NPages)
  BY <1>1, PageLenFacts DEF NPages
<1> QED
  BY <1>1, <1>2, <1>3, <1>4, NowFacts

\* On turning to the last page to append, the other pages are all kept.
LEMMA KeptFacts ==
  ASSUME IInv, "append" \in uses
  PROVE  /\ NPages \in DOMAIN TmpAtLast <=> NPages \in DOMAIN tmp
         /\ DOMAIN TmpAtLast \subseteq page_dirty_
         /\ \A q \in DOMAIN TmpAtLast : TmpAtLast[q] \in Seq(Pixel)
         /\ \A q \in page_dirty_ : q # NPages => q \in DOMAIN TmpAtLast
         /\ \A q \in 1..NPages :
              IF q = NPages
              THEN StoredOf(file, num_pixels_, TmpAtLast, q) = Stored(q)
              ELSE /\ StoredOf(file, num_pixels_, TmpAtLast, q) = Now(q)
                   /\ q \in DOMAIN TmpAtLast \/ f_accessor_
<1> DEFINE w == page_number_ # NPages /\ dirty_page_edited_
<1>1. page_number_ \in 1..NPages /\ NPages \in Nat \ {0} /\ (AtLast <=> page_number_ = NPages)
  BY SizeFacts, OnLastFacts DEF IInv
<1>2. "nosave" \notin uses
  BY PixelAssumption DEF IInv, TypeInv
<1>3. dirty_page_edited_ => page_number_ \in page_dirty_ /\ raw_data_ = Now(page_number_)
  BY DEF IInv, DirtyInv, Now
<1>4. TmpAtLast = IF w THEN WithTmp(tmp, page_number_, Now(page_number_)) ELSE tmp
  BY <1>1, <1>3 DEF TmpAtLast
<1>5. /\ Now(page_number_) \in Seq(Pixel) /\ DOMAIN tmp \subseteq page_dirty_
      /\ \A q \in DOMAIN tmp : tmp[q] \in Seq(Pixel)
      /\ \A q \in page_dirty_ : q \in DOMAIN tmp \/ (q = page_number_ /\ dirty_page_edited_)
  BY <1>1, <1>2, NowFacts DEF IInv, TypeInv, DirtyInv
<1>6. ~dirty_page_edited_ => Now(page_number_) = Stored(page_number_) \/ NPages = 1
  BY <1>1 DEF IInv, CachedInv, Now
<1>7. \A q \in 1..NPages : (q # page_number_ \/ ~dirty_page_edited_) /\ NPages > 1 =>
        q \in DOMAIN tmp \/ f_accessor_
  BY DEF IInv, StoredInv
<1>8. \A q : q # page_number_ => Now(q) = Stored(q)
  BY DEF Now
<1>9. CASE w
  <2>1. DOMAIN TmpAtLast = DOMAIN tmp \cup {page_number_}
    BY <1>4, <1>9 DEF WithTmp
  <2>2. \A q \in DOMAIN TmpAtLast : TmpAtLast[q] \in Seq(Pixel)
    BY <1>4, <1>5, <1>9 DEF WithTmp
  <2>3. /\ StoredOf(file, num_pixels_, TmpAtLast, page_number_) = Now(page_number_)
        /\ \A q : q # page_number_ => StoredOf(file, num_pixels_, TmpAtLast, q) = Stored(q)
    BY <1>4, <1>9, StoredAfterWrite DEF Stored
  <2>4. NPages > 1
    BY <1>1, <1>9
  <2> QED
    BY <1>1, <1>3, <1>5, <1>7, <1>8, <1>9, <2>1, <2>2, <2>3, <2>4
<1>10. CASE ~w
  <2>1. TmpAtLast = tmp /\ \A q : StoredOf(file, num_pixels_, TmpAtLast, q) = Stored(q)
    BY <1>4, <1>10 DEF Stored
  <2>2. ASSUME NEW q \in 1..NPages, q # NPages
        PROVE  Stored(q) = Now(q) /\ (q \in DOMAIN tmp \/ f_accessor_)
    <3>1. NPages > 1 /\ (q # page_number_ \/ ~dirty_page_edited_)
      BY <1>1, <1>10, <2>2
    <3> QED
      BY <3>1, <1>6, <1>7, <1>8
  <2>3. \A q \in page_dirty_ : q # NPages => q \in DOMAIN tmp
    BY <1>5, <1>10
  <2> QED
    BY <1>1, <1>5, <2>1, <2>2, <2>3
<1> QED
  BY <1>9, <1>10

\* Full pages of the file stay what they are when the object grows.
LEMMA StoredAfterGrowth ==
  ASSUME NEW f \in Seq(Pixel), NEW n \in Nat, NEW m \in Nat, n <= m, NEW s, NEW p \in Nat \ {0},
         Start(p) + BasePage <= n
  PROVE  StoredOf(f, m, s, p) = StoredOf(f, n, s, p)
<1>1. MinOf(Start(p) + BasePage, n) = MinOf(Start(p) + BasePage, m)
  <2>1. Start(p) \in Nat /\ BasePage \in Nat
    BY StartFacts, PixelAssumption
  <2> QED
    BY <2>1 DEF MinOf
<1> QED
  BY <1>1 DEF StoredOf, CleanOf

\* An object that grows: the pages in front of its new last page k are kept.
LEMMA GrowthStep ==
  ASSUME IInv, "append" \in uses, UNCHANGED <<uses, file, f_accessor_>>,
         num_pixels_' \in 1..MaxPixels, sweep' \in {"none", "edit", "next"},
         NEW k \in Nat \ {0}, page_number_' = k, k = PagesOf(num_pixels_'),
         raw_data_' \in Seq(Pixel), raw_data_' # << >>,
         Len(raw_data_') = PageLen(num_pixels_', k), dirty_page_edited_' = TRUE,
         DOMAIN tmp' \subseteq page_dirty_', page_dirty_' \subseteq 1..k, k \in page_dirty_',
         \A q \in DOMAIN tmp' : tmp'[q] \in Seq(Pixel),
         \A q \in page_dirty_' : q # k => q \in DOMAIN tmp',
         pix_range_' \in Int \X Int,
         f_accessor_ => Covered(raw_data_', pix_range_'),
         \A q \in 1..(k - 1) :
           LET pix == StoredOf(file, num_pixels_', tmp', q)
           IN  /\ Len(pix) = BasePage /\ (q \in DOMAIN tmp' \/ f_accessor_)
               /\ f_accessor_ => Covered(pix, pix_range_'),
         k = 1 => ~f_accessor_
  PROVE  /\ Base' /\ NPages' = k
         /\ \A q \in 1..k : Now(q)' = IF q = k THEN raw_data_'
                                      ELSE StoredOf(file, num_pixels_', tmp', q)
<1>1. NPages' = k /\ num_pixels_' \in Nat \ {0}
  BY DEF NPages
<1>2. \A q : Stored(q)' = StoredOf(file, num_pixels_', tmp', q)
  BY DEF Stored
<1>3. \A q \in 1..k : Now(q)' = IF q = k THEN raw_data_'
                                ELSE StoredOf(file, num_pixels_', tmp', q)
  BY <1>2 DEF Now
<1>4. "nosave" \notin uses
  BY PixelAssumption DEF IInv, TypeInv
<1>5. TypeInv'
  <2>1. TypeInv
    BY DEF IInv
  <2> QED
    BY <1>1, <2>1 DEF TypeInv
<1>6. FileInv' /\ DirtyInv' /\ CachedInv'
  BY <1>1 DEF FileInv, DirtyInv, CachedInv
<1>7. StoredInv'
  <2>1. \A q \in 1..(k - 1) : PageLen(num_pixels_', q) = BasePage
    BY <1>1, PageLenFacts
  <2>2. \A q \in 1..k : q # k => q \in 1..(k - 1)
    OBVIOUS
  <2> QED
    BY <1>1, <1>2, <2>1, <2>2 DEF StoredInv
<1>8. RangeInv'
  <2>1. \A q \in 1..k : q # k => q \in 1..(k - 1)
    OBVIOUS
  <2>2. f_accessor_ => \A q \in 1..k : Covered(Now(q)', pix_range_')
    BY <1>3, <2>1
  <2>3. \A q \in 1..k : Covered(Now(q)', pix_range_') => Covered(Now(q), pix_range_)'
    BY DEF Covered
  <2> QED
    BY <1>1, <1>4, <2>2, <2>3 DEF RangeInv
<1> QED
  BY <1>1, <1>3, <1>5, <1>6, <1>7, <1>8 DEF Base

\* What an append does to the pages: those in front of the last one stay, the
\* last one is extended, and there are more pixels than before.
Appended ==
  /\ NPages' >= NPages /\ page_number_' = NPages' /\ uses' = uses
  /\ \A q \in 1..NPages :
       IF q # NPages THEN Now(q)' = Now(q)
       ELSE /\ Len(Now(q)) <= Len(Now(q)')
            /\ \A i \in 1..Len(Now(q)) : Now(q)'[i] = Now(q)[i]
            /\ Len(Now(q)) < Len(Now(q)') \/ NPages' # NPages

\* The pages in front of the last one, as they are when pixels were appended.
LEMMA FrontPages ==
  ASSUME IInv, "append" \in uses, NEW m \in Nat, num_pixels_ <= m, NEW q \in 1..NPages, q # NPages
  PROVE  /\ StoredOf(file, m, TmpAtLast, q) = Now(q) /\ Len(Now(q)) = BasePage
         /\ q \in DOMAIN TmpAtLast \/ f_accessor_
         /\ f_accessor_ => Covered(Now(q), pix_range_)
<1>1. /\ num_pixels_ \in Nat \ {0} /\ NPages \in Nat \ {0} /\ file \in Seq(Pixel)
      /\ q \in Nat \ {0} /\ q < NPages
  BY SizeFacts DEF IInv, TypeInv
<1>2. PageLen(num_pixels_, q) = BasePage /\ Start(q) + BasePage < num_pixels_ /\ Start(q) \in Nat
  BY <1>1, PageLenFacts DEF NPages
<1>3. StoredOf(file, m, TmpAtLast, q) = StoredOf(file, num_pixels_, TmpAtLast, q)
  <2>1. Start(q) + BasePage <= num_pixels_
    BY <1>1, <1>2, PixelAssumption
  <2> QED
    BY <1>1, <2>1, StoredAfterGrowth
<1>4. "copy" \notin uses
  BY PixelAssumption DEF IInv, TypeInv
<1>5. f_accessor_ => Covered(Now(q), pix_range_)
  BY <1>4 DEF IInv, RangeInv
<1>6. StoredOf(file, num_pixels_, TmpAtLast, q) = Now(q) /\ (q \in DOMAIN TmpAtLast \/ f_accessor_)
  BY KeptFacts
<1> QED
  BY <1>2, <1>3, <1>5, <1>6, NowFacts

LEMMA JoinFacts ==
  ASSUME NEW a \in Seq(Pixel), NEW b \in Seq(Pixel)
  PROVE  /\ a \o b \in Seq(Pixel) /\ Len(a \o b) = Len(a) + Len(b)
         /\ \A i \in 1..Len(a) : (a \o b)[i] = a[i]
OBVIOUS

\* The page after the last one begins where that is full.
LEMMA GrownCount ==
  ASSUME NEW n \in Nat \ {0}, NEW m \in Nat \ {0}, n <= m
  PROVE  LET s == Start(PagesOf(n))
         IN  /\ m <= s + BasePage =>
                  PagesOf(m) = PagesOf(n) /\ PageLen(m, PagesOf(n)) = m - s
             /\ s + BasePage < m /\ m <= s + BasePage + BasePage =>
                  /\ PagesOf(m) = PagesOf(n) + 1
                  /\ PageLen(m, PagesOf(n) + 1) = m - (s + BasePage)
<1> DEFINE k == PagesOf(n)
<1>1. /\ k \in Nat \ {0} /\ k + 1 \in Nat \ {0} /\ Start(k) \in Nat /\ Start(k) < n
      /\ Start(k + 1) = Start(k) + BasePage /\ BasePage \in Nat \ {0}
  <2>1. k \in Nat \ {0} /\ Start(k) < n
    BY PageCountFacts
  <2> HIDE DEF k
  <2> QED
    BY <2>1, StartFacts, PixelAssumption
<1> HIDE DEF k
<1>2. CASE m <= Start(k) + BasePage
  <2>1. Start(k) < m
    BY <1>1
  <2>2. k = PagesOf(m)
    BY <1>1, <1>2, <2>1, PageCountIs
  <2> QED
    BY <1>1, <1>2, <2>2 DEF PageLen, MinOf, k
<1>3. CASE Start(k) + BasePage < m /\ m <= Start(k) + BasePage + BasePage
  <2>1. k + 1 = PagesOf(m)
    BY <1>1, <1>3, PageCountIs
  <2> QED
    BY <1>1, <1>3, <2>1 DEF PageLen, MinOf, k
<1> QED
  BY <1>1, <1>2, <1>3 DEF k

\* What is known of the pixels that are appended, and of the range with them.
LEMMA AppendInput ==
  ASSUME IInv, NEW n \in 1..MinOf(BasePage, MaxPixels - num_pixels_)
  PROVE  LET pix == NewPixels(num_pixels_ + 1, num_pixels_ + n)
         IN  /\ pix \in Seq(Pixel) /\ Len(pix) = n /\ n \in Nat /\ n \in 1..BasePage
             /\ num_pixels_ \in Nat \ {0} /\ num_pixels_ + n \in 1..MaxPixels
<1>1. num_pixels_ \in Nat \ {0} /\ num_pixels_ \in 1..MaxPixels
  BY DEF IInv, TypeInv
<1>2. n \in Nat /\ n \in 1..BasePage /\ num_pixels_ + n \in 1..MaxPixels
  BY <1>1, PixelAssumption DEF MinOf
<1>3. /\ num_pixels_ + 1 \in Nat \ {0} /\ num_pixels_ + n \in Nat
      /\ num_pixels_ + 1 <= num_pixels_ + n + 1
      /\ (num_pixels_ + n) - (num_pixels_ + 1) + 1 = n
  BY <1>1, <1>2
<1> QED
  BY <1>1, <1>2, <1>3, NewPixelsFacts

\* The range after new has been put on a page, as far as it matters.
LEMMA RangeGrows ==
  ASSUME IInv, NEW new \in Seq(Pixel), Len(new) \in 1..BasePage
  PROVE  LET r == RangeAfter(new, f_accessor_, pix_range_)
         IN  /\ r \in Int \X Int /\ Covered(new, r)
             /\ f_accessor_ => \A pix \in Seq(Pixel) : Covered(pix, pix_range_) => Covered(pix, r)
<1>1. CoordRange(new) \in Int \X Int /\ Covered(new, CoordRange(new))
  BY RangeFacts, EditedPages
<1>2. pix_range_ \in Int \X Int
  BY DEF IInv, TypeInv
<1> QED
  BY <1>1, <1>2, RangeAfterFacts, WidenFacts

LEMMA AppendToPageStep ==
  ASSUME IInv, "append" \in uses, UNCHANGED <<uses, file>>, sweep' \in {"none", "edit", "next"},
         NEW n \in 1..MinOf(BasePage, MaxPixels - num_pixels_), num_pixels_' = num_pixels_ + n,
         AppendToPage(NewPixels(num_pixels_ + 1, num_pixels_ + n))
  PROVE  Base' /\ Appended
<1> DEFINE pix == NewPixels(num_pixels_ + 1, num_pixels_ + n)
           old == Now(NPages)
           here == MinOf(BasePage - Len(old), n)
           full == old \o SubSeq(pix, 1, here)
           range == RangeAfter(full, f_accessor_, pix_range_)
           rest == SubSeq(pix, here + 1, n)
           s == Start(NPages)
<1>1. /\ pix \in Seq(Pixel) /\ Len(pix) = n /\ n \in Nat /\ n \in 1..BasePage
      /\ num_pixels_ \in Nat \ {0} /\ num_pixels_' \in 1..MaxPixels
  BY AppendInput
<1>2. /\ OnLast.raw = old /\ OnLast.open = f_accessor_ /\ NPages \in Nat \ {0} /\ NPages \in 1..NPages
      /\ Len(old) = num_pixels_ - s /\ s \in Nat /\ old \in Seq(Pixel) /\ old # << >>
      /\ Len(old) \in 1..BasePage /\ NumPages = NPages
  BY OnLastFacts, SizeFacts DEF IInv
<1> HIDE DEF pix
<1>3. /\ Len(old) < BasePage
      /\ \/ /\ rest = << >>
            /\ Store(Extended(full, NPages))
            /\ tmp' = TmpAtLast /\ page_number_' = NPages /\ pix_range_' = range
         \/ /\ rest # << >>
            /\ Store(Extended(rest, NPages + 1))
            /\ tmp' = WithTmp(TmpAtLast, NPages, full)
            /\ page_number_' = NPages + 1
            /\ pix_range_' = Widen(range, CoordRange(rest))
  BY <1>1, <1>2 DEF AppendToPage, pix
<1> HIDE DEF old, s
<1>4. here \in 1..n /\ here <= BasePage - Len(old) /\ (here = n \/ here = BasePage - Len(old))
  BY <1>1, <1>2, <1>3, PixelAssumption DEF MinOf
<1> HIDE DEF here
<1>5. /\ SubSeq(pix, 1, here) \in Seq(Pixel) /\ Len(SubSeq(pix, 1, here)) = here
      /\ rest \in Seq(Pixel) /\ Len(rest) = n - here
  <2>1. here \in Nat /\ here <= Len(pix) /\ here + 1 \in Nat \ {0} /\ here + 1 <= n + 1
        /\ n - (here + 1) + 1 = n - here /\ 1 <= here + 1 /\ here - 1 + 1 = here
    BY <1>1, <1>4
  <2> QED
    BY <1>1, <2>1, PartFacts
<1>6. /\ full \in Seq(Pixel) /\ Len(full) = Len(old) + here /\ Len(full) \in 1..BasePage
      /\ \A i \in 1..Len(old) : full[i] = old[i]
  <2>1. /\ full \in Seq(Pixel) /\ Len(full) = Len(old) + here
        /\ \A i \in 1..Len(old) : full[i] = old[i]
    BY <1>2, <1>5, JoinFacts
  <2> HIDE DEF full
  <2> QED
    BY <1>1, <1>2, <1>4, <2>1, PixelAssumption
<1> HIDE DEF full, rest
<1>7. /\ range \in Int \X Int /\ Covered(full, range)
      /\ f_accessor_ => \A q \in Seq(Pixel) : Covered(q, pix_range_) => Covered(q, range)
  BY <1>6, RangeGrows
<1> HIDE DEF range
<1>8. /\ page_dirty_ \subseteq 1..NPages /\ UNCHANGED f_accessor_ /\ dirty_page_edited_' = TRUE
      /\ f_accessor_ => NPages > 1
  BY <1>2, <1>3 DEF Store, Extended, IInv, TypeInv, FileInv
<1>9. \A q \in 1..NPages : q # NPages =>
        /\ StoredOf(file, num_pixels_', TmpAtLast, q) = Now(q) /\ Len(Now(q)) = BasePage
        /\ q \in DOMAIN TmpAtLast \/ f_accessor_
        /\ f_accessor_ => Covered(Now(q), range)
        /\ Now(q) \in Seq(Pixel)
  <2>1. num_pixels_' \in Nat /\ num_pixels_ <= num_pixels_'
    BY <1>1
  <2> QED
    BY <1>7, <2>1, FrontPages, NowFacts
<1>10. CASE rest = << >>
  <2>1. here = n
    BY <1>1, <1>4, <1>5, <1>10, EditedPages
  <2>2. num_pixels_' <= s + BasePage /\ num_pixels_' - s = Len(full) /\ num_pixels_ <= num_pixels_'
    BY <1>1, <1>2, <1>4, <1>6, <2>1, PixelAssumption
  <2>3. PagesOf(num_pixels_') = NPages /\ PageLen(num_pixels_', NPages) = Len(full)
    BY <1>1, <2>2, GrownCount DEF NPages, s
  <2>4. /\ raw_data_' = full /\ tmp' = TmpAtLast /\ page_number_' = NPages /\ pix_range_' = range
        /\ page_dirty_' = page_dirty_ \cup {NPages}
    BY <1>2, <1>3, <1>10 DEF Store, Extended
  <2>5. full # << >>
    BY <1>6, EditedPages
  <2>6. /\ Base' /\ NPages' = NPages
        /\ \A q \in 1..NPages : Now(q)' = IF q = NPages THEN raw_data_'
                                          ELSE StoredOf(file, num_pixels_', tmp', q)
    <3> DEFINE k == NPages
    <3>1. /\ DOMAIN tmp' \subseteq page_dirty_' /\ page_dirty_' \subseteq 1..k /\ k \in page_dirty_'
          /\ \A q \in DOMAIN tmp' : tmp'[q] \in Seq(Pixel)
          /\ \A q \in page_dirty_' : q # k => q \in DOMAIN tmp'
      BY <1>2, <1>8, <2>4, KeptFacts
    <3>2. \A q \in 1..(k - 1) : q \in 1..NPages /\ q # NPages
      BY <1>2
    <3>3. \A q \in 1..(k - 1) : LET p == StoredOf(file, num_pixels_', tmp', q)
                                IN  /\ Len(p) = BasePage /\ (q \in DOMAIN tmp' \/ f_accessor_)
                                    /\ f_accessor_ => Covered(p, pix_range_')
      BY <1>9, <2>4, <3>2
    <3> HIDE DEF k
    <3>4. /\ k \in Nat \ {0} /\ page_number_' = k /\ k = PagesOf(num_pixels_')
          /\ Len(raw_data_') = PageLen(num_pixels_', k) /\ (k = 1 => ~f_accessor_)
      BY <1>2, <1>8, <2>3, <2>4 DEF k
    <3>5. Base' /\ NPages' = k
          /\ \A q \in 1..k : Now(q)' = IF q = k THEN raw_data_'
                                       ELSE StoredOf(file, num_pixels_', tmp', q)
      BY <1>1, <1>6, <1>7, <1>8, <2>4, <2>5, <3>1, <3>3, <3>4, GrowthStep
    <3> QED
      BY <3>5 DEF k
  <2>7. Len(old) < Len(full)
    BY <1>2, <1>4, <1>6, <2>1
  <2> QED
    BY <1>2, <1>6, <1>9, <2>4, <2>6, <2>7 DEF Appended, old
<1>11. CASE rest # << >>
  <2>1. here = BasePage - Len(old) /\ here < n
    BY <1>1, <1>4, <1>5, <1>11, EditedPages
  <2>2. /\ s + BasePage < num_pixels_' /\ num_pixels_' <= s + BasePage + BasePage
        /\ num_pixels_' - (s + BasePage) = Len(rest) /\ num_pixels_ <= num_pixels_'
        /\ Len(full) = BasePage
    BY <1>1, <1>2, <1>5, <1>6, <2>1, PixelAssumption
  <2>3. PagesOf(num_pixels_') = NPages + 1 /\ PageLen(num_pixels_', NPages + 1) = Len(rest)
    BY <1>1, <2>2, GrownCount DEF NPages, s
  <2>4. /\ raw_data_' = rest /\ tmp' = WithTmp(TmpAtLast, NPages, full)
        /\ page_number_' = NPages + 1 /\ pix_range_' = Widen(range, CoordRange(rest))
        /\ page_dirty_' = page_dirty_ \cup {NPages, NPages + 1}
    BY <1>2, <1>3, <1>11 DEF Store, Extended
  <2>5. /\ pix_range_' \in Int \X Int /\ Covered(rest, pix_range_')
        /\ \A q \in Seq(Pixel) : Covered(q, range) => Covered(q, pix_range_')
    BY <1>5, <1>7, <1>11, <2>4, RangeFacts, WidenFacts
  <2>6. /\ StoredOf(file, num_pixels_', tmp', NPages) = full
        /\ \A q : q # NPages => StoredOf(file, num_pixels_', tmp', q)
                                  = StoredOf(file, num_pixels_', TmpAtLast, q)
    BY <2>4, StoredAfterWrite
  <2>7. /\ DOMAIN tmp' = DOMAIN TmpAtLast \cup {NPages}
        /\ \A q \in DOMAIN tmp' : tmp'[q] \in Seq(Pixel)
    BY <1>6, <2>4, KeptFacts DEF WithTmp
  <2>8. /\ Base' /\ NPages' = NPages + 1
        /\ \A q \in 1..(NPages + 1) : Now(q)' = IF q = NPages + 1 THEN raw_data_'
                                                ELSE StoredOf(file, num_pixels_', tmp', q)
    <3> DEFINE k == NPages + 1
    <3>1. /\ DOMAIN tmp' \subseteq page_dirty_' /\ page_dirty_' \subseteq 1..k /\ k \in page_dirty_'
          /\ \A q \in page_dirty_' : q # k => q \in DOMAIN tmp'
      <4>1. /\ DOMAIN TmpAtLast \subseteq page_dirty_
            /\ \A q \in page_dirty_ : q # NPages => q \in DOMAIN TmpAtLast
        BY KeptFacts
      <4>2. page_dirty_' \subseteq 1..k /\ k \in page_dirty_'
        BY <1>2, <1>8, <2>4
      <4>3. DOMAIN tmp' \subseteq page_dirty_'
        BY <2>4, <2>7, <4>1
      <4>4. \A q \in page_dirty_' : q # k => q \in DOMAIN tmp'
        BY <2>4, <2>7, <4>1
      <4> QED
        BY <4>2, <4>3, <4>4
    <3>2. \A q \in 1..(k - 1) : q \in 1..NPages
      BY <1>2
    <3>3. \A q \in 1..(k - 1) : LET p == StoredOf(file, num_pixels_', tmp', q)
                                IN  /\ Len(p) = BasePage /\ (q \in DOMAIN tmp' \/ f_accessor_)
                                    /\ f_accessor_ => Covered(p, pix_range_')
      <4> SUFFICES ASSUME NEW q \in 1..(k - 1)
                   PROVE  LET p == StoredOf(file, num_pixels_', tmp', q)
                          IN  /\ Len(p) = BasePage /\ (q \in DOMAIN tmp' \/ f_accessor_)
                              /\ f_accessor_ => Covered(p, pix_range_')
        OBVIOUS
      <4>1. q \in 1..NPages
        BY <3>2
      <4>2. CASE q = NPages
        BY <1>6, <1>7, <2>2, <2>5, <2>6, <2>7, <4>2
      <4>3. CASE q # NPages
        BY <1>9, <2>5, <2>6, <2>7, <4>1, <4>3
      <4> QED
        BY <4>2, <4>3
    <3> HIDE DEF k
    <3>4. /\ k \in Nat \ {0} /\ page_number_' = k /\ k = PagesOf(num_pixels_')
          /\ Len(raw_data_') = PageLen(num_pixels_', k) /\ (k = 1 => ~f_accessor_)
      BY <1>2, <1>8, <2>3, <2>4 DEF k
    <3>5. Base' /\ NPages' = k
          /\ \A q \in 1..k : Now(q)' = IF q = k THEN raw_data_'
                                       ELSE StoredOf(file, num_pixels_', tmp', q)
      BY <1>1, <1>5, <1>8, <1>11, <2>4, <2>5, <2>7, <3>1, <3>3, <3>4, GrowthStep
    <3> QED
      BY <3>5 DEF k
  <2>9. \A q \in 1..NPages : Now(q)' = IF q = NPages THEN full ELSE Now(q)
    BY <1>2, <1>9, <2>6, <2>8
  <2>10. NPages' >= NPages /\ NPages' # NPages /\ page_number_' = NPages' /\ Len(old) <= Len(full)
    BY <1>2, <2>2, <2>4, <2>8
  <2>11. \A q \in 1..NPages :
           IF q # NPages THEN Now(q)' = Now(q)
           ELSE /\ Len(Now(q)) <= Len(Now(q)')
                /\ \A i \in 1..Len(Now(q)) : Now(q)'[i] = Now(q)[i]
    BY <1>6, <2>9, <2>10 DEF old
  <2> QED
    BY <2>8, <2>10, <2>11 DEF Appended
<1> QED
  BY <1>10, <1>11

\* page_size, cached or not, is that of the page, when this is the last one.
LEMMA PageSizeFacts ==
  ASSUME IInv
  PROVE  /\ raw_data_ # << >> => page_size = Len(Now(page_number_))
         /\ AtLast => page_size = Len(Now(NPages))
<1>1. /\ base_page_size = BasePage /\ num_pixels_ \in Nat \ {0} /\ (CacheEmpty <=> raw_data_ = << >>)
      /\ page_number_ \in 1..NPages /\ NPages \in Nat \ {0}
  BY SizeFacts, View DEF IInv
<1>2. raw_data_ # << >> => page_size = Len(raw_data_) /\ Now(page_number_) = raw_data_
  BY <1>1 DEF page_size, Now
<1>3. ASSUME AtLast, raw_data_ = << >>
      PROVE  page_size = Len(Now(NPages))
  <2>1. page_number_ = NPages /\ Len(Now(NPages)) = num_pixels_ - Start(NPages)
        /\ Start(NPages) \in Nat /\ Len(Now(NPages)) \in 1..BasePage
    BY <1>3, OnLastFacts
  <2>2. /\ Start(NPages) + BasePage = BasePage * NPages
        /\ Start(NPages) = BasePage * (NPages - 1)
    <3>1. Start(NPages) + BasePage = NPages * BasePage /\ Start(NPages) = (NPages - 1) * BasePage
      BY <1>1, StartFacts
    <3>2. /\ NPages * BasePage = BasePage * NPages
          /\ (NPages - 1) * BasePage = BasePage * (NPages - 1)
      BY <1>1, PixelAssumption
    <3> QED
      BY <3>1, <3>2
  <2>3. page_size = IF Start(NPages) + BasePage > num_pixels_ THEN num_pixels_ - Start(NPages)
                    ELSE MinOf(BasePage, num_pixels_)
    BY <1>1, <1>3, <2>1, <2>2 DEF page_size
  <2> QED
    BY <1>1, <2>1, <2>3, PixelAssumption DEF MinOf
<1>4. AtLast => page_number_ = NPages
  BY OnLastFacts
<1> QED
  BY <1>2, <1>3, <1>4

LEMMA AppendAsPageStep ==
  ASSUME IInv, "append" \in uses, UNCHANGED <<uses, file>>, sweep' \in {"none", "edit", "next"},
         NEW n \in 1..MinOf(BasePage, MaxPixels - num_pixels_), num_pixels_' = num_pixels_ + n,
         AppendAsPage(NewPixels(num_pixels_ + 1, num_pixels_ + n))
  PROVE  Base' /\ Appended
<1> DEFINE pix == NewPixels(num_pixels_ + 1, num_pixels_ + n)
           old == Now(NPages)
           last == IF AtLast THEN Cached ELSE Loaded(NPages)
           written == last.edited \/ ~FileBacked
           range == RangeAfter(pix, f_accessor_, pix_range_)
           s == Start(NPages)
<1>1. /\ pix \in Seq(Pixel) /\ Len(pix) = n /\ n \in Nat /\ n \in 1..BasePage
      /\ num_pixels_ \in Nat \ {0} /\ num_pixels_' \in 1..MaxPixels
  BY AppendInput
<1>2. /\ NPages \in Nat \ {0} /\ NPages \in 1..NPages /\ (AtLast <=> page_number_ = NPages)
      /\ Len(old) = num_pixels_ - s /\ s \in Nat /\ old \in Seq(Pixel) /\ old # << >>
      /\ NumPages = NPages /\ page_number_ \in 1..NPages
  BY OnLastFacts, SizeFacts DEF IInv
<1>3. "nosave" \notin uses /\ (FileBacked <=> NPages > 1)
  BY PixelAssumption, View DEF IInv, TypeInv
<1>4. /\ last.open = f_accessor_ /\ last.dirty = page_dirty_
      /\ last.edited = (AtLast /\ dirty_page_edited_)
      /\ written => last.raw = old
      /\ ~AtLast => last.raw = old
  <2>1. CASE AtLast
    <3>1. last = Cached
      BY <2>1
    <3>2. dirty_page_edited_ \/ ~FileBacked => raw_data_ # << >>
      BY <1>3 DEF IInv, DirtyInv, CachedInv
    <3>3. raw_data_ # << >> => raw_data_ = old
      BY <1>2, <2>1 DEF Now
    <3> HIDE DEF last
    <3> QED
      BY <2>1, <3>1, <3>2, <3>3 DEF Cached, IInv, TypeInv
  <2>2. CASE ~AtLast
    <3>1. NPages > 1 /\ old = Stored(NPages)
      BY <1>2, <2>2 DEF Now
    <3>2. last = [raw |-> Stored(NPages),
                  dirty |-> IF NPages \in DOMAIN tmp THEN page_dirty_ ELSE page_dirty_ \ {NPages},
                  open |-> f_accessor_, edited |-> FALSE]
      BY <1>2, <2>2, <3>1, LoadedFacts
    <3>3. NPages \in page_dirty_ => NPages \in DOMAIN tmp
      BY <1>2, <1>3, <2>2 DEF IInv, DirtyInv
    <3> HIDE DEF last, old
    <3> QED
      BY <2>2, <3>1, <3>2, <3>3
  <2> QED
    BY <2>1, <2>2
<1>5. (IF AtLast THEN page_size ELSE Len(last.raw)) = BasePage
  BY <1>2 DEF AppendAsPage
<1>6. Len(old) = BasePage
  BY <1>4, <1>5, PageSizeFacts
<1>7. /\ tmp' = IF written THEN WithTmp(TmpAtLast, NPages, last.raw) ELSE TmpAtLast
      /\ raw_data_' = pix /\ f_accessor_' = f_accessor_ /\ dirty_page_edited_' = TRUE
      /\ page_dirty_' = page_dirty_ \cup {NPages + 1} \cup (IF FileBacked THEN {} ELSE {NPages})
      /\ page_number_' = NPages + 1 /\ pix_range_' = Widen(pix_range_, range)
  BY <1>2, <1>4 DEF AppendAsPage, Store
<1> HIDE DEF pix, last, written, range
<1>8. \A q \in 1..NPages : q # NPages =>
        /\ StoredOf(file, num_pixels_', TmpAtLast, q) = Now(q) /\ Len(Now(q)) = BasePage
        /\ q \in DOMAIN TmpAtLast \/ f_accessor_
  <2>1. num_pixels_' \in Nat /\ num_pixels_ <= num_pixels_'
    BY <1>1
  <2> QED
    BY <2>1, FrontPages
<1>9. /\ \A q \in 1..NPages : /\ StoredOf(file, num_pixels_', tmp', q) = Now(q)
                              /\ q \in DOMAIN tmp' \/ f_accessor_
      /\ DOMAIN tmp' \subseteq page_dirty_' /\ \A q \in DOMAIN tmp' : tmp'[q] \in Seq(Pixel)
      /\ \A q \in page_dirty_' : q # NPages + 1 => q \in DOMAIN tmp'
  <2>1. /\ DOMAIN TmpAtLast \subseteq page_dirty_
        /\ \A q \in DOMAIN TmpAtLast : TmpAtLast[q] \in Seq(Pixel)
        /\ \A q \in page_dirty_ : q # NPages => q \in DOMAIN TmpAtLast
        /\ NPages \in DOMAIN TmpAtLast <=> NPages \in DOMAIN tmp
    BY KeptFacts
  <2>2. CASE written
    <3>1. tmp' = WithTmp(TmpAtLast, NPages, old)
      BY <1>4, <1>7, <2>2
    <3> HIDE DEF old
    <3>2. /\ StoredOf(file, num_pixels_', tmp', NPages) = old
          /\ \A q : q # NPages => StoredOf(file, num_pixels_', tmp', q)
                                    = StoredOf(file, num_pixels_', TmpAtLast, q)
      BY <3>1, StoredAfterWrite
    <3>3. /\ DOMAIN tmp' = DOMAIN TmpAtLast \cup {NPages}
          /\ \A q \in DOMAIN tmp' : tmp'[q] \in Seq(Pixel)
      BY <1>2, <2>1, <3>1 DEF WithTmp
    <3>4. NPages \in page_dirty_'
      BY <1>2, <1>4, <1>7, <2>2 DEF written, IInv, DirtyInv
    <3>5. \A q \in 1..NPages : StoredOf(file, num_pixels_', tmp', q) = Now(q)
      BY <1>8, <3>2 DEF old
    <3> QED
      BY <1>7, <1>8, <2>1, <3>3, <3>4, <3>5
  <2>3. CASE ~written
    <3>1. /\ tmp' = TmpAtLast /\ FileBacked /\ NPages > 1
          /\ page_number_ # NPages \/ ~dirty_page_edited_
      BY <1>2, <1>3, <1>4, <1>7, <2>3 DEF written, IInv, TypeInv
    <3>2. Stored(NPages) = old /\ (NPages \in DOMAIN tmp \/ f_accessor_)
      BY <1>2, <3>1 DEF IInv, CachedInv, StoredInv, Now
    <3>3. NPages \in page_dirty_ => NPages \in DOMAIN tmp
      BY <1>2, <1>3, <3>1 DEF IInv, DirtyInv
    <3>4. StoredOf(file, num_pixels_, TmpAtLast, NPages) = Stored(NPages)
      BY <1>2, KeptFacts
    <3>5. StoredOf(file, num_pixels_', TmpAtLast, NPages) = old
      <4>1. /\ s + BasePage <= num_pixels_ /\ num_pixels_ <= num_pixels_'
            /\ num_pixels_ \in Nat /\ num_pixels_' \in Nat /\ file \in Seq(Pixel)
        BY <1>1, <1>2, <1>6, PixelAssumption DEF IInv, TypeInv
      <4> QED
        BY <1>2, <3>2, <3>4, <4>1, StoredAfterGrowth
    <3> HIDE DEF old
    <3>6. \A q \in 1..NPages : StoredOf(file, num_pixels_', tmp', q) = Now(q)
      BY <1>8, <3>1, <3>5 DEF old
    <3>7. page_dirty_' = page_dirty_ \cup {NPages + 1}
      BY <1>7, <3>1
    <3> QED
      BY <1>8, <2>1, <3>1, <3>2, <3>3, <3>6, <3>7
  <2> QED
    BY <2>2, <2>3
<1>10. \A q \in 1..NPages : Now(q) \in Seq(Pixel) /\ Len(Now(q)) = BasePage
  BY <1>6, <1>8, NowFacts
<1>11. PagesOf(num_pixels_') = NPages + 1 /\ PageLen(num_pixels_', NPages + 1) = Len(pix)
  <2>1. /\ s + BasePage < num_pixels_' /\ num_pixels_' <= s + BasePage + BasePage
        /\ num_pixels_' - (s + BasePage) = n /\ num_pixels_ <= num_pixels_'
    BY <1>1, <1>2, <1>6, PixelAssumption
  <2> QED
    BY <1>1, <2>1, GrownCount DEF NPages
<1>12. /\ pix_range_' \in Int \X Int /\ Covered(pix, pix_range_')
       /\ \A q \in Seq(Pixel) : Covered(q, pix_range_) => Covered(q, pix_range_')
  <2>1. range \in Int \X Int /\ Covered(pix, range)
    BY <1>1, RangeGrows DEF range
  <2>2. pix_range_ \in Int \X Int
    BY DEF IInv, TypeInv
  <2> QED
    BY <1>1, <1>7, <2>1, <2>2, WidenFacts
<1>13. f_accessor_ => NPages > 1 /\ \A q \in 1..NPages : Covered(Now(q), pix_range_)
  <2>1. "copy" \notin uses
    BY PixelAssumption DEF IInv, TypeInv
  <2> QED
    BY <2>1 DEF IInv, FileInv, RangeInv
<1>14. /\ Base' /\ NPages' = NPages + 1
       /\ \A q \in 1..(NPages + 1) : Now(q)' = IF q = NPages + 1 THEN raw_data_'
                                               ELSE StoredOf(file, num_pixels_', tmp', q)
  <2> DEFINE k == NPages + 1
  <2>1. page_dirty_' \subseteq 1..k /\ k \in page_dirty_'
    BY <1>2, <1>7 DEF IInv, TypeInv
  <2>2. \A q \in 1..(k - 1) : LET p == StoredOf(file, num_pixels_', tmp', q)
                              IN  /\ Len(p) = BasePage /\ (q \in DOMAIN tmp' \/ f_accessor_)
                                  /\ f_accessor_ => Covered(p, pix_range_')
    <3>1. \A q \in 1..(k - 1) : q \in 1..NPages
      BY <1>2
    <3> QED
      BY <1>9, <1>10, <1>12, <1>13, <3>1
  <2> HIDE DEF k
  <2>3. /\ k \in Nat \ {0} /\ page_number_' = k /\ k = PagesOf(num_pixels_')
        /\ Len(raw_data_') = PageLen(num_pixels_', k) /\ (k = 1 => ~f_accessor_)
        /\ \A q \in page_dirty_' : q # k => q \in DOMAIN tmp'
    BY <1>2, <1>7, <1>9, <1>11, <1>13 DEF k
  <2>4. raw_data_' \in Seq(Pixel) /\ raw_data_' # << >>
    BY <1>1, <1>7, EditedPages
  <2>5. Base' /\ NPages' = k
        /\ \A q \in 1..k : Now(q)' = IF q = k THEN raw_data_'
                                     ELSE StoredOf(file, num_pixels_', tmp', q)
    BY <1>1, <1>7, <1>9, <1>12, <2>1, <2>2, <2>3, <2>4, GrowthStep
  <2> QED
    BY <2>5 DEF k
<1>15. \A q \in 1..NPages : Now(q)' = Now(q)
  BY <1>2, <1>9, <1>14
<1>16. NPages' >= NPages /\ NPages' # NPages /\ page_number_' = NPages'
  BY <1>2, <1>7, <1>14
<1>17. \A q \in 1..NPages : Len(Now(q)) <= Len(Now(q))
  BY <1>10, PixelAssumption
<1> QED
  BY <1>14, <1>15, <1>16, <1>17 DEF Appended

LEMMA AppendStep ==
  ASSUME IInv, Append_
  PROVE  IInv' /\ Appended /\ "append" \in uses
<1>1. /\ "append" \in uses /\ UNCHANGED <<uses, file, sweep, goal>> /\ sweep = "none"
      /\ \E n \in 1..MinOf(BasePage, MaxPixels - num_pixels_) :
           /\ \/ AppendToPage(NewPixels(num_pixels_ + 1, num_pixels_ + n))
              \/ AppendAsPage(NewPixels(num_pixels_ + 1, num_pixels_ + n))
           /\ num_pixels_' = num_pixels_ + n
  BY DEF Append_, Idle
<1>2. PICK n \in 1..MinOf(BasePage, MaxPixels - num_pixels_) :
        /\ \/ AppendToPage(NewPixels(num_pixels_ + 1, num_pixels_ + n))
           \/ AppendAsPage(NewPixels(num_pixels_ + 1, num_pixels_ + n))
        /\ num_pixels_' = num_pixels_ + n
  BY <1>1
<1>3. sweep' \in {"none", "edit", "next"}
  BY <1>1
<1>4. Base' /\ Appended
  <2>1. CASE AppendToPage(NewPixels(num_pixels_ + 1, num_pixels_ + n))
    BY <1>1, <1>2, <1>3, <2>1, AppendToPageStep
  <2>2. CASE AppendAsPage(NewPixels(num_pixels_ + 1, num_pixels_ + n))
    BY <1>1, <1>2, <1>3, <2>2, AppendAsPageStep
  <2> QED
    BY <1>2, <2>1, <2>2
<1>5. SweepInv'
  BY <1>1 DEF SweepInv
<1> QED
  BY <1>1, <1>4, <1>5 DEF IInv, Base

LEMMA SetCoordinatesStep ==
  ASSUME IInv, SetCoordinates
  PROVE  /\ IInv' /\ SamePlace /\ uses' = uses
         /\ \A p \in 1..NPages :
              Now(p)' = IF p = page_number_ THEN Mirror(Now(page_number_)) ELSE Now(p)
<1> DEFINE new == Mirror(Now(page_number_))
<1>1. /\ Store(Edited(Current, Mirror(Current.raw)))
      /\ pix_range_' = RangeAfter(raw_data_', Current.open, pix_range_)
      /\ UNCHANGED <<uses, file, num_pixels_, page_number_, tmp, sweep, goal>> /\ sweep = "none"
      /\ Current.raw = Now(page_number_)
  BY CurrentFacts DEF SetCoordinates, Idle
<1>2. new \in Seq(Pixel) /\ Len(new) = Len(Now(page_number_))
  BY SizeFacts, NowFacts, EditedPages DEF IInv
<1> HIDE DEF new
<1>3. Store(Edited(Current, new)) /\ sweep' \in {"none", "edit", "next"}
  BY <1>1 DEF new
<1>4. Base' /\ SamePlace /\ \A p \in 1..NPages : Now(p)' = IF p = page_number_ THEN new ELSE Now(p)
  BY <1>1, <1>2, <1>3, EditStep
<1>5. SweepInv'
  BY <1>1 DEF SweepInv
<1> QED
  BY <1>1, <1>4, <1>5 DEF IInv, Base, new

LEMMA FlipStep ==
  ASSUME IInv, FlipSignal, sweep' \in {"none", "edit", "next"}
  PROVE  /\ Base' /\ SamePlace /\ uses' = uses /\ raw_data_' # << >>
         /\ \A p \in 1..NPages :
              Now(p)' = IF p = page_number_ THEN Flip(Now(page_number_)) ELSE Now(p)
<1> DEFINE new == Flip(Now(page_number_))
<1>1. /\ Store(Edited(Current, Flip(Current.raw)))
      /\ pix_range_' = RangeAfter(raw_data_', Current.open, pix_range_)
      /\ UNCHANGED <<uses, file, num_pixels_, page_number_, tmp>>
      /\ Current.raw = Now(page_number_)
  BY CurrentFacts DEF FlipSignal
<1>2. new \in Seq(Pixel) /\ Len(new) = Len(Now(page_number_))
  BY SizeFacts, NowFacts, EditedPages DEF IInv
<1> HIDE DEF new
<1>3. Store(Edited(Current, new))
  BY <1>1 DEF new
<1>4. /\ Base' /\ SamePlace /\ raw_data_' # << >>
      /\ \A p \in 1..NPages : Now(p)' = IF p = page_number_ THEN new ELSE Now(p)
  BY <1>1, <1>2, <1>3, EditStep
<1> QED
  BY <1>1, <1>4 DEF new

LEMMA MoveToPageStep ==
  ASSUME IInv, MoveToPage
  PROVE  /\ IInv' /\ NPages > 1 /\ NPages' = NPages /\ uses' = uses /\ NoneCached
         /\ PagesKept \/ ("nosave" \in uses /\ PageDiscarded)
<1>1. PICK p \in 1..NPages : TurnTo(p, FALSE) \/ ("nosave" \in uses /\ TurnTo(p, TRUE))
  BY SizeFacts DEF MoveToPage, IInv
<1>2. UNCHANGED <<sweep, goal>> /\ sweep = "none" /\ sweep' \in {"none", "edit", "next"}
  BY DEF MoveToPage, Idle
<1>3. /\ Base' /\ NPages > 1 /\ NPages' = NPages /\ uses' = uses /\ NoneCached
      /\ PagesKept \/ ("nosave" \in uses /\ PageDiscarded)
  <2>1. CASE TurnTo(p, FALSE)
    BY <1>2, <2>1, TurnStep
  <2>2. CASE "nosave" \in uses /\ TurnTo(p, TRUE)
    BY <1>2, <2>2, TurnStep
  <2> QED
    BY <1>1, <2>1, <2>2
<1>4. SweepInv'
  BY <1>2 DEF SweepInv
<1> QED
  BY <1>3, <1>4 DEF IInv, Base

LEMMA StayStep ==
  ASSUME IInv, UNCHANGED objVars, sweep' \in {"none", "edit", "next"}
  PROVE  Base' /\ SamePlace /\ PagesKept /\ uses' = uses
<1>1. UNCHANGED <<uses, file, f_accessor_, num_pixels_, page_number_, raw_data_, page_dirty_,
                  dirty_page_edited_, tmp, pix_range_>>
  BY DEF objVars
<1>2. NPages' = NPages /\ \A p : Stored(p)' = Stored(p) /\ Now(p)' = Now(p)
  BY <1>1 DEF NPages, Stored, Now
<1>3. TypeInv'
  BY <1>1, <1>2 DEF IInv, TypeInv
<1>4. FileInv' /\ DirtyInv' /\ StoredInv' /\ CachedInv'
  BY <1>1, <1>2 DEF IInv, FileInv, DirtyInv, StoredInv, CachedInv
<1>5. RangeInv'
  BY <1>1, <1>2 DEF IInv, RangeInv, Covered
<1> QED
  BY <1>1, <1>2, <1>3, <1>4, <1>5 DEF Base, SamePlace, PagesKept

LEMMA HasMoreFacts ==
  ASSUME IInv, raw_data_ # << >>
  PROVE  has_more <=> page_number_ < NPages
<1>1. /\ base_page_size = BasePage /\ num_pixels_ \in Nat \ {0} /\ (FileBacked <=> NPages > 1)
      /\ page_number_ \in 1..NPages /\ NPages \in Nat \ {0}
  BY SizeFacts, View DEF IInv
<1>2. page_size # 0
  BY <1>1, PageSizeFacts, NowFacts
<1>3. Start(page_number_) = (page_number_ - 1) * BasePage /\ Start(page_number_) \in Nat
  BY <1>1, StartFacts
<1>4. has_more <=> NPages > 1 /\ Start(page_number_) + 1 + BasePage <= num_pixels_
  BY <1>1, <1>2, <1>3 DEF has_more
<1>5. page_number_ < NPages => Start(page_number_) + BasePage < num_pixels_
  BY <1>1, PageLenFacts DEF NPages
<1>6. page_number_ = NPages => num_pixels_ <= Start(page_number_) + BasePage
  BY <1>1, PageCountFacts DEF NPages
<1> QED
  BY <1>1, <1>3, <1>4, <1>5, <1>6, PixelAssumption

\* A step of a sweep that changes no page, on the way to page k of it.
SweptTo(k, g) ==
  g = [p \in 1..NPages |-> IF p < k THEN Now(p) ELSE Flip(Now(p))]

LEMMA SweepInvNext ==
  ASSUME sweep' = "edit", NPages' = NPages, PagesKept,
         SweptTo(page_number_', goal')
  PROVE  SweepInv'
BY DEF SweepInv, SweptTo, PagesKept

LEMMA SweepStartStep ==
  ASSUME IInv, SweepStart
  PROVE  IInv' /\ NPages' = NPages /\ uses' = uses /\ PagesKept /\ (NoneCached \/ SamePlace)
<1>1. /\ sweep' = "edit" /\ goal' = [p \in 1..NPages |-> Flip(Now(p))]
      /\ 1 \in 1..NPages /\ page_number_ \in 1..NPages /\ NPages \in Nat \ {0}
      /\ FileBacked <=> NPages > 1
  BY SizeFacts, View DEF SweepStart, IInv
<1>2. SweptTo(1, goal')
  BY <1>1 DEF SweptTo
<1>3. CASE TurnTo(1, FALSE)
  <2>1. /\ Base' /\ NPages' = NPages /\ page_number_' = 1 /\ uses' = uses
        /\ PagesKept /\ NoneCached
    <3>1. sweep' \in {"none", "edit", "next"} /\ FALSE \in BOOLEAN
      BY <1>1
    <3> QED
      BY <1>1, <1>3, <3>1, TurnStep
  <2>2. SweepInv'
    BY <1>1, <1>2, <2>1, SweepInvNext
  <2> QED
    BY <2>1, <2>2 DEF IInv, Base
<1>4. CASE ~(FileBacked /\ page_number_ # 1) /\ UNCHANGED objVars
  <2>1. page_number_ = 1 /\ page_number_' = page_number_ /\ uses' = uses
    BY <1>1, <1>4 DEF objVars
  <2>2. Base' /\ NPages' = NPages /\ PagesKept /\ SamePlace
    BY <1>1, <1>4, StayStep DEF SamePlace
  <2>3. SweepInv'
    BY <1>1, <1>2, <2>1, <2>2, SweepInvNext
  <2> QED
    BY <2>1, <2>2, <2>3 DEF IInv, Base
<1> QED
  BY <1>3, <1>4 DEF SweepStart

LEMMA SweepEditStep ==
  ASSUME IInv, SweepEdit
  PROVE  /\ IInv' /\ SamePlace /\ uses' = uses
         /\ \A p \in 1..NPages :
              Now(p)' = IF p = page_number_ THEN Flip(Now(page_number_)) ELSE Now(p)
<1>1. sweep = "edit" /\ sweep' = "next" /\ goal' = goal /\ FlipSignal
  BY DEF SweepEdit
<1>2. /\ Base' /\ SamePlace /\ uses' = uses /\ raw_data_' # << >>
      /\ \A p \in 1..NPages :
           Now(p)' = IF p = page_number_ THEN Flip(Now(page_number_)) ELSE Now(p)
  BY <1>1, FlipStep
<1>3. SweptTo(page_number_, goal) /\ NPages \in Nat \ {0} /\ page_number_ \in 1..NPages
  BY <1>1, SizeFacts DEF IInv, SweepInv, SweptTo
<1>4. ASSUME NEW p \in 1..NPages
      PROVE  (IF p < page_number_ THEN Now(p) ELSE Flip(Now(p)))
               = IF p < page_number_ \/ p = page_number_ THEN Now(p)' ELSE Flip(Now(p)')
  BY <1>2, <1>3
<1>5. goal = [p \in 1..NPages |-> IF p < page_number_ \/ p = page_number_ THEN Now(p)'
                                  ELSE Flip(Now(p)')]
  BY <1>3, <1>4 DEF SweptTo
<1>6. \A p : Flip(Now(p)') = Flip(Now(p))'
  BY DEF Flip
<1>7. SweepInv'
  BY <1>1, <1>2, <1>5, <1>6 DEF SweepInv, SamePlace
<1> QED
  BY <1>2, <1>7 DEF IInv, Base

LEMMA SweepNextStep ==
  ASSUME IInv, SweepNext
  PROVE  /\ IInv' /\ NPages' = NPages /\ uses' = uses /\ PagesKept /\ (NoneCached \/ SamePlace)
         /\ sweep' # "none" => page_number_' = page_number_ + 1
         /\ sweep' = "none" => goal = [p \in 1..NPages |-> Now(p)]
<1>1. /\ raw_data_ # << >> /\ sweep = "next"
      /\ page_number_ \in 1..NPages /\ NPages \in Nat \ {0}
      /\ goal = [p \in 1..NPages |-> IF p < page_number_ \/ p = page_number_ THEN Now(p)
                                     ELSE Flip(Now(p))]
  BY SizeFacts DEF SweepNext, IInv, SweepInv
<1>2. has_more <=> page_number_ < NPages
  BY <1>1, HasMoreFacts
<1>3. CASE has_more /\ TurnTo(page_number_ + 1, FALSE) /\ sweep' = "edit" /\ UNCHANGED goal
  <2>1. page_number_ + 1 \in 1..NPages
    BY <1>1, <1>2, <1>3
  <2>2. /\ Base' /\ NPages' = NPages /\ page_number_' = page_number_ + 1 /\ uses' = uses
        /\ PagesKept /\ NoneCached
    <3>1. sweep' \in {"none", "edit", "next"} /\ FALSE \in BOOLEAN
      BY <1>3
    <3> QED
      BY <1>3, <2>1, <3>1, TurnStep
  <2>3. \A p \in 1..NPages : p < page_number_ + 1 <=> p < page_number_ \/ p = page_number_
    BY <1>1
  <2>4. SweptTo(page_number_', goal')
    BY <1>1, <1>3, <2>2, <2>3 DEF SweptTo
  <2>5. SweepInv'
    BY <1>3, <2>2, <2>4, SweepInvNext
  <2> QED
    BY <1>3, <2>2, <2>5 DEF IInv, Base
<1>4. CASE ~has_more /\ UNCHANGED objVars /\ sweep' = "none" /\ goal' = << >>
  <2>1. Base' /\ NPages' = NPages /\ PagesKept /\ SamePlace
    BY <1>4, StayStep DEF SamePlace
  <2>2. SweepInv' /\ uses' = uses
    BY <1>4 DEF SweepInv, objVars
  <2>3. \A p \in 1..NPages : p < page_number_ \/ p = page_number_
    BY <1>1, <1>2, <1>4
  <2>4. goal = [p \in 1..NPages |-> Now(p)]
    BY <1>1, <2>3
  <2> QED
    BY <1>4, <2>1, <2>2, <2>4 DEF IInv, Base
<1> QED
  BY <1>3, <1>4 DEF SweepNext

(***************************************************************************)
(* The invariant, and what follows from it.                                *)
(***************************************************************************)
LEMMA InitFromFile ==
  ASSUME Init, NEW n \in FilePixels, file = NewPixels(1, n), raw_data_ = FirstPage(file),
         num_pixels_ = n, f_accessor_ = (Len(raw_data_) # n)
  PROVE  IInv
<1>1. /\ uses \in Sessions /\ page_number_ = 1 /\ page_dirty_ = {} /\ dirty_page_edited_ = FALSE
      /\ tmp = << >> /\ pix_range_ = <<1, n>> /\ sweep = "none"
  BY DEF Init
<1>2. n \in Nat \ {0} /\ n \in 1..MaxPixels
  BY PixelAssumption
<1>3. file \in Seq(Pixel) /\ Len(file) = n /\ \A i \in 1..n : file[i].u = i
  BY <1>2, FilePixelsFacts
<1>4. /\ NPages = PagesOf(n) /\ 1 \in 1..NPages /\ NPages \in Nat \ {0} /\ Start(1) = 0
      /\ NPages = 1 => PageLen(n, 1) = n /\ n <= BasePage
      /\ NPages > 1 => PageLen(n, 1) = BasePage /\ BasePage < n
  BY <1>2, FirstPageFacts, PageCountFacts, StartFacts DEF NPages
<1>5. \A p : Stored(p) = CleanOf(file, n, p)
  BY <1>1 DEF Stored, StoredOf
<1>6. raw_data_ = CleanOf(file, n, 1)
  BY <1>2, <1>3, <1>4, PixelAssumption DEF CleanOf, FirstPage, MinOf
<1>7. \A p \in 1..NPages : /\ Stored(p) \in Seq(Pixel) /\ Len(Stored(p)) = PageLen(n, p)
                           /\ \A k \in 1..Len(Stored(p)) :
                                Start(p) + k <= n /\ Stored(p)[k] = file[Start(p) + k]
  BY <1>2, <1>3, <1>4, <1>5, CleanFacts
<1>8. /\ raw_data_ = Stored(1) /\ raw_data_ \in Seq(Pixel) /\ raw_data_ # << >>
      /\ Len(raw_data_) = PageLen(n, 1)
  <2>1. raw_data_ = Stored(1) /\ raw_data_ \in Seq(Pixel) /\ Len(raw_data_) = PageLen(n, 1)
    BY <1>4, <1>5, <1>6, <1>7
  <2> QED
    BY <1>2, <1>4, <2>1, EditedPages, PixelAssumption
<1>9. f_accessor_ <=> NPages > 1
  <2>1. f_accessor_ <=> PageLen(n, 1) # n
    BY <1>8
  <2> QED
    BY <1>2, <1>4, <2>1, PixelAssumption
<1>10. \A p \in 1..NPages : Now(p) = Stored(p)
  BY <1>1, <1>8 DEF Now
<1>11. TypeInv
  <2>1. DOMAIN << >> = {} /\ f_accessor_ \in BOOLEAN /\ num_pixels_ \in 1..MaxPixels
        /\ <<1, n>> \in Int \X Int
    BY <1>2
  <2> QED
    BY <1>1, <1>3, <1>4, <1>8, <2>1 DEF TypeInv
<1>12. FileInv /\ DirtyInv /\ StoredInv /\ CachedInv /\ SweepInv
  BY <1>1, <1>2, <1>3, <1>4, <1>7, <1>8, <1>9
     DEF FileInv, DirtyInv, StoredInv, CachedInv, SweepInv
<1>13. RangeInv
  <2> SUFFICES ASSUME NEW p \in 1..NPages PROVE Covered(Stored(p), pix_range_)
    BY <1>10 DEF RangeInv
  <2>1. Start(p) \in Nat /\ DOMAIN Stored(p) = 1..Len(Stored(p)) /\ Len(Stored(p)) \in Nat
    BY <1>4, <1>7, StartFacts, PixelFacts
  <2>2. \A k \in 1..Len(Stored(p)) : Start(p) + k \in 1..n /\ Stored(p)[k].u = Start(p) + k
    <3> SUFFICES ASSUME NEW k \in 1..Len(Stored(p))
                 PROVE  Start(p) + k \in 1..n /\ Stored(p)[k].u = Start(p) + k
      OBVIOUS
    <3>1. Start(p) + k <= n /\ Stored(p)[k] = file[Start(p) + k]
      BY <1>7
    <3>2. Start(p) + k \in 1..n
      BY <1>2, <2>1, <3>1
    <3> QED
      BY <1>3, <3>1, <3>2
  <2> QED
    BY <1>1, <1>2, <2>1, <2>2 DEF Covered
<1> QED
  BY <1>11, <1>12, <1>13 DEF IInv

LEMMA InitInMemory ==
  ASSUME Init, NEW n \in MemPixels, file = << >>, raw_data_ = NewPixels(1, n),
         num_pixels_ = n, f_accessor_ = FALSE
  PROVE  IInv
<1>1. /\ uses \in Sessions /\ page_number_ = 1 /\ page_dirty_ = {} /\ dirty_page_edited_ = FALSE
      /\ tmp = << >> /\ pix_range_ = <<1, n>> /\ sweep = "none"
  BY DEF Init
<1>2. n \in Nat \ {0} /\ n \in 1..MaxPixels /\ n <= BasePage
  BY PixelAssumption DEF MinOf
<1>3. raw_data_ \in Seq(Pixel) /\ Len(raw_data_) = n /\ \A i \in 1..n : raw_data_[i].u = i
  BY <1>2, FilePixelsFacts
<1>4. NPages = 1 /\ PageLen(n, 1) = n
  <2>1. /\ NPages \in Nat \ {0} /\ (NPages = 1 => PageLen(n, 1) = n)
        /\ NPages > 1 => BasePage < n
    BY <1>2, FirstPageFacts, PageCountFacts DEF NPages
  <2> QED
    BY <1>2, <2>1, PixelAssumption
<1>5. raw_data_ # << >> /\ DOMAIN raw_data_ = 1..n
  BY <1>2, <1>3, EditedPages
<1>6. TypeInv
  <2>1. << >> \in Seq(Pixel) /\ DOMAIN << >> = {} /\ 1 \in 1..1
    OBVIOUS
  <2>2. <<1, n>> \in Int \X Int /\ num_pixels_ \in 1..MaxPixels
    BY <1>2
  <2> QED
    BY <1>1, <1>2, <1>3, <1>4, <2>1, <2>2 DEF TypeInv
<1>7. FileInv /\ DirtyInv /\ StoredInv /\ CachedInv /\ SweepInv
  BY <1>1, <1>3, <1>4, <1>5 DEF FileInv, DirtyInv, StoredInv, CachedInv, SweepInv
<1>8. RangeInv
  BY <1>1, <1>2, <1>3, <1>4, <1>5 DEF RangeInv, Covered, Now
<1> QED
  BY <1>6, <1>7, <1>8 DEF IInv

LEMMA InitIInv == Init => IInv
<1> SUFFICES ASSUME Init PROVE IInv
  OBVIOUS
<1>1. \/ \E n \in FilePixels :
           /\ file = NewPixels(1, n) /\ raw_data_ = FirstPage(file)
           /\ num_pixels_ = n /\ f_accessor_ = (Len(raw_data_) # n)
      \/ \E n \in MemPixels :
           /\ file = << >> /\ raw_data_ = NewPixels(1, n)
           /\ num_pixels_ = n /\ f_accessor_ = FALSE
  BY DEF Init
<1> QED
  BY <1>1, InitFromFile, InitInMemory

LEMMA NextIInv == IInv /\ [Next]_vars => IInv'
<1> SUFFICES ASSUME IInv, [Next]_vars PROVE IInv'
  OBVIOUS
<1>1. CASE Get
  BY <1>1, GetStep
<1>2. CASE SetCoordinates
  BY <1>2, SetCoordinatesStep
<1>3. CASE SetSignal
  <2>1. FlipSignal /\ sweep = "none" /\ UNCHANGED <<sweep, goal>>
    BY <1>3 DEF SetSignal, Idle
  <2>2. Base'
    BY <2>1, FlipStep
  <2>3. SweepInv'
    BY <2>1 DEF SweepInv
  <2> QED
    BY <2>2, <2>3 DEF IInv, Base
<1>4. CASE MoveToPage
  BY <1>4, MoveToPageStep
<1>5. CASE Append_
  BY <1>5, AppendStep
<1>6. CASE Copy
  BY <1>6, CopyStep
<1>7. CASE SweepStart
  BY <1>7, SweepStartStep
<1>8. CASE SweepEdit
  BY <1>8, SweepEditStep
<1>9. CASE SweepNext
  BY <1>9, SweepNextStep
<1>10. CASE UNCHANGED vars
  <2>1. UNCHANGED objVars /\ UNCHANGED <<sweep, goal>>
    BY <1>10 DEF vars
  <2>2. sweep' \in {"none", "edit", "next"}
    BY <2>1 DEF IInv, TypeInv
  <2>3. Base' /\ SamePlace /\ PagesKept
    BY <2>1, <2>2, StayStep
  <2>4. page_number_' = page_number_ /\ raw_data_' = raw_data_
    BY <2>1 DEF objVars
  <2>5. \A p \in 1..NPages : Flip(Now(p))' = Flip(Now(p))
    BY <2>3 DEF PagesKept, Flip
  <2>6. SweepInv'
    BY <2>1, <2>3, <2>4, <2>5 DEF IInv, SweepInv, PagesKept, SamePlace
  <2> QED
    BY <2>3, <2>6 DEF IInv, Base
<1> QED
  BY <1>1, <1>2, <1>3, <1>4, <1>5, <1>6, <1>7, <1>8, <1>9, <1>10 DEF Next

\* The invariant holds of every object, whatever is done with it.
THEOREM Invariance == Spec => []IInv
BY InitIInv, NextIInv, PTL DEF Spec

\* Every variable keeps its type, and no page outgrows the memory for it.
THEOREM TypeCorrect == Spec => []TypeOK
<1>1. IInv => TypeOK
  <2> SUFFICES ASSUME IInv PROVE TypeOK
    OBVIOUS
  <2>1. NumPages = NPages /\ Len(raw_data_) \in 0..BasePage /\ TypeInv
    BY SizeFacts DEF IInv
  <2>2. Len(raw_data_) <= BasePage
    BY <2>1, PixelAssumption
  <2>3. DOMAIN tmp \subseteq 1..NPages
    BY <2>1 DEF TypeInv
  <2> QED
    BY <2>1, <2>2, <2>3 DEF TypeOK, TypeInv
<1> QED
  BY <1>1, Invariance, PTL

\* Each page can be loaded, with as many pixels as belong to it: it is in its
\* tmp file, in the cache, or in the file, which is open then.
THEOREM EveryPageLoadable == Spec => []PagesLoadable
<1>1. IInv => PagesLoadable
  <2> SUFFICES ASSUME IInv, NEW p \in 1..NPages
               PROVE  /\ Len(PageNow(p)) = MinOf(BasePage, num_pixels_ - (p - 1) * BasePage)
                      /\ HasTmp(p) \/ (p = page_number_ /\ ~CacheEmpty) \/ f_accessor_
    BY SizeFacts DEF IInv, PagesLoadable
  <2>1. page_number_ \in 1..NPages /\ NPages \in Nat \ {0}
    BY SizeFacts DEF IInv
  <2>2. Len(PageNow(p)) = PageLen(num_pixels_, p) /\ (HasTmp(p) <=> p \in DOMAIN tmp)
    BY View, NowFacts
  <2>3. ~(p = page_number_ /\ ~CacheEmpty) => p \in DOMAIN tmp \/ f_accessor_
    BY <2>1 DEF CacheEmpty, IInv, StoredInv, DirtyInv, CachedInv
  <2> QED
    BY <2>2, <2>3 DEF PageLen, Start
<1> QED
  BY <1>1, Invariance, PTL

\* The range covers each pixel, wherever it is.
THEOREM RangeIsRight == Spec => []RangeCoversPixels
<1>1. IInv => RangeCoversPixels
  BY View, SizeFacts DEF IInv, RangeInv, Covered, RangeCoversPixels
<1> QED
  BY <1>1, Invariance, PTL

\* The lookup of an index comes to its page and place.
LEMMA LookupFacts ==
  ASSUME IInv, NEW p \in 1..NPages, NEW k \in 1..BasePage
  PROVE  LET i == (p - 1) * BasePage + k
         IN  PageOf(i) = p /\ InPage(i) = k /\ i = Start(p) + k
<1> DEFINE i == Start(p) + k
<1>1. /\ base_page_size = BasePage /\ p \in Nat \ {0} /\ Start(p) \in Nat
      /\ Start(p) = (p - 1) * BasePage
  BY SizeFacts, StartFacts DEF IInv
<1>2. i \in Nat \ {0} /\ Start(p) < i /\ i <= Start(p) + BasePage
  BY <1>1, PixelAssumption
<1> HIDE DEF i
<1>3. p = CeilDiv(i, BasePage)
  BY <1>1, <1>2, PageCountIs, PageCountFacts
<1>4. PageOf(i) = p
  BY <1>1, <1>3 DEF PageOf
<1>5. InPage(i) = i - Start(p)
  BY <1>1, <1>4 DEF InPage
<1>6. i - Start(p) = k
  BY <1>1 DEF i
<1> QED
  BY <1>1, <1>4, <1>5, <1>6 DEF i

\* The pixel at an index is the one on its page, wherever that page is held.
THEOREM IndexIsRight == Spec => []GetPixelsRight
<1>1. IInv => GetPixelsRight
  <2> SUFFICES ASSUME IInv, "nosave" \notin uses, NEW p \in 1..NPages, NEW k \in 1..Len(Now(p))
               PROVE  PixelAt((p - 1) * BasePage + k) = <<Now(p)[k]>>
    <3>1. ASSUME IInv
          PROVE  /\ NumPages = NPages
                 /\ \A q \in 1..NPages : PageNow(q) = Now(q) /\ DOMAIN Now(q) = 1..Len(Now(q))
      BY <3>1, SizeFacts, View, NowFacts, PixelFacts DEF IInv
    <3> QED
      BY <3>1 DEF GetPixelsRight
  <2> DEFINE i == (p - 1) * BasePage + k
  <2>1. /\ page_number_ \in 1..NPages /\ NPages \in Nat \ {0} /\ num_pixels_ \in Nat \ {0}
        /\ (FileBacked <=> NPages > 1) /\ (CacheEmpty <=> raw_data_ = << >>)
        /\ file \in Seq(Pixel)
    BY SizeFacts, View DEF IInv, TypeInv
  <2>2. Len(Now(p)) \in 1..BasePage
    BY NowFacts
  <2>3. PageOf(i) = p /\ InPage(i) = k /\ i = Start(p) + k
    <3>1. k \in 1..BasePage
      BY <2>2, PixelAssumption
    <3> QED
      BY <3>1, LookupFacts
  <2> HIDE DEF i
  <2>4. \* A page in the file.
        ASSUME NPages > 1, Now(p) = Stored(p), p \notin DOMAIN tmp, f_accessor_
        PROVE  FromFile(i) = <<Now(p)[k]>>
    <3>1. Now(p) = CleanOf(file, num_pixels_, p)
      BY <2>4 DEF Stored, StoredOf
    <3>2. i <= Len(file) /\ Now(p)[k] = file[i]
      BY <2>1, <2>3, <3>1, CleanFacts, SMTT(30) DEF NPages
    <3> QED
      BY <2>4, <3>2 DEF FromFile
  <2>5. /\ DOMAIN tmp \subseteq page_dirty_
        /\ \A q \in page_dirty_ : q \in DOMAIN tmp \/ (q = page_number_ /\ dirty_page_edited_)
        /\ dirty_page_edited_ => raw_data_ # << >> /\ page_number_ \in page_dirty_
    BY DEF IInv, TypeInv, DirtyInv
  <2>6. CASE ~FileBacked
    <3>1. NPages = 1 /\ p = page_number_ /\ p = 1 /\ raw_data_ # << >>
      BY <2>1, <2>6 DEF IInv, CachedInv
    <3>2. Now(p) = raw_data_ /\ i = k
      BY <2>3, <3>1, StartFacts DEF Now
    <3> QED
      BY <2>6, <3>2 DEF PixelAt, i
  <2>7. CASE FileBacked /\ p = page_number_ /\ raw_data_ # << >> /\ page_dirty_ # {}
    BY <2>1, <2>3, <2>7 DEF PixelAt, Now, i
  <2>8. CASE FileBacked /\ ~(p = page_number_ /\ raw_data_ # << >> /\ page_dirty_ # {})
    <3>1. NPages > 1 /\ Now(p) = Stored(p) /\ (p \in DOMAIN tmp \/ f_accessor_)
      BY <2>1, <2>5, <2>8 DEF IInv, StoredInv, CachedInv, Now
    <3>2. CASE p \in DOMAIN tmp
      <4>1. Now(p) = tmp[p] /\ p \in page_dirty_
        BY <2>5, <3>1, <3>2 DEF Stored, StoredOf
      <4> QED
        BY <2>1, <2>3, <2>8, <3>2, <4>1 DEF PixelAt, i
    <3>3. CASE p \notin DOMAIN tmp
      <4>1. FromFile(i) = <<Now(p)[k]>>
        BY <2>4, <3>1, <3>3
      <4>2. page_dirty_ = {} \/ (p \notin page_dirty_ /\ ~(p = page_number_ /\ raw_data_ # << >>))
        BY <2>5, <2>8, <3>3
      <4> QED
        BY <2>1, <2>3, <2>8, <4>1, <4>2 DEF PixelAt, i
    <3> QED
      BY <3>2, <3>3
  <2> QED
    BY <2>1, <2>6, <2>7, <2>8 DEF i
<1> QED
  BY <1>1, Invariance, PTL

(***************************************************************************)
(* What steps do to the list of pages, and that PixelPages is implemented.  *)
(***************************************************************************)
PageList == [p \in 1..NPages |-> Now(p)]

LEMMA PageListFacts == IInv => /\ AllPages = PageList /\ NumPages = NPages
                               /\ StoredPage(page_number_) = Stored(page_number_)
                               /\ FileBacked <=> NPages > 1
<1> SUFFICES ASSUME IInv
             PROVE  /\ AllPages = PageList /\ NumPages = NPages
                    /\ StoredPage(page_number_) = Stored(page_number_)
                    /\ FileBacked <=> NPages > 1
  OBVIOUS
<1>1. NumPages = NPages /\ page_number_ \in 1..NPages
  BY SizeFacts DEF IInv
<1>2. AllPages = PageList
  BY <1>1, View DEF AllPages, PageList
<1> QED
  BY <1>1, <1>2, View

LEMMA KeptList ==
  ASSUME NPages' = NPages, PagesKept
  PROVE  PageList' = PageList
BY DEF PageList, PagesKept

LEMMA PageListType ==
  ASSUME IInv
  PROVE  /\ PageList \in Seq(Seq(Pixel)) /\ Len(PageList) = NPages /\ NPages \in Nat \ {0}
         /\ DOMAIN PageList = 1..NPages /\ \A p \in 1..NPages : PageList[p] = Now(p)
<1>1. NPages \in Nat \ {0} /\ \A p \in 1..NPages : Now(p) \in Seq(Pixel)
  BY SizeFacts, NowFacts DEF IInv
<1>2. PageList \in [1..NPages -> Seq(Pixel)]
  BY <1>1 DEF PageList
<1>3. PageList \in Seq(Seq(Pixel)) /\ Len(PageList) = NPages
  BY <1>1, <1>2
<1> QED
  BY <1>1, <1>3 DEF PageList

\* A sweep over the pages changes each of them once.
THEOREM SweepIsOnce == Spec => SweepAppliesOnce
<1>1. IInv /\ IInv' /\ [Next]_vars => [sweep # "none" /\ sweep' = "none" => AllPages = goal]_vars
  <2> SUFFICES ASSUME IInv, Next, sweep # "none", sweep' = "none"
               PROVE  AllPages = goal
    BY DEF vars
  <2>1. SweepNext
    BY DEF Next, Get, SetCoordinates, SetSignal, MoveToPage, Append_, Copy, Idle,
           SweepStart, SweepEdit
  <2>2. goal = PageList
    BY <2>1, SweepNextStep DEF PageList
  <2> QED
    BY <2>2, PageListFacts
<1> QED
  BY <1>1, Invariance, PTL DEF Spec, SweepAppliesOnce

LEMMA PrimedList == IInv' => /\ AllPages' = PageList' /\ NumPages' = NPages'
                             /\ (StoredPage(page_number_) = Stored(page_number_))'
                             /\ FileBacked' <=> (NPages > 1)'
<1>1. (IInv => /\ AllPages = PageList /\ NumPages = NPages
               /\ StoredPage(page_number_) = Stored(page_number_)
               /\ FileBacked <=> NPages > 1)'
  BY PageListFacts, PTL
<1> QED
  BY <1>1

\* A copy has the pixels of the original.
THEOREM CopyIsWhole == Spec => CopyKeepsPixels
<1>1. IInv /\ IInv' /\ [Next]_vars => [Copy => AllPages' = AllPages]_vars
  <2> SUFFICES ASSUME IInv, IInv', Copy
               PROVE  AllPages' = AllPages
    OBVIOUS
  <2> QED
    BY CopyStep, KeptList, PageListFacts, PrimedList
<1> QED
  BY <1>1, Invariance, PTL DEF Spec, CopyKeepsPixels

Discards == "nosave" \in uses /\ FileBacked
pageVars == <<AllPages, page_number_, "nosave" \in uses /\ FileBacked,
              StoredPage(page_number_)>>

LEMMA DiscardsFacts ==
  ASSUME IInv, IInv', uses' = uses, NPages' = NPages
  PROVE  /\ Discards' = Discards
         /\ page_number_ \in 1..NPages /\ page_number_' \in 1..NPages
<1>1. (FileBacked <=> NPages > 1) /\ (FileBacked' <=> NPages' > 1)
  BY PageListFacts, PrimedList
<1>2. FileBacked \in BOOLEAN /\ FileBacked' \in BOOLEAN
  BY DEF FileBacked, IInv, TypeInv
<1>3. Discards' = Discards
  BY <1>1, <1>2 DEF Discards
<1>4. page_number_ \in 1..NPages /\ page_number_' \in 1..NPages'
  BY DEF IInv, TypeInv
<1> QED
  BY <1>3, <1>4

\* In the same place, with the same pixels stored, nosave puts back the same.
LEMMA SamePlaceStored ==
  ASSUME IInv, IInv', SamePlace
  PROVE  (StoredPage(page_number_))' = StoredPage(page_number_)
<1>1. NPages' = NPages /\ page_number_' = page_number_ /\ page_number_ \in 1..NPages
  BY DEF SamePlace, IInv, TypeInv
<1>2. StoredOf(file', num_pixels_', tmp', page_number_')
        = StoredOf(file, num_pixels_, tmp, page_number_)
  BY <1>1 DEF SamePlace, Stored
<1>3. StoredPage(page_number_) = StoredOf(file, num_pixels_, tmp, page_number_)
  BY PageListFacts DEF Stored
<1>4. (StoredPage(page_number_))' = StoredOf(file', num_pixels_', tmp', page_number_')
  BY PrimedList DEF Stored
<1> QED
  BY <1>2, <1>3, <1>4

LEMMA StayMaps ==
  ASSUME IInv, IInv', uses' = uses, SamePlace, PagesKept
  PROVE  UNCHANGED pageVars
<1>1. NPages' = NPages /\ page_number_' = page_number_
  BY DEF SamePlace
<1>2. Discards' = Discards /\ page_number_ \in 1..NPages
  BY <1>1, DiscardsFacts
<1>3. AllPages' = AllPages
  BY <1>1, KeptList, PageListFacts, PrimedList
<1>4. (StoredPage(page_number_))' = StoredPage(page_number_)
  BY SamePlaceStored
<1> QED
  BY <1>1, <1>2, <1>3, <1>4 DEF pageVars, Discards

\* After a turn nosave would put back the page as it now is.
LEMMA TurnRemembers ==
  ASSUME IInv, IInv', uses' = uses, NPages' = NPages, NoneCached
  PROVE  (StoredPage(page_number_))' = AllPages'[page_number_']
<1>1. page_number_' \in 1..NPages
  BY DiscardsFacts
<1>2. \A p \in 1..NPages : PageList'[p] = StoredOf(file', num_pixels_', tmp', p)
  BY DEF NoneCached, PageList, Stored
<1>3. (StoredPage(page_number_))' = StoredOf(file', num_pixels_', tmp', page_number_')
  BY PrimedList DEF Stored
<1> QED
  BY <1>1, <1>2, <1>3, PrimedList

LEMMA TurnMaps ==
  ASSUME IInv, IInv', uses' = uses, NPages' = NPages, NoneCached, PagesKept
  PROVE  Pages!Next
<1>1. AllPages' = AllPages /\ AllPages = PageList /\ DOMAIN PageList = 1..NPages
  BY KeptList, PageListFacts, PrimedList, PageListType
<1>2. Pages!Keep
  BY <1>1, DiscardsFacts, TurnRemembers DEF Pages!Keep, Pages!Remember
<1> QED
  BY <1>2, DiscardsFacts DEF Pages!Next, Discards

LEMMA DiscardMaps ==
  ASSUME IInv, IInv', uses' = uses, NPages' = NPages, NoneCached, PageDiscarded,
         "nosave" \in uses, NPages > 1
  PROVE  Pages!Next
<1>1. /\ AllPages = PageList /\ DOMAIN PageList = 1..NPages /\ AllPages' = PageList'
      /\ \A p \in 1..NPages : PageList[p] = Now(p)
      /\ StoredPage(page_number_) = Stored(page_number_) /\ FileBacked
  BY PageListFacts, PrimedList, PageListType
<1>2. PageList' = [p \in 1..NPages |-> IF p = page_number_ THEN Stored(p) ELSE Now(p)]
  BY DEF PageList, PageDiscarded
<1>3. AllPages' = [AllPages EXCEPT ![page_number_] = StoredPage(page_number_)]
  BY <1>1, <1>2 DEF PageList
<1>4. Pages!Discard
  BY <1>1, <1>3, DiscardsFacts, TurnRemembers DEF Pages!Discard, Pages!Remember
<1> QED
  BY <1>4, DiscardsFacts DEF Pages!Next, Discards

\* An edit of the current page is one of the list's.
LEMMA EditMaps ==
  ASSUME IInv, IInv', uses' = uses, SamePlace,
         NEW new, Len(new) = Len(Now(page_number_)),
         \A p \in 1..NPages : Now(p)' = IF p = page_number_ THEN new ELSE Now(p)
  PROVE  Pages!Next
<1>1. NPages' = NPages /\ page_number_' = page_number_
  BY DEF SamePlace
<1>2. /\ AllPages = PageList /\ AllPages' = PageList' /\ DOMAIN PageList = 1..NPages
      /\ \A p \in 1..NPages : PageList[p] = Now(p)
  BY PageListFacts, PrimedList, PageListType
<1>3. PageList' = [p \in 1..NPages |-> IF p = page_number_ THEN new ELSE Now(p)]
  BY <1>1 DEF PageList
<1>4. (StoredPage(page_number_))' = StoredPage(page_number_)
  BY SamePlaceStored
<1>5. Pages!Edit
  BY <1>1, <1>2, <1>3, <1>4, DiscardsFacts DEF Pages!Edit
<1> QED
  BY <1>1, <1>5, DiscardsFacts DEF Pages!Next, Discards

\* Appended pixels go behind the pages.
LEMMA AppendMaps ==
  ASSUME IInv, IInv', Appended, "append" \in uses
  PROVE  Pages!Next
<1>1. uses' = uses /\ NPages' >= NPages /\ page_number_' = NPages' /\ "nosave" \notin uses
  BY PixelAssumption DEF Appended, IInv, TypeInv
<1>2. /\ AllPages = PageList /\ DOMAIN PageList = 1..NPages /\ Len(PageList) = NPages
      /\ \A p \in 1..NPages : PageList[p] = Now(p) /\ Now(p) \in Seq(Pixel)
      /\ NPages \in Nat \ {0}
  BY PageListFacts, PageListType, NowFacts
<1>3. /\ AllPages' = PageList' /\ PageList' \in Seq(Seq(Pixel)) /\ Len(PageList') = NPages'
      /\ NPages' \in Nat \ {0} /\ \A p \in 1..NPages : PageList'[p] = Now(p)'
  <2>1. (IInv => /\ PageList \in Seq(Seq(Pixel)) /\ Len(PageList) = NPages
                 /\ NPages \in Nat \ {0} /\ \A p \in 1..NPages : PageList[p] = Now(p))'
    BY PageListType, PTL
  <2>2. \A p \in 1..NPages : p \in 1..NPages'
    BY <1>1, <1>2, <2>1
  <2> QED
    BY <2>1, <2>2, PrimedList
<1>4. PageList'[NPages] \in Seq(Pixel) /\ PageList[NPages] \in Seq(Pixel)
  <2>1. NPages \in 1..NPages' /\ NPages \in 1..NPages /\ DOMAIN PageList' = 1..NPages'
    BY <1>1, <1>2, <1>3
  <2> QED
    BY <1>2, <1>3, <2>1
<1>5. \A q \in 1..NPages :
        IF q # NPages THEN PageList'[q] = PageList[q]
        ELSE /\ Len(PageList[q]) <= Len(PageList'[q])
             /\ \A i \in 1..Len(PageList[q]) : PageList'[q][i] = PageList[q][i]
             /\ Len(PageList[q]) < Len(PageList'[q]) \/ NPages' # NPages
  BY <1>2, <1>3 DEF Appended
<1>6. /\ \A p \in 1..(NPages - 1) : PageList'[p] = PageList[p]
      /\ Len(PageList[NPages]) <= Len(PageList'[NPages])
      /\ \A i \in 1..Len(PageList[NPages]) : PageList'[NPages][i] = PageList[NPages][i]
      /\ PageList' # PageList
  <2>1. NPages \in 1..NPages /\ \A p \in 1..(NPages - 1) : p \in 1..NPages /\ p # NPages
    BY <1>2
  <2>2. Len(PageList[NPages]) < Len(PageList'[NPages]) \/ NPages' # NPages
    BY <1>5, <2>1
  <2>3. PageList' # PageList
    BY <1>2, <1>3, <1>4, <2>2
  <2> QED
    BY <1>5, <2>1, <2>3
<1>7. Pages!IsPrefix(PageList[NPages], PageList'[NPages])
  BY <1>4, <1>6 DEF Pages!IsPrefix
<1>8. Pages!Append_
  BY <1>1, <1>2, <1>3, <1>6, <1>7 DEF Pages!Append_
<1> QED
  BY <1>1, <1>8 DEF Pages!Next

LEMMA CopyMaps ==
  ASSUME IInv, IInv', Copy
  PROVE  UNCHANGED pageVars \/ Pages!Next
<1>1. /\ NPages' = NPages /\ page_number_' = page_number_ /\ uses' = uses
      /\ PagesKept /\ (NPages > 1 => SamePlace)
  BY CopyStep
<1>2. CASE NPages > 1
  BY <1>1, <1>2, StayMaps
<1>3. CASE ~(NPages > 1)
  <2>1. AllPages' = AllPages /\ DOMAIN AllPages = 1..NPages
    BY <1>1, KeptList, PageListFacts, PrimedList, PageListType
  <2>2. ~FileBacked /\ ~FileBacked'
    BY <1>1, <1>3, PageListFacts, PrimedList
  <2>3. Pages!Keep
    BY <1>1, <2>1, <2>2, DiscardsFacts DEF Pages!Keep, Pages!Remember
  <2> QED
    BY <1>1, <2>3, DiscardsFacts DEF Pages!Next, Discards
<1> QED
  BY <1>2, <1>3

LEMMA InitMaps == Init => Pages!Init
<1> SUFFICES ASSUME Init PROVE Pages!Init
  OBVIOUS
<1>1. IInv /\ page_number_ = 1 /\ dirty_page_edited_ = FALSE
  BY InitIInv DEF Init
<1>2. /\ AllPages = PageList /\ Len(PageList) = NPages /\ NPages \in Nat \ {0}
      /\ PageList[1] = Now(1) /\ StoredPage(page_number_) = Stored(1)
      /\ FileBacked <=> NPages > 1
  BY <1>1, PageListFacts, PageListType
<1>3. Discards \in BOOLEAN /\ (Discards => NPages > 1)
  BY <1>1, <1>2 DEF Discards, FileBacked, IInv, TypeInv
<1>4. NPages > 1 => Now(1) = Stored(1)
  BY <1>1 DEF IInv, CachedInv, Now
<1> QED
  BY <1>1, <1>2, <1>3, <1>4 DEF Pages!Init, Discards

\* Each step is one of the list of pages, or changes nothing of it.
LEMMA NextMaps == IInv /\ IInv' /\ [Next]_vars => Pages!Next \/ UNCHANGED pageVars
<1> SUFFICES ASSUME IInv, IInv', [Next]_vars PROVE Pages!Next \/ UNCHANGED pageVars
  OBVIOUS
<1>0. page_number_ \in 1..NPages /\ Now(page_number_) \in Seq(Pixel)
  BY SizeFacts, NowFacts DEF IInv
<1>1. CASE Get
  BY <1>1, GetStep, StayMaps
<1>2. CASE SetCoordinates
  <2>1. Len(Mirror(Now(page_number_))) = Len(Now(page_number_))
    BY <1>0, EditedPages
  <2> QED
    BY <1>2, <2>1, SetCoordinatesStep, EditMaps
<1>3. Len(Flip(Now(page_number_))) = Len(Now(page_number_))
  BY <1>0, EditedPages
<1>4. CASE SetSignal
  <2>1. FlipSignal /\ sweep' \in {"none", "edit", "next"}
    BY <1>4 DEF SetSignal, Idle
  <2> QED
    BY <1>3, <2>1, FlipStep, EditMaps
<1>5. CASE MoveToPage
  BY <1>5, MoveToPageStep, TurnMaps, DiscardMaps
<1>6. CASE Append_
  BY <1>6, AppendStep, AppendMaps
<1>7. CASE Copy
  BY <1>7, CopyMaps
<1>8. CASE SweepStart
  BY <1>8, SweepStartStep, TurnMaps, StayMaps
<1>9. CASE SweepEdit
  BY <1>3, <1>9, SweepEditStep, EditMaps
<1>10. CASE SweepNext
  BY <1>10, SweepNextStep, TurnMaps, StayMaps
<1>11. CASE UNCHANGED vars
  <2>1. UNCHANGED objVars /\ sweep' \in {"none", "edit", "next"}
    BY <1>11 DEF vars, IInv, TypeInv
  <2> QED
    BY <2>1, StayStep, StayMaps
<1> QED
  BY <1>1, <1>2, <1>4, <1>5, <1>6, <1>7, <1>8, <1>9, <1>10, <1>11 DEF Next

\* Wherever its pixels are held, the object is a list of pages of which only
\* the current one is edited: no edit is lost or found on another page.
THEOREM Implements == Spec => ImplementsPages
<1>1. IInv /\ IInv' /\ [Next]_vars
          => [Pages!Next]_<<AllPages, page_number_, "nosave" \in uses /\ FileBacked,
                            StoredPage(page_number_)>>
  BY NextMaps DEF pageVars
<1> QED
  BY <1>1, InitMaps, Invariance, PTL DEF Spec, ImplementsPages, Pages!Spec
=============================================================================
