------------------------------ MODULE PixelData ------------------------------
(***************************************************************************)
(* Pixels that do not fit memory: class PixelData of                       *)
(* horace_core/sqw/PixelData with its PixelTmpFileHandler.  One page of    *)
(* pixels is cached; a page that was edited is written to a tmp file when  *)
(* another one is turned to, and read from there instead of the sqw file.  *)
(*                                                                         *)
(* A pixel is a coordinate u and a signal s, each edited on the whole page *)
(* at once.  Pixel i of the file has coordinate i, an edit changes its     *)
(* sign: pixels stay distinguishable, the range of coordinates changes.    *)
(* MATLAB runs one method at a time: an action is a method, except         *)
(* do_unary_op, whose loop over the pages takes an action a page.          *)
(***************************************************************************)
EXTENDS Integers, SequencesExt

CONSTANTS
  BasePage,     \* pixels that fit page_memory_size_
  FilePixels,   \* numbers of pixels of the files an object is made from
  MemPixels,    \* numbers of pixels of arrays an object is made from
  MaxPixels,    \* bound: pixels of one object
  Sessions      \* sets of methods that are used together, of AllUses

MinOf(a, b) == IF a < b THEN a ELSE b
AllUses == {"edit", "append", "nosave", "copy", "unary"}

\* Appended pixels are kept in tmp files only: an object that was appended to
\* loses them when it is copied, for the copy counts the pixels of the file
\* (PixelData.m:344), and has no place to load them from after move_to_page with
\* nosave (move_to_page.m:15).  Neither is followed any further.
ASSUME PixelAssumption ==
  /\ BasePage \in Nat \ {0} /\ MaxPixels \in Nat
  /\ FilePixels \subseteq 1..MaxPixels /\ MemPixels \subseteq 1..MinOf(BasePage, MaxPixels)
  /\ Sessions \subseteq SUBSET AllUses
  /\ \A s \in Sessions : "append" \in s => "nosave" \notin s /\ "copy" \notin s

VARIABLES
  uses,                 \* the methods used on this object, besides the getters
  file,                 \* the pixels in the sqw file, none for an object made in memory
  f_accessor_,          \* the file is open
  num_pixels_, page_number_, raw_data_,
  page_dirty_,          \* the pages marked dirty
  dirty_page_edited_,
  tmp,                  \* page |-> pixels in its tmp file
  pix_range_,           \* <<smallest, largest>> coordinate
  sweep, goal           \* do_unary_op: where it stands; ghost, the pixels at its end

objVars == <<uses, file, f_accessor_, num_pixels_, page_number_, raw_data_, page_dirty_,
             dirty_page_edited_, tmp, pix_range_>>
vars == <<objVars, sweep, goal>>

NewPixels(from, to) == [i \in 1..(to - from + 1) |-> [u |-> from + i - 1, s |-> 0]]
MaxOf(a, b) == IF a > b THEN a ELSE b
CeilDiv(a, b) == (a + b - 1) \div b

CoordRange(pix) ==
  LET us == {pix[i].u : i \in DOMAIN pix}
  IN  <<CHOOSE m \in us : \A x \in us : m <= x, CHOOSE m \in us : \A x \in us : m >= x>>
Widen(r, q) == <<MinOf(r[1], q[1]), MaxOf(r[2], q[2])>>

(***************************************************************************)
(* Derived properties of the class.                                        *)
(***************************************************************************)
PageSize(raw) == MaxOf(BasePage, Len(raw))             \* calculate_page_size_
base_page_size == PageSize(raw_data_)
NumPages == MaxOf(CeilDiv(num_pixels_, base_page_size), 1)    \* get_num_pages_
FileBacked == f_accessor_ \/ NumPages > 1              \* is_filebacked
CacheEmpty == raw_data_ = << >>
page_size ==
  IF num_pixels_ > 0 /\ CacheEmpty
  THEN IF base_page_size * page_number_ > num_pixels_
       THEN num_pixels_ - base_page_size * (page_number_ - 1)
       ELSE MinOf(base_page_size, num_pixels_)
  ELSE Len(raw_data_)
has_more ==
  FileBacked /\ IF page_size = 0 /\ num_pixels_ > base_page_size THEN TRUE
                ELSE (page_number_ - 1) * base_page_size + 1 + base_page_size <= num_pixels_

(***************************************************************************)
(* Construction: from a file, whose first page is loaded, or an array.     *)
(* A file that is read as a whole is closed.                               *)
(***************************************************************************)
FirstPage(pix) == SubSeq(pix, 1, MinOf(BasePage, Len(pix)))

Init ==
  /\ uses \in Sessions
  /\ \/ \E n \in FilePixels :
          /\ file = NewPixels(1, n) /\ raw_data_ = FirstPage(file)
          /\ num_pixels_ = n /\ f_accessor_ = (Len(raw_data_) # n)
     \/ \E n \in MemPixels :
          /\ file = << >> /\ raw_data_ = NewPixels(1, n)
          /\ num_pixels_ = n /\ f_accessor_ = FALSE
  /\ page_number_ = 1 /\ page_dirty_ = {} /\ dirty_page_edited_ = FALSE /\ tmp = << >>
  /\ pix_range_ = <<1, num_pixels_>>
  /\ sweep = "none" /\ goal = << >>

(***************************************************************************)
(* load_page_.  The pixels of a clean page come from the sqw file, the     *)
(* last page ends with num_pixels_; a file has no more than it has.        *)
(***************************************************************************)
HasTmp(p) == p \in page_dirty_ /\ p \in DOMAIN tmp
CleanPage(p) ==
  SubSeq(file, (p - 1) * base_page_size + 1,
         MinOf(MinOf(p * base_page_size, num_pixels_), Len(file)))
StoredPage(p) == IF HasTmp(p) THEN tmp[p] ELSE CleanPage(p)

LoadedAndClosed(p) ==             \* mutant: the file is closed after its last page
  [raw |-> StoredPage(p), dirty |-> IF HasTmp(p) THEN page_dirty_ ELSE page_dirty_ \ {p},
   open |-> f_accessor_ /\ p < NumPages, edited |-> FALSE]

\* What the fields are once page p is in the cache.
Loaded(p) ==
  [raw |-> StoredPage(p), dirty |-> IF HasTmp(p) THEN page_dirty_ ELSE page_dirty_ \ {p},
   open |-> f_accessor_ /\ (HasTmp(p) \/ Len(CleanPage(p)) # num_pixels_), edited |-> FALSE]
Cached == [raw |-> raw_data_, dirty |-> page_dirty_, open |-> f_accessor_,
           edited |-> dirty_page_edited_]

\* load_current_page_if_data_empty_: every getter and setter begins with it.
Current == IF CacheEmpty /\ FileBacked THEN Loaded(page_number_) ELSE Cached

Store(c) ==
  /\ raw_data_' = c.raw /\ page_dirty_' = c.dirty /\ f_accessor_' = c.open
  /\ dirty_page_edited_' = c.edited

WithTmp(t, p, pix) == [q \in DOMAIN t \cup {p} |-> IF q = p THEN pix ELSE t[q]]

RangeOfPage(raw, open, old) == CoordRange(raw)      \* mutant: the other pages are forgotten
\* reset_changed_coord_range: the range only grows while the file is open.
RangeAfter(raw, open, old) ==
  IF open /\ CeilDiv(num_pixels_, PageSize(raw)) > 1 THEN Widen(old, CoordRange(raw))
  ELSE CoordRange(raw)

Idle == sweep = "none" /\ UNCHANGED <<sweep, goal>>

(***************************************************************************)
(* Getters and setters.                                                    *)
(***************************************************************************)
Get ==
  /\ Idle /\ Store(Current)
  /\ UNCHANGED <<uses, file, num_pixels_, page_number_, tmp, pix_range_>>

Edited(c, new) == [c EXCEPT !.raw = new, !.dirty = @ \cup {page_number_}, !.edited = TRUE]
Mirror(pix) == [i \in DOMAIN pix |-> [pix[i] EXCEPT !.u = -@]]
Flip(pix) == [i \in DOMAIN pix |-> [pix[i] EXCEPT !.s = 1 - @]]

SetCoordinates ==
  /\ Idle /\ "edit" \in uses
  /\ Store(Edited(Current, Mirror(Current.raw)))
  /\ pix_range_' = RangeAfter(raw_data_', Current.open, pix_range_)
  /\ UNCHANGED <<uses, file, num_pixels_, page_number_, tmp>>

\* The setter of any field goes through that of data, which sets the range too.
FlipSignal ==
  /\ Store(Edited(Current, Flip(Current.raw)))
  /\ pix_range_' = RangeAfter(raw_data_', Current.open, pix_range_)
  /\ UNCHANGED <<uses, file, num_pixels_, page_number_, tmp>>

SetSignal == Idle /\ "edit" \in uses /\ FlipSignal

(***************************************************************************)
(* move_to_page, with which advance and move_to_first_page turn pages.     *)
(***************************************************************************)
TurnWritingOnce(p, nosave) ==     \* mutant: a page is written only once
  /\ FileBacked /\ page_number_ # p
  /\ tmp' = IF ~nosave /\ page_number_ \in page_dirty_ /\ dirty_page_edited_
              /\ page_number_ \notin DOMAIN tmp
            THEN WithTmp(tmp, page_number_, Current.raw) ELSE tmp
  /\ page_number_' = p /\ dirty_page_edited_' = FALSE /\ raw_data_' = << >>
  /\ UNCHANGED <<uses, file, f_accessor_, num_pixels_, page_dirty_, pix_range_>>
TurnForgetting(p, nosave) ==      \* mutant: nosave takes the mark off
  /\ FileBacked /\ page_number_ # p
  /\ tmp' = IF ~nosave /\ page_number_ \in page_dirty_ /\ dirty_page_edited_
            THEN WithTmp(tmp, page_number_, Current.raw) ELSE tmp
  /\ page_dirty_' = IF nosave THEN page_dirty_ \ {page_number_} ELSE page_dirty_
  /\ page_number_' = p /\ dirty_page_edited_' = FALSE /\ raw_data_' = << >>
  /\ UNCHANGED <<uses, file, f_accessor_, num_pixels_, pix_range_>>
TurnTo(p, nosave) ==
  /\ FileBacked /\ page_number_ # p
  /\ tmp' = IF ~nosave /\ page_number_ \in page_dirty_ /\ dirty_page_edited_
            THEN WithTmp(tmp, page_number_, Current.raw) ELSE tmp
  /\ page_number_' = p /\ dirty_page_edited_' = FALSE /\ raw_data_' = << >>
  /\ UNCHANGED <<uses, file, f_accessor_, num_pixels_, page_dirty_, pix_range_>>

MoveToPage ==
  /\ Idle
  /\ \E p \in 1..NumPages : TurnTo(p, FALSE) \/ ("nosave" \in uses /\ TurnTo(p, TRUE))

(***************************************************************************)
(* append, first turning to the last page.                                 *)
(***************************************************************************)
AtLast == NumPages = page_number_
OnLast == IF AtLast THEN Current ELSE Loaded(NumPages)
TmpAtLast ==
  IF ~AtLast /\ page_number_ \in page_dirty_ /\ dirty_page_edited_
  THEN WithTmp(tmp, page_number_, raw_data_) ELSE tmp
Extended(raw, last) == [raw |-> raw, dirty |-> page_dirty_ \cup {NumPages, last},
                        open |-> OnLast.open, edited |-> TRUE]

AppendUnsplit(pix) ==             \* mutant: the page is not split
  /\ Len(OnLast.raw) < BasePage
  /\ Store(Extended(OnLast.raw \o pix, NumPages))
  /\ tmp' = TmpAtLast /\ page_number_' = NumPages
  /\ pix_range_' = Widen(pix_range_, CoordRange(pix))
AppendToPage(pix) ==              \* room on the last page, perhaps not for all
  LET here == MinOf(BasePage - Len(OnLast.raw), Len(pix))
      full == OnLast.raw \o SubSeq(pix, 1, here)
      range == RangeAfter(full, OnLast.open, pix_range_)
      rest == SubSeq(pix, here + 1, Len(pix))
  IN  /\ Len(OnLast.raw) < BasePage
      /\ \/ /\ rest = << >>
            /\ Store(Extended(full, NumPages))
            /\ tmp' = TmpAtLast /\ page_number_' = NumPages /\ pix_range_' = range
         \/ /\ rest # << >>
            /\ Store(Extended(rest, NumPages + 1))
            /\ tmp' = WithTmp(TmpAtLast, NumPages, full)
            /\ page_number_' = NumPages + 1
            /\ pix_range_' = Widen(range, CoordRange(rest))

AppendUnmarked(pix) ==            \* mutant: a page in memory is not kept
  LET last == IF AtLast THEN Cached ELSE Loaded(NumPages)
  IN  /\ (IF AtLast THEN page_size ELSE Len(last.raw)) = BasePage
      /\ tmp' = IF last.edited THEN WithTmp(TmpAtLast, NumPages, last.raw) ELSE TmpAtLast
      /\ Store([raw |-> pix, open |-> last.open, edited |-> TRUE,
                dirty |-> last.dirty \cup {NumPages + 1}])
      /\ page_number_' = NumPages + 1 /\ pix_range_' = Widen(pix_range_, CoordRange(pix))
AppendAsPage(pix) ==              \* it is full: it is kept if it has to be, not loaded
  LET last == IF AtLast THEN Cached ELSE Loaded(NumPages)
      range == RangeAfter(pix, last.open, pix_range_)
  IN  /\ (IF AtLast THEN page_size ELSE Len(last.raw)) = BasePage
      /\ tmp' = IF last.edited \/ ~FileBacked THEN WithTmp(TmpAtLast, NumPages, last.raw)
                ELSE TmpAtLast
      /\ Store([raw |-> pix, open |-> last.open, edited |-> TRUE,
                dirty |-> last.dirty \cup {NumPages + 1}
                            \cup IF FileBacked THEN {} ELSE {NumPages}])
      /\ page_number_' = NumPages + 1 /\ pix_range_' = Widen(pix_range_, range)

Append_ ==
  /\ Idle /\ "append" \in uses
  /\ \E n \in 1..MinOf(BasePage, MaxPixels - num_pixels_) :
       LET pix == NewPixels(num_pixels_ + 1, num_pixels_ + n)
       IN  /\ AppendToPage(pix) \/ AppendAsPage(pix)
           /\ num_pixels_' = num_pixels_ + n
  /\ UNCHANGED <<uses, file>>

(***************************************************************************)
(* copy: the object goes on as its copy.                                   *)
(***************************************************************************)
CopyAtFirstPage ==                \* mutant: page_number_ is not copied
  /\ Idle /\ "copy" \in uses
  /\ raw_data_' = Current.raw /\ page_number_' = 1
  /\ UNCHANGED <<uses, file, f_accessor_, num_pixels_, tmp, page_dirty_, dirty_page_edited_,
                 pix_range_>>
Copy ==
  /\ Idle /\ "copy" \in uses
  /\ raw_data_' = Current.raw
  /\ \/ /\ FileBacked /\ file # << >>         \* the file is opened anew
        /\ num_pixels_' = Len(file) /\ f_accessor_' = (Len(file) > BasePage)
        /\ pix_range_' = IF Len(file) > BasePage
                         THEN Widen(CoordRange(file), CoordRange(raw_data_')) ELSE CoordRange(raw_data_')
        /\ UNCHANGED <<file, page_number_, tmp, page_dirty_, dirty_page_edited_>>
     \/ /\ ~(FileBacked /\ file # << >>)
        /\ num_pixels_' = Len(raw_data_') /\ f_accessor_' = FALSE
        /\ pix_range_' = CoordRange(raw_data_')
        /\ page_number_' = 1 /\ tmp' = << >>
        /\ page_dirty_' = {} /\ dirty_page_edited_' = FALSE /\ file' = << >>
  /\ UNCHANGED uses

(***************************************************************************)
(* get_pixels: the pixel at an index, <<>> where its lookup fails.         *)
(***************************************************************************)
PageOf(i) == CeilDiv(i, base_page_size)
InPage(i) == i - (PageOf(i) - 1) * base_page_size
FromFile(i) == IF f_accessor_ /\ i <= Len(file) THEN <<file[i]>> ELSE << >>
PixelAtTmpFirst(i) ==             \* mutant: the tmp file before the cache
  IF ~FileBacked THEN <<raw_data_[i]>>
  ELSE IF PageOf(i) \in page_dirty_ \cap DOMAIN tmp THEN <<tmp[PageOf(i)][InPage(i)]>>
  ELSE IF PageOf(i) = page_number_ /\ ~CacheEmpty THEN <<raw_data_[InPage(i)]>>
  ELSE FromFile(i)
PixelAt(i) ==
  IF ~FileBacked THEN <<raw_data_[i]>>
  ELSE IF page_dirty_ = {} THEN FromFile(i)
  ELSE IF PageOf(i) = page_number_ /\ ~CacheEmpty THEN <<raw_data_[InPage(i)]>>
  ELSE IF PageOf(i) \notin page_dirty_ THEN FromFile(i)
  ELSE IF PageOf(i) \in DOMAIN tmp THEN <<tmp[PageOf(i)][InPage(i)]>>
  ELSE << >>

(***************************************************************************)
(* do_unary_op.                                                            *)
(***************************************************************************)
PageNow(p) == IF p = page_number_ /\ ~CacheEmpty THEN raw_data_ ELSE StoredPage(p)
AllPages == [p \in 1..NumPages |-> PageNow(p)]

SweepFromHere ==                  \* mutant: it does not move to the first page
  /\ sweep = "none" /\ "unary" \in uses
  /\ goal' = [p \in 1..NumPages |-> Flip(PageNow(p))]
  /\ sweep' = "edit" /\ UNCHANGED objVars

SweepStart ==
  /\ sweep = "none" /\ "unary" \in uses
  /\ goal' = [p \in 1..NumPages |-> Flip(PageNow(p))]
  /\ sweep' = "edit"
  /\ TurnTo(1, FALSE) \/ (~(FileBacked /\ page_number_ # 1) /\ UNCHANGED objVars)

SweepEdit == sweep = "edit" /\ sweep' = "next" /\ FlipSignal /\ UNCHANGED goal

SweepNext ==
  /\ sweep = "next"
  /\ \/ has_more /\ TurnTo(page_number_ + 1, FALSE) /\ sweep' = "edit" /\ UNCHANGED goal
     \/ ~has_more /\ UNCHANGED objVars /\ sweep' = "none" /\ goal' = << >>

Next ==
  \/ Get \/ SetCoordinates \/ SetSignal \/ MoveToPage \/ Append_ \/ Copy
  \/ SweepStart \/ SweepEdit \/ SweepNext

Spec == Init /\ [][Next]_vars

(***************************************************************************)
(* Properties.                                                             *)
(***************************************************************************)
Pixel == [u : Int, s : {0, 1}]

\* Every variable keeps its type; no page outgrows the memory for it.
TypeOK ==
  /\ uses \in Sessions /\ file \in Seq(Pixel) /\ raw_data_ \in Seq(Pixel) /\ Len(raw_data_) <= BasePage
  /\ f_accessor_ \in BOOLEAN /\ dirty_page_edited_ \in BOOLEAN
  /\ num_pixels_ \in 1..MaxPixels /\ page_number_ \in 1..NumPages
  /\ page_dirty_ \subseteq 1..NumPages /\ DOMAIN tmp \subseteq 1..NumPages
  /\ \A p \in DOMAIN tmp : tmp[p] \in Seq(Pixel)
  /\ pix_range_ \in Int \X Int /\ sweep \in {"none", "edit", "next"}

\* Wherever its pixels are held, the object is a list of pages of which only
\* the current one changes: an edit is not lost, nor found on another page,
\* when pages are turned, loaded, appended to or swept over.
Pages == INSTANCE PixelPages
           WITH pages <- AllPages, page <- page_number_, kept <- StoredPage(page_number_),
                discards <- "nosave" \in uses /\ FileBacked
ImplementsPages == Pages!Spec

\* Every page can be had, with as many pixels as belong to it: a page that is
\* not in a tmp file is in the sqw file, and that is still open.
PagesLoadable ==
  \A p \in 1..NumPages :
    /\ Len(PageNow(p)) = MinOf(BasePage, num_pixels_ - (p - 1) * BasePage)
    /\ HasTmp(p) \/ (p = page_number_ /\ ~CacheEmpty) \/ f_accessor_

\* "Retrieve the pixels at the given indices in the full pixel block"
\* (get_pixels.m:2): indexed access agrees with access page by page.  After
\* nosave it does not: the page stays in page_dirty_ (move_to_page.m:15-20)
\* and get_pixels opens a tmp file nobody wrote.
GetPixelsRight ==
  "nosave" \notin uses =>
    \A p \in 1..NumPages : \A k \in DOMAIN PageNow(p) :
      PixelAt((p - 1) * BasePage + k) = <<PageNow(p)[k]>>

\* pix_range, "[2x4] array of [min;max] values of pixels coordinates field"
\* (PixelData.m:151), is too small for no pixel: binning relies on it.  Copies
\* and pages appended to an object without an open file lose the range of other pages
\* (PixelData.m:907).
RangeCoversPixels ==
  "copy" \notin uses /\ ("append" \in uses => f_accessor_) =>
    \A p \in 1..NumPages : \A i \in DOMAIN PageNow(p) :
      PageNow(p)[i].u >= pix_range_[1] /\ PageNow(p)[i].u <= pix_range_[2]

\* An operation over all pages is applied to every pixel exactly once, edited
\* and unedited pages, cached or in tmp files, alike.
SweepAppliesOnce == [][sweep # "none" /\ sweep' = "none" => AllPages = goal]_vars

\* "Make an independent copy of this object" (PixelData.m:431): a copy has the
\* pixels of the original, edited pages included, whether they are in the cache
\* or in tmp files.
CopyKeepsPixels == [][Copy => AllPages' = AllPages]_vars
=============================================================================
