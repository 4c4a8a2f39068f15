----------------------------- MODULE PixelPages -----------------------------
(***************************************************************************)
(* What a paged PixelData object promises its user: a list of pages of     *)
(* pixels, one of them current.  Only pixels of the current page change.   *)
(* Turning to another page keeps the changes or, with 'nosave', puts the   *)
(* current page back to what was last kept.  Appended pixels go behind the *)
(* last page, which becomes the current one; appending and discarding are  *)
(* not used together.  Where pixels are held (memory, tmp files, the sqw   *)
(* file), loading pages and copying the object cannot be seen.             *)
(***************************************************************************)
EXTENDS Naturals, SequencesExt

VARIABLES
  pages,    \* the pixels, page by page
  page,     \* the current page
  discards, \* the user discards changes with 'nosave'
  kept      \* what that would put back in the current page

Remember == discards => kept' = pages'[page']

Init ==
  /\ page = 1 /\ Len(pages) > 0
  /\ discards \in BOOLEAN /\ (discards => kept = pages[page])

Edit ==
  /\ DOMAIN pages' = DOMAIN pages /\ Len(pages'[page]) = Len(pages[page])
  /\ \A p \in DOMAIN pages : p # page => pages'[p] = pages[p]
  /\ page' = page /\ (discards => kept' = kept)

Keep == page' \in DOMAIN pages /\ pages' = pages /\ Remember

Discard ==
  /\ discards
  /\ pages' = [pages EXCEPT ![page] = kept] /\ page' \in DOMAIN pages /\ Remember

Append_ ==
  /\ ~discards /\ pages' # pages
  /\ Len(pages) <= Len(pages') /\ IsPrefix(pages[Len(pages)], pages'[Len(pages)])
  /\ \A p \in 1..(Len(pages) - 1) : pages'[p] = pages[p]
  /\ page' = Len(pages')

Next == (Edit \/ Keep \/ Discard \/ Append_) /\ discards' = discards

Spec == Init /\ [][Next]_<<pages, page, discards, kept>>
=============================================================================
