# Verification of Horace

Horace analyses inelastic neutron scattering data. An `sqw` object holds an
n-dimensional image and the detector *pixels* (nine numbers each) that
contributed to every bin of it. Pixels outgrow memory: they live in sqw files,
are combined from hundreds of files into one, are cached page by page, and are
moved by threads and parallel MATLAB workers. This directory holds TLA+ models
of the parts that move pixels, the TLC configurations that check them and the
TLAPS proofs about them.

The correctness of the system rests on one layout: in an sqw file the pixels are
sorted by bin, `npix` says how many belong to each bin, and everything else
(cuts, rebinning, fits) trusts that the two agree.

## 1. Inventory

Paths are relative to `src/`; `combine_sqw/` is `_LowLevelCode/cpp/combine_sqw/`.

| Component | State it keeps | Operations | Modelled in |
|---|---|---|---|
| Exchange buffer (`combine_sqw/exchange_buffer.*`) | two pixel vectors, `write_allowed`, `writer_ready`, counters, three mutexes, two condition variables | send, wait, get, unlock, allow, interrupt, log | `ExchangeBuffer` |
| Reader, writer and MATLAB threads (`nsqw_pix_reader.*`, `sqw_pix_writer.*`, `combine_sqw.cpp`) | next bin, chunk, pixels written, target file | collect bins, append, log and poll CTRL-C, join | `CombineSqw` |
| MEX argument parsing, debug mode (`combine_sqw.cpp`, `fileParameters.*`) | none | unpack structures | no |
| Bin map of a file (`pix_mem_map.*`) | window of `npix`, prebuffer sum, read-ahead buffer, capacity | `get_npix_for_bin`, `check_expand_pix_map`, `num_pix_described`, `read_bins_job` | `PixMemMap`, promise in `BinMap` |
| Pixels of a file (`sqw_reader.*`) | pixel cache, read-ahead buffer | `get_pix_for_bin`, `read_pixels_job` | `SqwReader` |
| `PixelData` and `PixelTmpFileHandler` (`horace_core/sqw/PixelData`) | cached page, dirty pages, tmp files, sqw file accessor, range | get, set, move to page, append, copy, indexed access, sweeps | `PixelData`, promise in `PixelPages` |
| Other sweeps (`mask`, `do_binary_op`, `set_data`, `get_data`, `compute_bin_data`, `recalc_pix_range`) | the page walk | one operation over all pages | no |
| Matlab combining (`file_io/@combine_sqw_pix_job`, `class_helpers/pix_cache.m`) | section and block of each reader, messages, the writer's cache of bins per source | read a section, read and send a block, receive, push, pop, write, compare the totals | `CombineJob` |
| Block arithmetic (`split_data_blocks`, `split_npix_pos`, `split_vector_*`, `get_read_and_seek_sizes`) | none | split lists of blocks | `DataBlocks`, `HdfReader` (the first two) |
| Binning (`bin_pixels_c`, `CommonCode.h`) | counts per thread, places of the cells | classify, add up, find where cells begin, copy | `BinPixels` |
| Cut (`cut_accumulate_data_`, `cut_data_from_file_job`, `accumulate_cut_c`, `sort_pixels_by_bins`, `compute_pix_sums_c`) | image, range, retained pixels in memory and in tmp files | deal ranges out to chunks, accumulate, keep, sort, add up | `Cut`, `DataBlocks` |
| HDF pixel group (`@hdf_pix_group`, `hdf_mex_reader`) | blocks and place where the last read stopped, locks of the mex file | open, continued read, refuse, close | `HdfReader` |
| `gen_sqw`, `accumulate_sqw`, `write_nsqw_to_sqw` | tmp files on disk, the sqw file | convert, reuse, combine, rename, delete | no |
| Binary files (`@dnd_binfile_common`, `@sqw_binfile_common`, `@faccess_*`, `@const_blocks_map`, `sqw_formats_factory`) | open file, block positions, upgrade map | create, overwrite, update, upgrade | no |
| Other numeric MEX kernels (`calc_projections_c`, `mtimesx_horace`, ...) | none | loops over floating-point data | no |
| `sqw`/`dnd` objects, cuts, axes, projections, `rundatah`, `Experiment`, `symop` | value objects | numerical transformations | no |
| Configuration (`hor_config`, `hpc_config`, ...) | saved settings | validated set and get | as constants and modes |
| Tobyfit, multifit, GUI, plotting, lattice functions, vendored HDF5 | | | no |

### How the parts interact

`gen_sqw` converts each run to a tmp sqw file and calls `write_nsqw_to_sqw`,
which writes the headers of the target and hands the pixels to one of three
implementations: the MEX function `combine_sqw` (threads), the MPI combine job
(workers and messages) or the same job run serially. In the MEX function one
`sqw_reader` per input file answers `get_pix_for_bin`; each owns a
`pix_mem_map` and up to two read-ahead threads, so that a call with *n* files
may run 2*n* + 3 threads. `nsqw_pix_reader` asks every file for bin 0, then for
bin 1, and so on, and collects whole bins in the exchange buffer;
`sqw_pix_writer` appends what it is given. The file that results is opened by an
accessor, through which `PixelData` loads pages; operations on `sqw` objects walk
over the pages, and edited pages go to tmp files of the object.

### What is hard

* *Threads*: three mutexes taken in conflicting orders; hand-overs with
  condition variables where the flag is sometimes set under another mutex than
  the one it is tested under; buffers that are swapped and resized while a thread
  reads into the other one; CTRL-C at any time.
* *Windows over files*: caches of `npix` and pixels hold a window, and read-ahead
  holds the next one; going back, bins larger than a buffer, empty bins and the
  end of the file all change which one is right.
* *Pages*: a pixel may be in the cache, in a tmp file, in the sqw file or in two
  of these with different values; three fields (`page_dirty_`,
  `dirty_page_edited_`, the handler's own list) tell which counts.
* *Messages*: workers send whole or partial bins, at different paces, from
  different sections; a section may be empty.
* *Counts and places*: OpenMP threads count pixels per cell and copy them to
  places drawn from shared counters; what one loop counted the next one trusts.
* *Boundaries*: a pixel on the limit of an axis, a block that fills a buffer
  exactly or to nine tenths, a bin as large as the buffer.
* *Files left behind*: tmp files are reused by the next call.

### What makes each part correct

* Combination: the target holds each pixel of every bin once, in bin order; the
  call returns; no chunk is overwritten; success means completeness.
* Bin map: position and number of a bin's pixels are those of the file, whatever
  was asked before; the pixels said to fit a buffer are whole bins that do fit;
  every call returns.
* Reader: the caller's buffer receives exactly the pixels of the bin it asked for.
* `PixelData`: wherever its pixels are kept, an object is a list of pages; what is
  kept is not lost, what is discarded is; indexed access and access by page
  agree; a sweep is applied once to each pixel; the range covers the pixels.
* Matlab combining: as the combination; when pixels are lost there is an error
  or at least a warning.
* Binning and cuts: each pixel is counted once in its cell by whatever thread
  takes it; sorted pixels and counts agree; the image can be had from the pixels
  kept; no candidate is left out.
* HDF reads: portions put together are the pixels asked for, and the mex file
  stays locked while a reader is open.
* Workflow (not modelled): no tmp file is deleted while it is needed, or
  combined when it is not complete.

`PROJECT.json` lists the hazards with their lines, also those no model covers.

## 2. Modules

| Module | What it is |
|---|---|
| `ExchangeBuffer` | The buffer's methods, one action per stretch of code that takes at most one mutex. |
| `CombineSqw` | Extends it with the three threads; `Spec`, `FairSpec`, properties. |
| `CombinedFile` | The promise: a file that grows by whole bins, and a result. |
| `CombineSqwProofs` | Inductive invariant, safety theorems, refinement. |
| `BinMap` | What a map of bins is: a file as the positions its bins begin at, and what follows. |
| `PixMemMap` | `pix_mem_map`: plain and threaded. |
| `PixMemMapProofs` | Inductive invariant and safety theorems. |
| `SqwReader` | `sqw_reader`: direct, cached, threaded; it uses the map through `BinMap`. |
| `SqwReaderProofs` | Inductive invariant and safety theorems. |
| `PixelPages` | The promise of a paged object. |
| `PixelData` | `PixelData` with its tmp files. |
| `PixelDataProofs` | Inductive invariant, safety theorems, refinement of `PixelPages`. |
| `BinPixels` | `bin_pixels` on one or several threads. |
| `BinPixelsProofs` | Inductive invariant and safety theorems. |
| `Sums` | The sum of the first numbers of a sequence, which `DataBlocks`, `HdfReader` and `CombineJob` use. |
| `DataBlocks` | `split_data_blocks` as operators. |
| `Cut` | The accumulation of a cut, on top of `DataBlocks`. |
| `CutProofs` | What gluing and splitting do to blocks and their pixels; inductive invariant and safety theorems. |
| `HdfReader` | Continued reads through the mex file and in Matlab. |
| `HdfReaderProofs` | Sums of sizes, the two splits, the invariants of the locks and of the stream. |
| `CombineJob` | Matlab combining, serial and with readers and a writer. |
| `CombineJobProofs` | Inductive invariants of the places of pixels and of their order, safety theorems, no failure of regular jobs. |
| `MC...` | Values of the constants for TLC. |

### Correspondence with the code

**`ExchangeBuffer`, `CombineSqw`.** `pc[t]` stands for the program counter of
thread `t`; `owner` for the mutexes; the remaining variables have the names of
the C++ fields (`w_bins` is the writer's local `n_bins_processed`). A
`condition_variable::wait` is four places: test the predicate, release and
block, asleep, take the mutex again; a notification moves a sleeping thread on and
is lost when nobody sleeps. That is what a lost wake-up needs: `set_write_allowed`
may run between the test and the block. Flags written without a lock
(`interrupted`, `write_job_completed`) are read and written in single steps of
their own. A pixel is its number in the order the target must have. `Resize` is
`vector::resize`, and the swap exchanges vectors of different sizes.
`ofstream::app` makes every write go to the end, so `WritePixels` appends.

**`PixMemMap`.** The caller's side is a sequence of places (`cpc`): look the bin
up in the window, update the window, restart from the beginning when the bin is
behind it, collect buffers until the pixels fill a buffer, flatten them into one
window. The thread's side (`tpc`) is `read_bins_job`. The map is checked in two
uses: every bin in turn, as the combination asks, without threads; any bin in any
order, with threads. Any order without threads is known to fail (section 4), so
`MapAssumption` excludes it. `start` is the file: the number of pixels before each
bin. `holder` is the list of buffers of `check_expand_pix_map` as one sequence, each
buffer already shifted by the pixels before it, as `_flatten_memory_map` does in
the end.

**`SqwReader`.** `mode` says whether there is a pixel thread, the size of the
cache (0 is direct access) and the order of the bins. Pixels are their numbers in
the file; the cell a read leaves untouched keeps what it held. Direct access in
random order is excluded by `ReaderAssumption`: a bin asked for again would be
taken from a buffer that direct reading does not have (section 4).

**`PixelData`.** MATLAB runs one method at a time, so an action is a method; only
`do_unary_op` takes one action per page, because its loop is made of the other
methods. A pixel is a coordinate and a signal. `Current` is
`load_current_page_if_data_empty_`, with which every access begins. `uses` fixes,
for each behaviour, which methods are mixed: known defects appear only in some
mixtures, which the properties name.

**`BinPixels`.** A loop that OpenMP shares is the set `todo` of iterations nobody
has begun, handed out in any order; `stage` moves on when all threads are at the
barrier. Reading a counter and writing it back are two steps (`loc` holds what was
read) except where the code captures it atomically. `X` stands for the first
three axes, which are treated alike, `E` for the last one, which is not. The count
of a cell stands for signal and error, which are added where it is.

**`DataBlocks`, `Cut`.** Ranges are glued, cut and dealt out to chunks as
`split_data_blocks` does it, one chunk a step (`first_ind` is its loop variable); a chunk is accumulated by threads
as in `BinPixels`; retained pixels are added to memory or, when they exceed a
buffer, sorted by cell and written to a tmp file with the counts since the last one
(`npix_prev`). The rotation and binning of a coordinate are the table `CellOf`.
A sum of signals is a bag, how often each pixel was added: two sums agree when their
terms do, and a pixel counted twice or lost cannot be made up for by another.

**`HdfReader`.** Two readers of the same blocks: the mex file keeps the block and
the place in it (`at`), Matlab the list of what is left. `want` and `got` are
ghosts. An error of the mex file resets the request and takes a lock off.

**`CombineJob`.** `nbin_for_pixels_` is `NbinForPixels`, its four cases operators
of their own. A reader's action is one pass of its inner loop and appends at most
one message; the writer's action receives one message from every source that
remains, pushes them and pops what all have delivered, because
`receive_data_write_output_` does these in one pass and waits for every
message. The messages framework delivers each message once, in the order of its
sender. An index beyond the end of an array is an error of the job, as in MATLAB.

## 3. Runs

| Run | Question | Size |
|---|---|---|
| `combine` | Do the threads write the right file, under every interleaving, with CTRL-C at any time and a spurious wake-up? | 6 bins of 1, 0, 1, 3, 0, 1 pixels, buffer of 2: 10 thousand states |
| `interrupt` | Does CTRL-C end the call? No. | 3 bins, buffer of 1 |
| `map` | Are the map's answers right, in sequence and, threaded, at random? | all files of 5 bins with 0 or 2 pixels, buffer of 2 bins: 318 thousand |
| `reader` | Are a bin's pixels returned from every kind of cache? | all files of 4 bins with 0, 1 or 3 pixels, buffer of 2: 513 thousand |
| `pixels` | Edits kept, discarded, swept, appended to, copied: pages, index, range. | files of 1, 2, 4, 5 and arrays of 1, 2 pixels, pages of 2, at most 5 pixels: 183 thousand |
| `bin_pixels` | Does each pixel get counted in its cell and copied to a place of its own? | 3 pixels inside, on limits and outside, 2 x 2 cells, one and two threads: 131 thousand |
| `bin_edge` | A pixel on the upper limit of the last axis: is it binned as in Matlab? No. | 1 pixel, one thread |
| `hdf` | Do portions make up the stream, and do the locks hold? | three readers, two open at a time, buffers of 0, 3, 10: 4 thousand |
| `cut` | Is every candidate counted once, and do the kept pixels match the image? | 0 to 5 candidates, buffers of 1 and 2, one and two threads: 617 thousand |
| `cut_lost` | Does dealing out lose ranges? Yes. | ten ranges of 9 pixels, buffer of 10 |
| `combine_job` | Is nothing lost silently, are regular inputs combined? | 3 bins, one or two readers of one or two files, bins up to 7 pixels: 78 thousand |
| `combine_job_sources` | Does the writer keep asking every reader that has pixels? No. | 3 bins, two readers |

What the properties say, with the names of the definitions:

* `combine`: `FileHoldsProcessedBins`, `ChunkNotOverwritten`, `NoDeadlyEmbrace`,
  `BufferSuffices` (no pixel behind the end of a vector, no bin refused),
  `ImplementsCombinedFile`, `Returns`.
* `map`: `AnswersRight` (position, number and "pixels of whole bins that fit"),
  `WindowsMatchFile` (the window in memory, and the one read ahead as its
  continuation), `CallsReturn`.
* `reader`: `BinPixelsReturned`, `BuffersHoldFile`, `CallsReturn`.
* `pixels`: `ImplementsPages`, `PagesLoadable`, `GetPixelsRight`,
  `RangeCoversPixels`, `SweepAppliesOnce`, `CopyKeepsPixels`.
* `bin_pixels`: `NpixCountsPixels`, `PlacesDistinct`, `SortedByCell`,
  `BinnedAsMatlab` (the C++ indexes are those of the Matlab formula), `Returns`.
* `hdf`: `StreamInOrder`, `LocksMatchHandles`, `ReadDelivers`.
* `cut`: `ImageCountsRead` (counts, signals, and the range of the cut),
  `EveryCandidateCut`, `KeptPixelsMatchImage` (tmp files or sums).
* `combine_job`: `NoneLostSilently` (no pixel twice; a job that ends without a warning
  has written all, under `PartsCounted`: two files at most, or no bin of more than two
  buffers), `InBinOrder` (serially under `PartsCounted`, in parallel under `BinsFit` and
  `SectionsFilled`), `Combines`. Section 4 says what happens without the conditions.

**Why the bounds are enough.** The bins of `combine` include an empty bin inside
a chunk, a chunk that fills the buffer exactly, one that leaves room, a bin larger
than the buffer, which makes the two vectors different in size, and bins after
it; with five chunks each vector is used more than once. One spurious wake-up
reaches each wait at each moment; the proofs hold for any number. In `map` a
window is 2 of 5 bins: windows follow one another three times, the last one is
short, the sizes asked for (1, 3, 4) are smaller than a bin, between, and exactly
two bins. In `reader`, bins of 1 pixel share the buffer and bins of 3 do not fit,
and *all* sequences of four such bins are files. With pages of 2 pixels and up to
5 pixels (`MaxPixels`) there are three pages, first, middle and last, the last one
half full, or two, the last one full or half full. `PixelData` bounds: `MaxPixels`, and each edit is an involution (a sign,
a bit), so that any number of edits is a finite set of states.

With three pixels and two threads `bin_pixels` has two pixels of one cell in the
hands of two threads at once, and one that is taken before, between or after;
pixels lie below, on and between the limits of both axes (`bin_edge` has the one
place that fails). In `hdf` blocks are smaller than a buffer, as large, several
times as large, larger by less than a tenth, and behind the end of the file;
bound: `MaxOpen`. In `cut` ranges touch, exceed two buffers and end within chunks,
and every assignment of coordinates to pixels is an initial state. In
`combine_job` a bin fits the buffer, takes up to two buffers, or more, which are
the cases of `nbin_for_pixels_`; sections hold all bins, two, or one, and any of
them may be empty.

`combine` and `interrupt` do not check deadlock: after CTRL-C the threads may
really stop, which is what `interrupt` shows. `Returns` in `combine` is the
stronger statement for the calls that are not interrupted. `combine_job` does not
either: the writer may wait for ever for a reader that has ended (section 4);
`Combines` is stronger for the inputs that do not lead there.

**Fairness.** `FairSpec` of `CombineSqw`: weak fairness of each thread, because
the operating system runs a thread that can run. `PixMemMap` and `SqwReader`
assume weak fairness of the read thread and strong fairness of the methods the
caller runs: a method waits for a mutex that the read thread releases and takes
again, and a `std::mutex` lets a waiting thread in eventually. Nothing is assumed of notifications; they are in the model.
`BinPixels` assumes weak fairness of each thread in the parallel loops and of the
part that one thread runs, `CombineJob` weak fairness of its steps: workers that
can go on do. No liveness is claimed for `PixelData`, `HdfReader` and `Cut`, which
run when they are called.

## 4. What the runs found

Each of these is a run with `expect: violation`; `PROJECT.json` quotes the lines.

1. `interrupt`: `set_write_allowed` sets the flag and notifies under `write_lock`,
   the writer tests it under `data_ready_lock`: after CTRL-C the notification can
   be lost, the writer sleeps and the MATLAB thread logs for ever
   (`exchange_buffer.h:42`). With this repaired the property would still fail: the
   writer leaves on CTRL-C without accepting the chunk that was sent, and a reader
   past its own test waits for `writer_ready` for ever (`sqw_pix_writer.cpp:36`).
2. `bin_edge`: a pixel on the upper limit of the energy axis goes to the last cell
   of the whole grid (`bin_pixels_c.cpp:301`).
3. `cut_lost`: chunks of nine tenths of a buffer use up the number of chunks, and
   the last ranges are dropped without an error (`split_data_blocks.m:107`).
4. `combine_job_sources`: after an empty section that ends one bin before the
   last, the writer counts its reader as finished, and the last bin is lost with
   only a warning (`pix_cache.m:261`).

Defects met while modelling, which the properties of the passing runs exclude by a
condition or the inputs by their shape:

* `pix_mem_map.cpp:280`: without threads, asking for a bin far ahead takes the
  prebuffer sum from a cell that an earlier, longer window has left. The
  combination asks for the bins in turn and does not meet it (`Modes`).
* `sqw_reader.cpp` without a cache: a bin asked for a second time counts as held in
  the buffer, which is empty. The combination asks for each bin once (`Modes`).
* `pix_mem_map.cpp:500`, `sqw_reader.cpp:332`: the split of mutexes of 1, when the
  read-ahead threads are ended. `CallsReturn` claims the calls, not the end.
* `get_pixels.m:149`: after an edit left with `nosave` the page is dirty and has no
  tmp file, and `get_pixels` fails to open one (`GetPixelsRight`).
* `PixelData.m:344`: the copy of an object counts the pixels of the file or of
  the cached page, not those appended since: objects that are appended to are not
  copied in the runs (`PixelAssumption`).
* `move_to_page.m:15`: leaving an appended page with `nosave` discards the only
  place it is in; turning back to it reads behind the end of the file
  (`PixelAssumption`: `append` and `nosave` are not mixed).
* `PixelData.m:907`: the range of an object of several pages without an open file is
  set to that of the page edited last (`RangeCoversPixels`).
* `input_parser.cpp:292`: every error of the mex file gives back a lock, also one of a
  reader that has none, or keeps its own; the mex file may be cleared under another
  reader (`LocksMatchHandles` asks that no call has failed).
* `nbin_for_pixels_.m:44`: after a bin of one to two buffers the sums are reduced by
  all pixels processed, also those taken off before; sums go below zero and an
  index fails (`Combines` asks for bins that fit).
* `read_inputs_send_to_writer_.m:94`: the blocks of a bin sent in parts carry the
  labels of the bins after it, so with several readers pixels are written out of
  the order of bins (`InBinOrder`).
* `nbin_for_pixels_.m:54`: of a bin of more than two buffers the room that is left counts
  as read, also when no file is too large for the buffer or the first one that is has
  fewer pixels left. With three or more files a section can count as read before it is,
  and a serial job drops the rest without a word: four files of three bins, 12, 1, 12 in
  the first, 12, 0, 12 in the next two and 0, 0, 25 in the last, combined with a buffer
  of 12, end without the pixels of the last (`PartsCounted`).
* `read_pix_for_nbins_block_.m:51`: a block without pixels from a single file
  leaves `pix_buf` undefined.
* `pix_cache.m:175`: an empty message for a source with cached pixels makes bin
  range and edges disagree, an error; when the last section of a reader is
  empty and others are not done, the writer waits for it for ever (`Combines` asks
  for sections with pixels). When the numbers happen to agree there is no error: the
  range begins anew at `first_bin_to_process` while the edges keep the bins from before,
  which are then written under the labels of others. Nine bins, a buffer of 3, pixels
  in bins 4 to 6 only from one reader and in each bin from another are written out of
  order (`InBinOrder` asks for sections with pixels).
* `split_npix_pos.m:121`: a block that exactly fills the buffer leaves a block of
  size zero, which the read of its positions takes for one pixel.

## 5. Proofs

`CombineSqwProofs` proves, for every image (`NumBins`, `BinStart`), every buffer
size and any number of spurious wake-ups, that `Spec` implies `[]TypeOK`,
`[]FileHoldsProcessedBins`, `[]ChunkNotOverwritten`, `[]NoDeadlyEmbrace`,
`[]BufferSuffices`, and `ImplementsCombinedFile`: with
`file` for `written` and the outcome for `result`, every step of the threads is a
step of `CombinedFile` or leaves it as it is. CTRL-C is always possible in `Spec`,
so interrupted calls are included. The assumptions are `BinsAssumption` (the
cumulative numbers of pixels start at 0 and do not decrease), `SettingsAssumption`
and `SpuriousAssumption`; TLC evaluates them in `combine`.

None of the properties is inductive. The invariant is `IInv`, a conjunction:

* `TypeOK`;
* `LockInv`: which thread holds which mutex at each place;
* `HandInv`: the turn. `writer_ready` is false from the reader's claim until the
  writer gives the chunk up, and a chunk waits (`n_read_pixels > 0`) only in
  between. It is what forbids both embraces and the loss of a chunk: the
  writer is busy only when the reader is not between claim and allow;
* `ReaderInv`: `read_buf` starts with the pixels of the bins from `first_bin` up
  to the current one, which are as many as `n_buf_pixels`, and they fit;
* `WriterInv`: the chunk in `write_buf` continues exactly where the file ends, at
  the bins it was sent for;
* `EndInv`: unless interrupted, the writer ends only when it has seen all bins,
  and the MATLAB thread joins the reader after the writer.

Each conjunct has its own step lemma (`LockStep`, `HandStep`, `TypeStep`,
`ReaderStep`, `WriterStep`, `EndStep`), case by case over the actions that
disturb it; `AddBinFacts`, `AddOversizedBinFacts` and `WritePixelsFacts` state
what filling and appending do to the sequences, on top of facts about `Resize`,
`PlaceBin` and the monotone `BinStart`. `StepRefines` uses `IInv` of both states.

`BinPixelsProofs` proves, for every grid, any number of pixels with any
coordinates and any number of threads, `[]TypeOK`, `[]NpixCountsPixels`,
`[]PlacesDistinct` and `[]SortedByCell`. The assumption is `BinAssumption` (axes
have at least one cell of positive width). The invariant is again a
conjunction:

* `Types`, the type invariant without the limits of places, which need the rest;
* `HandInv`: the pixel a thread has in hand is nobody else's, and what it has read
  of the counter of a cell is still there, because the counter is its own;
* `LoopInv`, `CountedInv`: which iterations are done, and that a pixel is retained
  by exactly one thread, `by`, and is in its cell of the grid;
* `CountInv`: a thread's counter of a cell is the cardinality of the pixels it
  counted there; after the combination `npix` is that of all of them;
* `StartInv`: the cells already passed begin where the ones before end;
* `SortInv`: the places drawn from the counter of a cell lie between where it
  begins and where it will end, no two pixels have the same, and the places
  below the counter are taken by pixels of the cell;
* `EndInv`: at the end all retained pixels are copied.

`Room` shows that a counter with a pixel still to come has not reached the next
cell, `PlacesApart` that cells do not overlap, `FreshPlace` that a place drawn is
free, and `SlotsFilled` that as many different places as pixels, all below their
number, leave none empty: injectivity and a count of finite sets.

`PixMemMapProofs` and `SqwReaderProofs` begin with what they need of a file:
`FileFacts` (positions are numbers and do not decrease), `NpixFacts`, and that the pixels
of the whole bins that fit are those up to the first bin that does not. From
`FilesAssumption` alone (positions begin at 0 and do not decrease).

`PixMemMapProofs` proves, for every set of files, every window size and every set of
buffer sizes, with and without the read thread, `[]TypeOK`, `[]AnswersRight` and
`[]WindowsMatchFile`. The further assumption is `MapAssumption`: without the thread
bins are asked for in turn, since otherwise the answers are wrong (section 4).
`Describes(file, buf, n, first)` says that the first `n` cells of a vector are those of
the bins from `first` on; the invariant says it of three vectors:

* `CallInv`: the bin asked for, and what is known of it at each place;
* `WindowInv`: the window describes the file, `prebuf_pix_num` counts the pixels
  before it, and the capacity is known exactly when the window ends the file. While
  a window is being replaced its limits are the locals `loc`, not the fields;
* `FilledInv`: the filled cells are those of the window, and the pixels passed,
  taken from the last one, are the position of the next window;
* `PlainInv`: without threads the bin asked for lies in the window or is the next
  one, so that one window always follows the one before;
* `ThreadInv`, `AheadInv`: what the thread offers describes the file from its first
  bin on, and that is where the caller's window ends, unless the caller restarts
  from the first bin and has not yet told the thread;
* `ExtendInv`: the vectors joined describe the file from the bin asked for on.

`UpdateReadFacts`, `UpdateGetFacts`, `ExtendFacts`, `FlattenFacts` and `FirstOutFacts` say
what one window, one more buffer, the join and the search of the first bin that
does not fit amount to; the steps of the invariant cite them.

`SqwReaderProofs` proves, for every file and buffer size, `[]TypeOK`,
`[]BinPixelsReturned` and `[]BuffersHoldFile`, from `FilesAssumption` and
`ReaderAssumption` (direct reading asks for bins in ascending order). The invariant:

* `PlaceInv`, `CallInv`: which places go with the read thread, and that the
  caller's memory is as large as the bin it asked for;
* `DirectInv`: reading directly, what the reader claims to hold lies before every
  bin still to come, so no bin is mistaken for a cached one;
* `FitInv`: what is read contains the bin, lies in the file, and exceeds the buffer
  only if the bin alone does;
* `CacheInv`: each pixel of the buffer is the one of its place in the file;
* `SizeInv`: the two buffers have one size, except while a bin larger than both is
  being taken. It is why a swap never gives the caller too short a buffer;
* `DataInv`: what the thread has read is in the file, and as much as the caller's
  buffer takes unless the file ends. It is why an answer from the thread's
  buffer is complete although only the bin itself is tested to lie in it.

`BinnedRight` states `[]BinnedAsMatlab` under a condition on the coordinates: no pixel
inside the grid is `Astray`. `CellIsMatlabs` shows that this condition is exact: an
inside pixel gets another cell than Matlab's if and only if it is astray, that is on
the upper limit of the last axis and not in the last cell of the others, or on an upper
limit of another axis that is not positive (`bin_edge` shows the first of these).

`PixelDataProofs` proves, for pages of any size and objects of any number of pixels,
`[]TypeOK`, `[]PagesLoadable`, `[]GetPixelsRight`, `[]RangeCoversPixels`,
`SweepAppliesOnce`, `CopyKeepsPixels` and `ImplementsPages`: every method is a step of
the list of pages of `PixelPages`, whatever is in the cache, in tmp files or in the
sqw file. The assumption is `PixelAssumption` (a page holds at least a pixel; an array
in memory fits a page; objects appended to are neither copied nor left with
`nosave`, see section 4). `Stored(p)` is what loading page `p` returns, `Now(p)` what
the object shows of it. The invariant:

* `TypeInv`; `FileInv`: a file stays open only while there are several pages, and without
  `append` it is open then and holds all pixels;
* `DirtyInv`: every tmp file belongs to a page marked in `page_dirty_`, and, unless
  `nosave` was used, every page so marked has one or is the edited page in the cache;
* `StoredInv`: what can be loaded for a page has as many pixels as belong to the page,
  and comes from its tmp file or from the file, which is open;
* `CachedInv`: a cached page is the stored one unless it is marked as edited;
* `RangeInv`: the range covers what is shown of each page, and what `nosave` may bring back;
* `SweepInv`: the pages a sweep has passed are changed, the others are not.

`View` reduces the page arithmetic of the code, which depends on the number of cached
pixels, to that of `BasePage`; `DivFacts` to `PageLenFacts` hold the divisions.
Each method has a step lemma that also says which pages keep what they show
(`PagesKept`, `PageDiscarded`, `Appended`); the refinement cites these.

`HdfReaderProofs` proves, for any number of readers, blocks and buffers,
`[]LocksMatchHandles`, `[]TypeOK`, `[]StreamInOrder` and `ReadDelivers`. The assumption is
`HdfAssumption` (a request has blocks, none of them empty). `LockInv`: exactly the open
readers remember a lock; the total is a cardinality. `StreamInv`: what was delivered
begins the pixels of the blocks, and the next read starts where it ends; the mex file
because as many pixels lie in front of the place it keeps (`InPlace`), Matlab because
the blocks it keeps hold the rest (`Rest`).
`StreamInOrder` alone says nothing of places, so it is not inductive. `CutFrom` is the one
lemma about pixels: parts cut from blocks, each from its own, hold the pixels at the same
places. `PortionFacts` (mex) and `SplitFacts` (Matlab) are two uses of it.

Sums and all else that is recursive are recursive functions. Induction is the least
counterexample among the naturals (`LeastOfNats`), the only form the provers take here;
with it, `RecursionExists` and `RecursionUnique` say that a function defined from the
one before exists and is the only one, and everything recursive follows its equations
(`SumFacts`, `SumUnique`). A proof module that needs these facts states them for itself,
so that each can be checked on its own.

`CutProofs` begins with the blocks of `DataBlocks`. `GlueFacts` and `SplitBigFacts`: gluing and splitting keep every position
once and in ascending order. `PixelsArePositions`, `PixelsAscend`: ascending blocks are
read without a repetition, and the pixels read are their positions.

It proves, for any ranges, coordinates, buffers, cells and numbers of threads,
`[]TypeOK`, `[]ImageCountsRead` and `[]KeptPixelsMatchImage`. The assumption is
`CutAssumption` (ranges have pixels and lie one behind the other, `Inf` is no smaller than
any coordinate). The invariant, `CutInv`:

* `PlanInv`: blocks have the positions of the ranges; chunks share none of them, and lie
  in front of the next block. It is why no pixel is read twice;
* `LoopType` and `HandInv`: which loop hands out what; a pixel accepted knows its cell and
  is in one hand; a pixel neither accepted nor to do is off the grid;
* `CountInv`: what the storage of each thread holds is a set of pixels, disjoint from those of
  the other threads; together they are the pixels accepted and no longer in hand.
  What a thread has read of a counter is still there. During the combination a cell
  counts the new chunk or not, as it is done or to do;
* `RangeInv`: a range is empty or has pixels at both ends, and each pixel accepted is
  within the range of some thread;
* `KeptInv`: memory and files share no pixel and hold those retained; the counts a
  file will get, `Npix - npix_prev`, are those of the pixels in memory, so that sorting
  never takes the way by indexes for inconsistent counts.

`CombinedFacts`, `WidenedFacts` and `ChosenFacts` say what the three loops over threads and
pixels amount to. The sort by counting is cardinalities: `CellSums` (counts of cells add
up to the pixels), `PlaceFacts` (places of different pixels differ, and lie in the section
of the cell), `SortPixFacts` (so all places are filled).

`NoneLeftOut` states `[]EveryCandidateCut` under `NoneShort`: all pixels fit one buffer, or
no block is more than a tenth of it. Then every chunk but the last fills the buffer, and
the number of chunks is enough for all blocks (`DealtInv`, `LastBlockFills`, `MostHolds`).
Without it `cut_lost` is a counterexample. `NoneShort` is sufficient, not necessary: in
`cut` TLC finds nothing left out for ranges of half a buffer to five buffers.

`CombineJobProofs` proves, for any number of bins and any set of jobs (serial or not,
readers, files, pixels in bins, size of the buffer), `[]TypeOK`, `[]NoneLostSilently`,
`[]InBinOrder`, `[]InOnePlace` and `[]RegularEnds`. The assumption is `JobAssumption` (a
reader has files, no more than its buffer has room for pixels, and a serial job one
reader). The first invariant, `PlacesInv`, says where pixels are:

* `ShapeInv`; `SectionInv`: the bins a reader keeps of its section are those of its files
  behind the bin it is in, and what it has taken and keeps of that bin is not more than the
  files have, so that nothing is read behind the end of a file;
* `CountedInv`: under `PartsCounted` it is also not less, and no more pixels count as
  processed than were read, so that a section that counts as read is read. Without the
  condition this fails (section 4), and for serial jobs `NoneLostSilently` with it;
* `CacheInv`: the edges of messages and caches cut their pixels without a gap;
* `PlaceInv`: no pixel is twice in the messages, the cache and the output, nor in two of
  them, and those of a serial job are in the output. That none is missing from all
  three it says of serial jobs only: a parallel job may lose pixels in the cache;
* `DoneInv`: a job that ends without a warning has every reader at its end, and in
  parallel as many pixels written as were sent. It is why a parallel job does not lose
  them silently: the pixels written are among those sent, each once, so equal numbers
  make equal sets.

It does not say in which order. `OrderInv` does, on top of it:

* `SerialInv`, under `PartsCounted`: what is written is in order, and nothing of a bin
  behind the one the reader is in;
* `ParallelInv`, under `BinsFit` and `SectionsFilled`: the sums of a reader are exact, so that
  blocks are whole bins; the messages of a reader carry the labels of the bins their
  pixels are of and follow one another without a gap from the cache to the bin the
  reader is in; the range of a cache that is not empty begins with the first bin to
  process, or behind it; a source with an empty cache is awaited; and all that is
  written lies in front of the first bin to process.

`HeldInv`, on top of both, says under `BinsFit` and `SectionsFilled` that what a reader has
taken is in its messages, its cache or the output: blocks are whole bins, so a message
has all that was read, and what is taken off a cache is all of the bins that are
written. With `PlaceInv` it makes `InOnePlace`: pixels are in no two places, whatever
the inputs, and under the two conditions, as in serial jobs, each pixel taken is in one.
`RegularEnds` follows from all three: under these conditions a parallel job is not ended
by an error of a reader, of the cache or of an index, for readers pass over bins that
are there and caches are joined and cut at edges they have, nor with the warning, for
at the end messages and caches are empty and so all that was sent is written. That it
ends is `Combines`, which TLC checks.

`BinsFit` is needed because the labels of bins sent in parts are wrong, `SectionsFilled`
because an empty message moves the labels of the bins in the cache (section 4). The lemmas
about operators are those of sums (`SumTo` is monotone, splits, and tells which bin a
pixel is of), of `FlattenSeq` (`FlattenFacts`: where the pixels of a part are; disjoint parts
without a repetition make a whole without one), of joining a message to a cache and
taking bins off it (`JoinFacts`, `KeptFacts`), of a round of messages (`ReceivesFacts`), and
that bins released by all sources in turn are written in order (`WrittenOrdered`) and leave
caches in turn (`PoppedInTurn`).

Only model-checked: all liveness (`Returns`, `CallsReturn`, `Combines`, `InterruptEndsCall`),
which is out of reach of the proof system here, and `EveryCandidateCut` where `NoneShort`
does not hold.

## 6. Not modelled

* Weak memory: shared flags without a lock are read and written in program order.
* I/O errors: a failing read or write ends the call with an error and no
  hand-over follows. (`HdfReader` has refused reads, because they touch the lock.)
* Relabelling of run numbers while pixels are read; conversion to `float`.
* Rotation and projection of coordinates, and all other floating-point
  computation: a cell is a table of integer coordinates.
* Two `PixelData` objects at a time (their tmp directories may collide,
  `PixelData.m:329`), and the range of a copied file-backed object.
* Appending to an object without pixels (`append.m:45`): objects of the model have some.
* `mask`, `do_binary_op` and the other page walks with a second operand; the walk
  itself is `do_unary_op` of `PixelData`.
* `combine_mode` 2 of the MPI job, a combiner between readers and writer: no caller
  asks for it. The messages framework is external.
* `gen_sqw` and `accumulate_sqw`: which tmp files a call reuses depends on the
  contents of their headers, which no model here has.
* The binary sqw and dnd files: positions of blocks, versions and upgrades are a
  layout of data by one thread.
* The split of HDF blocks among threads (`n_threads` is always 1), writing of the
  HDF group, HDF5 itself.
* The parts marked "no" in section 1.

## 7. What could come next

1. `GenSqw`: tmp files (absent, partial, complete, of another range), calls that may
   die at each step, parallel conversion, combination, rename, delete. Promise: the
   sqw file is the combination of the runs it names, and the old one survives until
   the new one is complete.
2. The page walks with a second operand, on `PixelData`.
3. `SqwFile`: `set_file_to_update`, `init`, `put_*`, footers and
   `const_blocks_map`: create, overwrite, update, upgrade, close and crash.
