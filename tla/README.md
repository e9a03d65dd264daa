# glgrab: verification project

glgrab records what an OpenGL application draws. A library that the dynamic
linker loads into the application catches every buffer swap, reads the frame
back and posts it into a *monitored ring buffer* (MRB): a file mapped by the
application, the writer, and by any number of processes that watch it, such as
ffmpeg with glgrab's demuxer. The writer never waits for a reader and keeps no
record of one; it overwrites the oldest messages. Readers map the file
read-only and find out afterwards whether what they have copied was still
there.

This directory holds TLA+ models of that program, the configurations that
model-check them with TLC, and proofs checked by TLAPS. Paths and line numbers
refer to `src/`.

## 1. Inventory

| Component | Source | State | Operations | Modelled in |
|---|---|---|---|---|
| MRB ring, writer side | `mrb_write.c`, `mrb_int.h` | header `{active, head, tail}`, the blocks, `q->next` | `mrb_reserve`, `mrb_commit`, `mrb_shutdown` | `Mrb` |
| MRB ring, reader side | `mrb_read.c` | `q->next` of the reader | `mrb_check`, `mrb_reveal`, `mrb_release` | `Mrb` |
| MRB file | `mrb_write.c`, `mrb_read.c`, `glgrab.in` | the path, the file's size and header, descriptors and mappings | `mrb_create`, `mrb_open`, `mrb_close`, the script's test and trap | `MrbFile` |
| FFmpeg demuxer | `avformat.c` | `pkt0`, `ts0`, `last_pts`, the stream | `read_header`, `read_packet`, `read_close` | `Mrb` (its loop as the client of the ring), `Demux` (the choice of packets) |
| Grabber core | `glgrab.c` | the state word, `frame`, `fbo`, `tex`, the engine's functions | `glgrab_init`, `glgrab_reset`, `glgrab_destroy`, `glgrab_take_frame` | `Capture` (who gets in, and when), `Mrb` (its use of the ring), `Grabber` (the pipeline inside) |
| GLX and EGL hooks | `glx.c`, `egl.c` | the adopted context, the window list and its lock | swap, create and destroy hooks | `Capture` (contexts), `WinMap` (the window list) |
| CUDA engine | `cuda.c` | stream, registered texture, host buffer | `cuda_init`, `cuda_shoot`, `cuda_copy`, `cuda_cleanup` | `Grabber` |
| Colour conversion | `rgba2yuv420p.c` | none | `rgba2yuv420p`, once in C and once with SSSE3 | `Bt709` (arithmetic), `Yuv` (loops, lanes, layout) |
| Symbol interposition | `audit.c`, `audit-glx.c`, `audit-egl.c` | the pointers to the real functions, the hooks | `la_symbind`, `apply_sub`, the fakes, the constructors' look-ups | `Audit` |
| Scripts | `glgrab.in`, `glgrab-egl.in`, `glgrab-av.in` | the file's existence | test, run, remove | `MrbFile` |
| Build files | `CMakeLists.txt`, `glgrab-config.cmake` | none | | no behaviour |

### How they interact

* The dynamic linker asks the audit library about each symbol it binds; calls
  of `glXSwapBuffers` and a few others end in the hooks of `glx.c` (`egl.c`).
* A hook measures the window, adopts the first context it sees with a
  compare-and-swap, initialises the grabber and calls `glgrab_take_frame` in
  whatever thread the application swaps in. The state word is a try-lock:
  whoever does not get it goes on without grabbing.
* `glgrab_take_frame` finishes the frame of the *previous* swap (`engine_copy`,
  `mrb_commit`), reserves space for this one and starts its read-back.
* The ring is shared memory. There is no message, no lock and no signal from
  reader to writer: the only synchronisation is the order of the stores to
  `head` and `tail` and of the readers' loads.
* The demuxer polls `mrb_reveal`, copies the header of a frame, checks, copies
  the pixels, checks, and releases.
* The script passes the path through the environment, tests that the file does
  not exist before it starts the application, and removes it afterwards.

### What is hard, and what makes each part correct

*Ring.* A reader may be anywhere in its loop while the writer laps it. Correct
means: what the writer is filling is never part of a message that `mrb_check`
still accepts; a copy that has passed its checks is exactly one message; a
reader never follows bits that only look like a link; messages come in order
and none twice; the writer is never held up; a reader notices the shutdown, and
gets at everything a dead writer had committed.

*File.* Creation takes eight steps, opening five, any may fail, the application
may die in between, and several sessions may use one path. Correct means: a
buffer in use is not rebuilt by somebody else, a reader agrees with the writer
on the layout, a failure leaves nothing behind.

*Grabber and hooks.* Several threads swap, create and destroy contexts and
windows, initialise and exit at once. Correct means: one context at a time
feeds the ring, a frame that was not completely read back is never committed,
whoever takes the try-lock gives it back, and readers are told of the end.

*The pipeline.* Each of some twenty calls of GL, CUDA and the ring may fail; what
it leaves behind is met one swap later, when the window may have another size.
Correct means: a message is one whole frame under its own size, no copy leaves
its buffers, the application's bindings are as before, nothing is lost, and
frames go on when failures stop.

*Window map.* A list under a spin lock, an error handler that belongs to the whole
process, and an X server that other threads change. Correct means: entries are
owned by one holder at a time, they are right, what is destroyed is forgotten, and
the application sees no error of glgrab's.

*Interposition.* Any object may get at a function by the linker, by `dlsym` or by
a GetProcAddress, which may ask the linker itself; overlays sit in the same chain.
Correct means: no pointer handed out leads past the hooks, and calls arrive.

*Colours.* Two implementations, one in 16-bit lanes with saturating and wrapping
instructions. Correct means: every byte of the frame is written, at its place,
with the colour BT.709 asks for, in both.

*Demuxer.* Correct means: time stamps rise strictly, and of the frames around a
time stamp the nearest is chosen.

`PROJECT.json` lists every hazard with its line and the properties about it.

## 2. The modules

```
 MonitoredLog        what the ring promises (abstract)
      ^ refined by
 Mrb ---- MrbRefines     the refinement mapping
  |  \--- MrbClaims      sentences of mrb.h the code does not live up to
  |  \--- MrbInv ------- MrbProof     inductive invariant and theorems (Mrb, MrbRefines)
  +------ MCMrb          instances for TLC

 MrbFile -- MrbFileClaims
     |  \-- MrbFileProof
     +----- MCMrbFile

 Capture -- CaptureClaims -- MCCapture
        \-- CaptureInv ---- CaptureProof

 Demux ---- DemuxInv -- DemuxProof
        \-- MCDemux

 FrameLog            what the pipeline promises (abstract)
      ^ refined by
 Grabber -- GrabberClaims -- MCGrabber
        \-- GrabberInv ---- GrabberProof

 WinMap --- WinMapClaims --- MCWinMap
        \-- WinMapInv ------ WinMapProof

 Audit ---- AuditInv -- AuditProof
        \-- MCAudit

 Bt709 ---- Yuv ---- MCYuv
              \---- YuvInv ---- YuvProof
```

### `Mrb`: the ring buffer

Every load and every store of the shared mapping is one step, in program order.

| Model | Code |
|---|---|
| `active`, `head`, `tail`, `mem` | `struct mrb_hdr` (`mrb_int.h:26-33`) and the blocks after it |
| `wpc`, `wnext`, `next`, `headp`, `frame` | where the writer is, `q->next`, the locals of `mrb_reserve`, the client's buffer |
| `rpc`, `rsite`, `rnext`, `rhead`, `rcopy`, `rlink` | where a reader is, which of its four calls of `mrb_check` it is in, `q->next`, the loaded `head`, the copy, the loaded link |
| `Reserve`, `ReserveFails` | `mrb_reserve` up to the loop, or its `return NULL` |
| `WalkOn`, `StoreHead`, `StoreLink` | the loop over old messages, the store of the new head, the store of the link |
| `Fill` | the client writes one block; `glgrab_take_frame` fills the header and the engine's copy the pixels |
| `Commit`, `CommitFirst` + `PublishHead` | `mrb_commit` into a buffer that holds messages, and into an empty one, which takes a second store |
| `Shutdown`, `Crash` | `mrb_shutdown`; the application is killed at any step |
| `CheckFails`, `CheckPasses`, `CheckAsksTail` + `CheckTail` | `mrb_check`, whose second half loads the tail |
| `Resync`, `Peek`, `LoadActive` | `mrb_reveal` after its check |
| `CopyHeader`, `CopyBlock`, `CopyDone`, `Skip`, `Use` | the body of `read_packet` |
| `LoadLink`, `ReleaseContinues`, `Rehead` | `mrb_release` |

What is abstracted:

* *Space* is counted in the 64-byte blocks everything is aligned to. The link
  takes one block, as `data_offset` does (`mrb_write.c:81`). Block 1 of the
  payload is the frame's header.
* *Contents* are `Block(n, i, len)`: block `i` of message `n`. No two messages
  have a block in common, so a mixed copy is always noticed. A payload block
  read as a link word stands for any pointer (`Unpack`).
* *Blocks are copied whole.* A torn block is a mixture of the two blocks, which
  a copy with one extra block would show as well.
* *Memory order.* Only the writer stores. On a machine with total store order
  (x86, the one the non-generic code is written for) loads and stores appear in
  program order except that a store may be seen late by another processor; as
  each process either only stores or only loads shared data, that gives no
  behaviour the interleavings do not have. Machines with weaker order are not
  covered; section 7 says what is planned.
* *The mirror* is `Wrap`: an address past the end of the ring is the block at
  its beginning. `MirrorCovers` is the property that addresses stay inside it.
* The variables `log` and `rlast` are history; no step reads them.

`MonitoredLog` says what this amounts to without any ring: messages are
published one by one, the oldest may be forgotten at any time, a reader is
handed whole messages not yet forgotten, each later than the one before, and is
told of the end only after the log has been closed. `MrbRefines` maps the ring
to it: published at the store of `tail`, forgotten at the store of `head`,
handed over at the loads of the check that validates the copy.

### `MrbFile`: the file under the ring

One *session* is a script and the application it starts; sessions share one
path. `Open` is `open(O_CREAT|O_EXCL)`, then `Truncate`, `MapAndClose`, one
`StoreField` per field of the header, `StoreActive`; `CallFails` lets any of the
calls fail and `Unlink` is the error path. `Exit` may come at any step, and
`TrapRemoves` is the script's `rm`. A reader opens, `Fstat`s, reads the header
(`PreadShort`, `PreadInactive`, `PreadActive`), maps and returns. The `pread` of
the 40-byte header is taken as atomic. The header's fields are those that
decide the layout; the ring inside is `Mrb`'s business.

`MrbFileClaims` states what the header file says about opening and what the code
does differently.

### `Capture`: who may grab, and when

Threads of one application create, use, destroy and swap contexts; one of them
may call `exit`. The hooks run inside those calls.

| Model | Code |
|---|---|
| `state` | `g->state` in `glgrab.c` |
| `ctx` | `glx.ctx`, `egl.ctx` |
| `mapped` | `g->rb` is a buffer this process maps, from `mrb_create` to `mrb_shutdown` |
| `fbo` | the context that the names in `struct glgrab` belong to |
| `frame` | `g->frame`, with the context that shot it, and whether its buffer is still mapped |
| `Adopt` | the compare-and-swap in `take_frame` of `glx.c`, `egl.c` |
| `BeginInit`, `Create` | `glgrab_init` |
| `TryLock` | `try_lock`; `LockForReset`, `LockForFrame`, `LockForShutdown` are its three callers |
| `Generate` | `glgrab_reset` under the lock |
| `CopyAndCommit`, `Shoot` | `glgrab_take_frame` under the lock; `Shoot` ends with `release` |
| `Destroy`, `Clear`, `RealDestroy` | the hook of `glXDestroyContext` or `eglDestroyContext` |
| `Exit`, `Shutdown` | the destructor of the library, `glgrab_destroy` |
| `CreateContext`, `MakeCurrent`, `Release`, `Swap` | the application and its GL (external) |

One module serves both interfaces. They differ in two points. `ClearsFirst`:
the GLX hook forgets the context before the real call, the EGL hook after it
and only if it succeeded. And `Measure`: GLX measures the window before it adopts
anything (a failure is then a swap that does nothing, `Swap` to `"real"`), EGL
afterwards. `ReusesEarly` says whether a handle may come back before the call
that destroyed it has returned. The application is free to destroy a context that
some thread uses (GL then destroys it when it is released); the history variable
`careless` remembers it, and the properties about objects of contexts hold as long
as it has not happened.

What the holder of the state word does to GL and to the ring is two steps, the
frame of the swap before and the frame of this one; `Grabber` opens
them up. The environment variable `GLGRAB_MRB` is taken as set, as it is whenever
the script has started the application. After `glgrab_destroy` the word is
`virgin` again: a thread that still swaps starts a new session, in the model as
in the code.

### `Demux`: which frames become packets

A step is what `read_packet` does with one message. Frames are named by the
time at which they were shot; the time of the next one is any later one, and
`Lost` lets any of them fail a check. The branches of `read_packet` are actions:
`Pass` (the tick is served), `Keep`, `ReturnLate`, `ReturnKept`, `Choose`,
`Replace`, `Flush`. `packets` are the buffers from `av_new_packet` that are not yet
freed or handed over. The time base is `Num/Den` nanoseconds; `Round` is FFmpeg's
rounding to the nearest, halves up. The difference in `KeptIsNearer` is unsigned,
`Minus`. The messages come in the order of their times: `DeliveryInOrder` of `Mrb`
together with the monotonic clock. `seen` and `out` are history.

### `Grabber`: the pipeline inside `glgrab_take_frame`

Whoever runs it holds the state word, so there is one thread of control; what
varies is which calls fail. A step is one phase of the function (`pc`): finish the
frame before (`NothingToCopy`, `CopyReadpixels`, `CopyCuda`), `Reserve` or
`ReserveFails`, `SaveBindings`, `Rebuild` with `InitCuda` or `InitReadpixels` when the
size has changed, `Blit`, `ShootReadpixels` or `ShootCuda`, `Finish`, `Leave`.
`Reset` is `glgrab_reset`, with the old context and its objects gone.

* `frame` and `slot` are `g->frame` and what it points to: a size, an image and the
  bytes there are for pixels; `open` is the reservation, which survives a frame
  that is given up.
* An image is the size of a window and the number of its swap modulo 3: enough to
  tell this one, the last one and an older one apart.
* `gl` has what the application and the grabber share: the frame buffers bound for
  drawing and reading, the draw buffers and the read buffer that belong to each of
  them, the texture, the pixel buffer and the row length, and where debug messages go.
  `begun` is what all this was when the call began. Something that one function saves,
  changes and puts back within a step is an intermediate value there (`bound`).
* `SaveBindings` asks for the draw buffers of the application and leaves out the `GL_NONE`s
  at the end of their list (`Trimmed`); `PutBack` gives the rest back, with
  `glDrawBuffer` if it is one and with `glDrawBuffers` otherwise, which takes no
  `GL_BACK` (`Drawable`). A frame buffer has `MaxDrawBuffers` of them.
* `err` is GL's error flag, one for all. Any call may raise it, the redirection of debug
  messages included, which needs GL 4.3; what puts back values that were read from GL
  succeeds. In `CopyReadpixels` the mapping is refused, or it
  works, with or without an error until the check at `glgrab.c:239`, and with or
  without the pixels being lost when it ends, which only `glUnmapBuffer` would tell.
  The history `mapping` remembers a refusal and a loss.
* `landed` says whether the asynchronous CUDA copy has arrived; `locked`, whether
  the texture is mapped for CUDA.
* `names` are the kinds of objects whose names `struct glgrab` holds, `leaks` those
  that exist without one.
* Sizes are computed as in the code, modulo `Word`, the 2^32 of `uint32_t`.

`FrameLog` is what a context's frames amount to: the frame of a swap is caught or
not, and is published at the next swap, whole and under its own size, or never; if its
pixels were declared lost (`spoilt`), with others. `PublishesFrames` says that `Grabber`
implements it, and that CUDA's copy has arrived when a message appears.

### `WinMap`: the window map

Threads swap, create and destroy drawables. `Find` and `Deref` are `find_x11` and
the use of what it has found, under the lock; `XSync`, `SetHandler`, `Ask`,
`RestoreHandler` and `Judge` are `get_window_size_safe`, in between which other threads
run; `Malloc` and `Link` are `register_window`, `Seek` and `Free` `forget_window`. The lock is a
test-and-set: `Lock` waits until it is free, and nothing makes it fair. Identifiers
of the X server are not reused; blocks of memory are, so that a use after `free`
would meet another entry.

The application makes X errors of its own. A thread that is not in a hook may get one at
any time (`AppError`). One that enters a swap may have one `pending`, which arrives
(`Arrive`) before the X server's next answer at the latest: `XSync`, `Ask` and a
measurement have their answer only then (`Answered`), and so it is `XSync` that keeps a
thread's own errors out of its measurement. An error goes to whatever handler there is
(`Deliver`). `XSetErrorHandler` is called by glgrab only; an application that sets
another handler during a measurement is not modelled.

The history `mishap` is the worst that has happened: `strayed`, an error of the
application's arrived while another thread measured; `overlapped`, two threads have
measured at once; `careless`, the application has destroyed what another thread
uses or swaps it in two threads at once. A property that needs one of them not to have
happened says so.

### `Audit`: who gets which function

`real` is the pointer `real_f` of each fake; `held` is what the linker or a
GetProcAddress has given to each object. `Bind` is `la_symbind`, `BindHook` a
constructor's look-up. A call goes from the pointer its caller holds to a fake
(`EnterFake`, `CallReal`: through the hook if there is one), to a library (`Arrive`),
or to an overlay's function that passes it on (`CallNext`). A GetProcAddress is a
function with an argument that answers (`Answer`, `ReturnFake`, `Return`): with its own
function, with NULL, or with what the linker gives it. Names outside `subs[]` are
answered as they are and are left out.

### `Bt709`, `Yuv`: the colour conversion

`Bt709` is the arithmetic: the rounded coefficients, `avg` and the shift with its
casts in C, and what `maddubs`, `hadd`, `add`, `srli`, `packus` and `avg_epu8` do to one
lane. `Yuv` is the loops of `rgba2yuv420p` with their pointers as offsets, for both
builds: `Stored2x2` is one turn of the plain one, `Stored32x2` one of the other, with
its loads and unpackings. `FrameRight` compares each byte of the frame with the
exact value of BT.709 for the pixels at that place. Offsets are natural numbers:
four bytes for each pixel of a frame are far below the range of `size_t`.

## 3. What TLC checks

| Run | Shows |
|---|---|
| `mrb_safety` | the ring stays intact, the reservation overlaps no live message, positions and sizes are genuine, validated copies are whole messages, in order, with the writer dying anywhere; `Mrb` implements `MonitoredLog`; the walk of `mrb_reserve` ends, after `mrb_shutdown` readers reach the end, a dead writer's buffer is drained |
| `mrb_eof` | *violated*: the end of the stream is reported before the last message |
| `file_life` | three sessions and a reader on one path, any call failing, any process dying |
| `file_geometry` | *violated*: `mrb_open` succeeds with a wrong size |
| `capture_glx` | three threads are never in `struct glgrab` together, and a buffer in use is never replaced, whatever the application does; while no context in use is destroyed, GL names are used only in the context they belong to, and a frame is committed only to the buffer it was reserved in |
| `capture_egl` | the same of names with EGL's order, if no handle is reused early; the try-lock is given back; a context that remains alone and goes on swapping is adopted in the end |
| `demux` | time stamps rise, no tick is left out, the nearest frame is taken, nothing leaks |
| `grab_frames` | `Grabber` implements `FrameLog` whatever fails and however the window's size changes (`PublishesFrames`); no copy leaves its buffer (`CopyStaysInside`), nothing is drawn into a texture that CUDA has still mapped (`DrawsUnmapped`), no object is lost (`NothingLost`), the application's frame buffers, draw and read buffers, texture, row length and pixel buffer are put back, and if nothing has failed there is no error (`AppUndisturbed`), and frames go on once failures stop (`Recovers`) |
| `grab_userfbo` | *violated*: no frame is caught while a frame buffer object is bound |
| `winmap_life` | two threads on one list, with `malloc` failing and X errors of the application's own: entries have one owner (`EntriesOwned`), they are right but for an error that strays into a measurement of another thread (`EntriesTrue`), what is destroyed is forgotten (`DestroyedForgotten`), the application gets no error of glgrab's (`AppSparedErrors`), hooks return (`HooksReturn`) |
| `audit` | an application, an overlay and a library, two threads, every order of look-ups and calls: nothing gets past the hooks (`NothingEscapes`), calls arrive and return (`CallsArrive`, `CallsReturn`) |
| `yuv` | four sizes, three pictures, both builds: the frame is filled with the right colours (`FrameRight`), the same but for one in chroma (`BuildsAgree`) |

Typing of `Mrb`, `MrbFile` and `Capture`, and for the ring `MirrorCovers` and
`FloorNeverFalls`, are not in these runs, because they are proved for every
instance (section 5). In the other modules `TypeOK` is part of the invariant that
needs it.

The inductive invariants that the proofs use have been checked on the same instances,
where a wrong one shows at once. `MCMrb_inductive.cfg` does it for the ring; elsewhere
the cfg names the invariant in a comment, to be put in place of its properties:

| Configuration | Invariant |
|---|---|
| `MCMrb_inductive.cfg` | `RefInv`, which has `IInv` in it; `TypeOK`, `MirrorCovers`, `FloorNeverFalls` |
| `MCCapture_glx.cfg`, `MCCapture_egl.cfg` | `ObjectInv` |
| `MCWinMap_life.cfg` | `EntryInv` |
| `MCAudit.cfg` | `AuditInvariant` |
| `MCGrabber_frames.cfg` | `FrameInv` |
| `MCDemux.cfg` | `PacketInv` |
| `MCYuv.cfg` | `ConversionInv` |

That the instances satisfy the hypotheses of the theorems on sizes and times is an
`ASSUME` of `MCGrabber` (`LimitFits`) and of `MCDemux` (`InstanceFits`).

Five more show disagreements of section 4 that have no run:

| Configuration | Module | Violates |
|---|---|---|
| `MCMrb_exactfull.cfg` | `MCMrb` | `ReclaimsOnlyOverlapping` |
| `MCMrb_wrap.cfg` | `MCMrb` | `VerifiedIsConsistent` |
| `MCCapture_readopt.cfg` | `MCCapture` | `PassesOverForLive` |
| `MCCapture_reuse.cfg` | `MCCapture` | `CaughtInOwnContext` |
| `MCWinMap_none.cfg` | `MCWinMap` | `WindowsMeasured` |

### Bounds

* `mrb_safety`: a ring of 7 blocks, messages of 2 and 4 blocks
  (link included), five messages. The largest message is more than half the
  ring, messages wrap around its end, one reservation reclaims none, one or two
  messages, the ring is lapped about twice, offsets fall on every residue, and
  the mirror of 2 blocks refuses some reservations. 7 is odd on purpose: with
  an even ring and even messages offsets would always coincide. `SeqRange` = 16
  exceeds the number of messages, as 2^42 does for any realistic run.
* One reader everywhere: readers only read shared state and share nothing with
  each other, so a second one adds no behaviour. The proofs are for any number.
* `MCMrb_wrap.cfg`: `SeqRange` = 8 and ten messages, so that the numbers wrap.
* `mrb_eof`, `MCMrb_exactfull.cfg`: the smallest instances that show it.
* `file_life`: three sessions (two that race and one that comes after a crash),
  one reader. Sessions are interchangeable, hence the symmetry; it is not used
  with a liveness property.
* `capture_glx`: three threads, so that one can destroy while one grabs and one
  adopts; three contexts, so that the adopted one, the next one and a reused
  handle are different. Interchangeable, hence the symmetry. `capture_egl` checks
  liveness too: two of each and no symmetry.
* `demux`: frames at any subset of 14 nanoseconds and a tick of 3.5 of them, so
  that ticks lie on and between nanoseconds and both conversions round, with up
  to four frames, early and late ones, to a tick. `Width` = 1024 is beyond every
  difference, so that a difference below zero is huge, as with 64 bits.
* `grab_frames`: the widths 33 and 40 are padded to the same, so that only the size in
  the header tells them apart; 64 x 4 takes exactly `Word` = 1024 bytes, so that its
  byte count wraps to zero; for 96 x 8 the reservation wraps too, and the texture is
  refused. Every call may fail in every swap. `MaxDrawBuffers` is 2, so that a list may have
  a `GL_NONE` at its end, or a gap before its end; the application's lists are one of each,
  the first with the `GL_BACK` that only `glDrawBuffer` takes, and the initial one of a
  frame buffer. A list of nothing but `GL_NONE`, and longer ones, are left to the theorem.
  678,043 states.
* `winmap_life`: one X window, one GLX window on it and one drawable without a window
  (the three kinds), two threads, and one block of memory less than there are
  drawables, so that memory runs out and comes back. One of the two threads makes X errors
  of its own (`Clumsy`): the errors of one reach its own measurements and the other's, and
  those of the second would do the same by symmetry. 1,720,363 states.
* `audit`: one hooked function and one GetProcAddress, so that both kinds of
  fakes occur; the library may answer in all three ways and the overlay chains.
  `Endless` = 2 stops the count of passed hooks of a call that goes round for ever.
  Here the system may stop (a jump to NULL ends the process): no deadlock check.
* `yuv`: widths of 32 and 64, heights of 2, 4 and 6; a second block in each direction
  shows every stride. The arithmetic needs no bound: it is proved (section 5).

### Fairness

`FairSpec` assumes weak fairness of `WriterCall`, the steps *inside* one call of
the writer's API, and of each reader's next step. Both are single threads that
never wait: they go on as long as the process is scheduled. Nothing is assumed
of the client: it need never reserve, commit or shut down, and `Crash` needs no
fairness. So `ReserveReturns` does not depend on readers, and `ShutdownSeen` is
conditional on the shutdown.

In `Capture`, `FairSpec` assumes weak fairness of each thread's `HookNext`: the
steps of the library's own code and of the real calls it wraps, none of which
waits for another thread. The application need never swap, release or destroy
anything; `SurvivorAdopted` is conditional on its swaps.

In `Grabber`, `FairSpec` assumes weak fairness of `Inside`, the steps of one
`glgrab_take_frame`, which waits for nobody. In `WinMap`, of each thread's `HookNext`,
and no fairness of the lock: `HooksReturn` needs none, because it only asks for an
end once the application makes no more calls. In `Audit`, of each thread's `Inside`,
the steps of a call that has begun; `CallsReturn` is conditional on what the
libraries answer in the end.

Deadlock is checked everywhere but in `audit`. `Finished` is the explicit step of a system that
has stopped for good.

## 4. Where code and comments disagree

1. `mrb_reveal` loads `tail` and then `active`. A commit and a shutdown between
   the two make it report "terminated" with a message left (`mrb_eof`).
2. `mrb_open` takes the size from `fstat` and the header from a later `pread`:
   creation finishing in between yields a buffer of size below zero
   (`file_geometry`).
3. `glgrab_take_frame` reads the back buffer of whatever frame buffer is bound for
   drawing. An application that swaps with an object of its own bound gets none of
   its frames caught (`grab_userfbo`).
4. `mrb_reserve` cannot tell an exactly full ring from an empty one and drops
   every message for a single short reservation (`MCMrb_exactfull.cfg`). Nothing
   gets corrupted; frames are lost.
5. After `head` has wrapped, `next.seq >= head.seq` accepts every position from
   before the wrap (`MCMrb_wrap.cfg`). Needs more than 2^40 messages.
6. A context destroyed while it is current can be adopted again between the
   GLX hook's clearing and its real end. It is never cleared a second time, and
   every other context is passed over for good (`MCCapture_readopt.cfg`).
7. EGL clears the adopted handle after the context is gone; a new context with
   the same handle is taken for the old one and not reset (`MCCapture_reuse.cfg`).
8. `get_window_size_error` and the X error handler belong to the process. Two threads
   that measure at once may take each other's errors: a window is put down as
   `None` for good and never grabbed again, or glgrab's handler stays installed. An error
   of another thread of the application that arrives between `glx.c:142` and 147 does
   the first as well, and is kept from the application (`MCWinMap_none.cfg` stops at
   whichever comes first).

Other things met while modelling, some of which no sentence of the
repository speaks of:

* `mrb_open` between creation and `ftruncate` reads zero bytes, which is no
  error, and returns a stale `errno`, possibly 0 (`mrb_read.c:44`, `PreadShort`).
* The script removes the file at its path at exit, whoever made it
  (`glgrab.in:60`, `TrapRemoves`).
* Adoption and try-lock are two steps (`glx.c:175-183`). If the adopted context is
  destroyed between them although it is in use, another one may be adopted and
  reset, and the first thread shoots with its objects. `OwnObjects` without
  `~careless` fails.
* Frames are stamped before their own swap (`glgrab.c:330`, `glx.c:190-192`), not
  after it as `glgrab.h:31` has it.
* `read_packet` picks the *farther* frame of a tick when the kept frame is itself
  late (`avformat.c:217`; it was kept at line 209 without a comparison), because the
  unsigned difference wraps. `NearestReturned` exempts ticks without an early frame.
* At the end of the stream the kept packet is returned without moving
  `last_pts` (`avformat.c:134`); with number 1 a later frame could repeat its time
  stamp.
* `glgrab_destroy` gives up when a thread is inside the grabber; readers then see
  what they see after a crash.
* `readpixels_copy` returns without restoring the application's pixel buffer
  binding when the mapping fails (`glgrab.c:155`); the frame is lost, and so is the
  next one, because of the error left behind.
* `glgrab_take_frame` clears GL's error flag at its beginning, and with it an error
  the application has not asked for yet (`glgrab.c:221`).
* The read buffer of the application's draw frame buffer stays changed when another
  one is bound for reading (`glgrab.c:301-317`).
* `cuda_init` leaves its stream behind when a later step of it fails, and
  `glgrab_reset` forgets CUDA's objects (`NothingLost` exempts both, `cudaLost`).
* The result of `glUnmapBuffer` is ignored (`glgrab.c:163`): pixels it declares lost
  are committed. `PublishesFrames` exempts exactly these (`spoilt`).
* Where GL has no debug messages their redirection (`glgrab.c:223-232`) is an error in every
  call; the check at `glgrab.c:323` takes it for one of its own, and no frame is caught.
* Without memory at `glXCreateWindow` the GLX window is put down as no window at its
  first swap (`EntriesTrue` allows it).
* In a window of odd width or height the chroma of the last column or row is the mean
  of visible pixels and of padding that nobody has written (`glgrab.c:216`).
* A GetProcAddress that answers NULL for a hooked function makes `apply_sub` store
  NULL and hand out the fake: earlier callers, whose calls had arrived, then jump to
  NULL (`audit.c:31`). `CallsArrive` assumes that nobody has (`straight`).
* An overlay that defines a hooked function is either passed over or called by
  itself for ever, depending on who looked up last; and a library whose
  GetProcAddress asks the linker makes the fake its own real function. `CallsReturn`
  assumes that in the end those asked last have named a library's own (`Settled`).

## 5. What is proved

The theorems hold for every value of the constants: all sizes, any number of
threads, readers, sessions, contexts, windows and functions. They rest on the
assumptions the modules state about their constants (`MrbAssumption` and the like)
and, where the table names one, on a hypothesis:

| Hypothesis | Says | Why the code justifies it |
|---|---|---|
| `NoWrap` | `MaxMsgs + 1 < SeqRange` | a sequence number has 42 bits with the default buffer of 256 MB: more than a thousand years of frames at 60 a second. Number 5 of section 4 shows that the properties fail beyond. `MaxMsgs` is otherwise arbitrary |
| `ForgottenInTime` | a context handle does not come back before the hook that destroyed it has forgotten it | true of the GLX order for any GL (`ClearsFirst`); an assumption about EGL, and number 7 of section 4 shows what happens without it |
| `TexturesFit` | a texture that GL grants takes at most 2^32 bytes | the limit of texture sizes is 32768 or less in all implementations there are. The product 32768 * 32768 * 4 is 2^32 itself, which the code computes as 0 (`glgrab.c:293`): that case is covered |
| `TimesFit` | the frames' times and the ticks they round to are below 2^64 | nanoseconds of a monotonic clock |
| `BytesRead` | what is read from the picture are bytes | `rgba` is a pointer to `uint8_t` |

In the order of the modules (a name before `!` is that of the module, which goes on
until the next one):

| Theorem | Property | Hypothesis |
|---|---|---|
| `MrbProof!TypeCorrect` | `TypeOK` | `NoWrap` |
| `LiveMessagesIntact` | `LiveIntact` | `NoWrap` |
| `ReservationsDisjoint` | `ReservationDisjoint` | `NoWrap` |
| `VerifiedCopies` | `VerifiedCopyIntact` | `NoWrap` |
| `GenuinePositions` | `PositionGenuine` | `NoWrap` |
| `SoundHeaders` | `HeaderSound` | `NoWrap` |
| `ReservationsMapped` | `MirrorCovers` | `NoWrap` |
| `FloorMonotonic` | `FloorNeverFalls` | `NoWrap` |
| `OrderedDelivery` | `DeliveryInOrder` | `NoWrap` |
| `RingImplementsLog` | `RefinesLog` | `NoWrap` |
| `MrbFileProof!FileTypeCorrect` | `TypeOK` | |
| `OpenedMatches` | `OpenedMatchesWriter` | |
| `FailedCreateLeavesNothing` | `FailedCreateUnlinked` | |
| `NeverRebuilt` | `ActiveNotRebuilt` | |
| `CaptureProof!CaptureTyped` | `TypeOK` | |
| `StateWordExcludes` | `Exclusive` | |
| `BufferNotReplaced` | `OneBuffer` | |
| `UsesOwnObjects` | `OwnObjects` | `ForgottenInTime` |
| `CopiesToMapped` | `FrameMapped` | `ForgottenInTime` |
| `WinMapProof!BlocksOwned` | `EntriesOwned` | |
| `MapSaysTrue` | `EntriesTrue` | |
| `ErrorsKeptAway` | `AppSparedErrors` | |
| `MapForgets` | `DestroyedForgotten` | |
| `AuditProof!HooksNotPassedBy` | `NothingEscapes` | |
| `StraightCallsArrive` | `CallsArrive` | |
| `GrabberProof!CopiesInside` | `CopyStaysInside` | `TexturesFit` |
| `MappedNotDrawn` | `DrawsUnmapped` | |
| `ObjectsNamed` | `NothingLost` | |
| `AppFindsItsState` | `AppUndisturbed` | |
| `FramesPublished` | `PublishesFrames` | |
| `DemuxProof!StampsRise` | `PtsRise` | |
| `EachTickServed` | `TicksServed` | |
| `PacketsAccounted` | `NoPacketLeaked` | |
| `NearestFrameReturned` | `NearestReturned` | `TimesFit` |
| `YuvProof!FrameIsRight` | `FrameRight` | `BytesRead` |
| `BuildsAgreeByOne` | `BuildsAgree` | `BytesRead` |
| `LumaRight`, `LanesAgree`, `AveragesAgree`, `ChromaRight`, `ChromaAgrees` | the arithmetic, see below | |

Hardly any of these properties is inductive. What had to be added says how the
code works, and is the subject of what follows.

### The ring

`LiveIntact` needs to know that the blocks being
written are not those of a live message; that follows from what the walk of
`mrb_reserve` has compared, but the comparison is of *offsets* in a ring, and
offsets alone do not say which way round a message lies. The inductive invariant
`IInv` (`MrbInv`) therefore measures messages in absolute positions:
`Back(n)`, the distance from the beginning of message `n` to the tail.

* `WindowInv`: every live message begins within one turn behind the tail, and
  its offset is its position wrapped at most once.
* `ReservationInv`: while space is reserved, `Back(n) + len <= Size` for every
  live message. This is what the walk establishes (`StoreHeadInv`: the first
  message that fails the overlap test has room, and later ones are nearer to
  the tail) and what makes every write harmless (`BlocksDiffer`,
  `WriteElsewhere`).
* `FrameInv`, `WriterInv`: what is known at each place inside the writer's API;
  in particular the walk only visits live messages, so the links it follows are
  genuine, and it ends at the tail at the latest.
* `PositionInv`, `CopyInv`, `OrderInv`: a reader's copy is genuine for as long as
  its message is live, and for good once it has been checked.

The proof has one lemma for each action. The writer's lemmas also show
`Advance`: what a reader may rely on while somebody else moves (the log grows,
the live range only shrinks from below). `ReaderKept` turns that into the
preservation of every reader's invariant, so no lemma has to consider the writer
and a reader at the same time.

`RingImplementsLog` is the refinement. `RefInv` adds to `IInv` that the writer is
active until it shuts down and that what it reserves has an offered size. Each
action of the ring is then shown to be one of the log, or a stutter: the store of
the tail is `Publish`, the store of the head `Forget`, the load that ends a check
the handing over.

### The file

An invariant ties the file that a session has created to where the session is in
`mrb_create`; a size, once given, stays.

### Adoption

`ContextInv` says that a current context exists and that a thread that destroys
has a victim. `LockInv` adds to exclusion what the state word says about the buffer
(`virgin` means that none is mapped, and so does the inside of `glgrab_init`), which
is what `BufferNotReplaced` needs. A step either stays outside (`StaysOut`), enters,
stays inside or leaves (`Enters`, `StaysIn`, `Leaves`), one lemma each, and every
action of the module is an instance of one of them.

`OwnObjects` needs four facts more, as long as no context in use has been destroyed
(`OwnInv`): a thread between adoption and shot is the one whose context is adopted
(`AdoptedInv`); what is being destroyed is nobody's, once (`VictimInv`); the adopted
context is there, or a hook is about to forget it (`ForgetInv`); and once it has been
reset the objects and the pending frame are its own (`SettledInv`). The `clear` of the EGL
hook is where `ForgottenInTime` is used, and nowhere else.

### The window map

`BlocksOwned` holds whatever the application does, from mutual exclusion under the
spin lock (`LockInv`) and from ownership (`OwnerInv`): a block is free, in the list
once, or in the hands of the thread that is between `malloc` and `LIST_INSERT_HEAD`
or between `LIST_REMOVE` and `free`. Here the list is a sequence that is searched
from its head: that `find_x11` finds the first entry of a drawable if there is one is a lemma
about the least index, from the well-foundedness of the natural numbers.

The other three theorems are about careful applications. `CarefulInv`: a drawable is
in one thread's hands, alive until its hook returns, registered once, and in the
map no longer than it lives. `RightInv` and `HandlerInv`: while one thread measures
the handler is glgrab's, the one it will put back is the application's, and
the error flag says whether this drawable is a window, unless an error has strayed in.
That it is no earlier error of the thread itself rests on `XSync`: a thread that
measures has nothing `pending`.

### The frame pipeline

`FrameInv` says what a frame that has been caught has behind it (`CaughtInv`): a
reservation of its size, an engine that holds the image, a texture of its size, not
mapped. Between swaps those are what the next call relies on; the conjuncts
before (`MakingInv`, `ShownInv`, `EngineInv`, `BufferInv`) say how far the making has
got at each `pc` and with which failures.

`AppFindsItsState` needs to know what of the application's state is changed at each `pc`:
`LeftInv` has what never is between two steps, `BoundInv` gives the frame buffers and
the read buffer as a function of what they were at the beginning, and `SavedInv` says that
what has been saved is of the frame buffer of the beginning, and not of the grabber's.
`ListBack` is the lemma about the draw buffers: a list whose last `GL_NONE`s were left out is
accepted by the function that it is given to, and the whole list comes back, for
every number of draw buffers; it rests on the well-foundedness of the natural
numbers, for the last buffer that is not `GL_NONE`. `CleanInv` is about the error flag.

`FramesPublished` maps the pipeline to `FrameLog`. A frame is caught when
`Finish` sees no error; it is published, whole and with the size in its header, by
`CopyReadpixels` or `CopyCuda`, or dropped. `CopyShown` is the step that matters: with no
error up to the check the image is that of the buffer, but for lost pixels; with one
nothing is published. Only `CopyCuda` waits for the copy under way; with the other engine
there is none (`EngineInv`).

`CopiesInside` is arithmetic modulo 2^32: the size of a reservation wraps for
huge windows, and so does the buffer's. `TouchedInside` shows that where a texture could be
allocated at all the reservation does not wrap, and that a buffer that wraps is
empty, for which the engine fails before anything is copied.

### Interposition

`HeldInv`: only fakes are ever handed out, and whoever holds one has asked for it, so
that the pointer behind it is set. `Passed`: a call that has left the fake has been
counted, and a GetProcAddress on its way back returns a fake. `Straight`: for
functions with only straight answers a call is in the fake once. The conjunct `Asked` is
what a call that is under way needs when somebody else's look-up replaces the
pointer.

### The demuxer

Every constant is symbolic here: `Num / Den`, the range and the times. `Quotient` and
`Multiples` say what a division is between two multiples of the divisor; from them
`TicksRise` (rounding is monotone), `EarlyIs` (a frame that `av_compare_ts` takes to be not
after its tick is not after the nanosecond the tick rounds to, and conversely) and
`NoWrapping`.

`ChoiceInv` says that the kept frame is the last one of a tick that has not been served
(`KeptInv`) and that what has been returned is of earlier ticks (`ServedInv`), but
for the packet left at the end, after which nothing comes. `NearestInv` adds
`Final`: a packet that has been returned has no rival to fear, because the clock has left
its tick or is past the tick and farther away than the packet.

### The colours

`YuvProof` begins with the arithmetic, for every pixel and every block of four:

| Theorem | Says |
|---|---|
| `LumaRight` | luma is in 16..235 and within 1.3 of BT.709 |
| `LanesAgree` | the SSSE3 lanes compute what the C code does: nothing saturates, nothing wraps |
| `AveragesAgree` | either way to average four bytes is within a half of the mean, and within one of the other |
| `ChromaRight` | chroma is in 16..240 and within 3/2 of BT.709 of the block's mean; a grey average gives 128 |
| `ChromaAgrees` | the builds differ by one in chroma at most |

`Coefficients` evaluates the initializers; `Uncut`, `Int16Small` and `Packed` say that the
casts, the wrapping addition and the saturating pack change nothing for sums in
range; `SumBounds` says that all sums are. The 1.3 is what the rounding of the
coefficients costs: 5/4 is exceeded by some pixels that no sampled picture has.

Then come the registers. `PackDot`, `AvgReg` and `Unpacked` say where a lane is after the
shuffles; `LumaRow` and `ChromaRow` put them together: the k-th byte that
`rgba2yuv420p_16x2` packs is that of the k-th pixel, or of the k-th block of its two
rows. `Stored2` and `Stored32` bring both builds to one form, `Stores(s, n)`: the luma of
2n pixels in two rows and the chroma of their n blocks, at the pointers.

`ConversionInv` gives the five pointers as functions of the counters, and says that what
has been written is what lies behind them, each byte `Good`. `LumaPlace` and
`BlockPlace` are the geometry: the offset of a byte in its plane, divided by the width,
is the place of its pixels in the picture. With `Filled`, the three planes
meet at the end without a gap.

## 6. What is only model-checked

* The liveness properties (`ReserveReturns`, `ShutdownSeen`, `DeadWriterDrained`,
  `LockGivenBack`, `SurvivorAdopted`, `Recovers`, `HooksReturn`, `CallsReturn`): the prover
  cannot do fairness or `ENABLED`.
* Everything after the numbers have wrapped.
* That an error of another thread does stray into a measurement, and what two overlapping
  measurements do: the theorems only say what holds otherwise.
* The disagreements of section 4: they are counterexamples.

## 7. Plan

`Mrb` with store buffers, for machines whose stores may be seen out of order.

Not modelled, and not planned: option parsing, logging, the ELF fix-up in
`la_objopen` (it repairs tables of the C library), reuse of X identifiers,
FFmpeg's stream set-up and registration of formats, the build.
