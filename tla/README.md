# AtlasOS64 in TLA+

Models, model checks and proofs of the AtlasOS64 kernel (`kernel/src`), a small
x86_64 kernel in C: a bitmap page-frame allocator, four-level page tables, a
PS/2 keyboard driver, interrupt and boot code.

## 1. The system

The kernel runs on one CPU without threads. Its only concurrency is the
keyboard interrupt, which enters between any two instructions of the code it
interrupts once `KiIdtInit` has executed `sti`, and the devices themselves.

| Component | State | Operations | Interacts with |
|---|---|---|---|
| Physical memory manager, `PMM/pmm.c` | `static pmm`: bitmap, size, counters, base address | `KiPmmInit`, `KiPmmAlloc`, `KiPmmNAlloc`, `KiPmmFree`, `KiPmmNFree`, two getters | called by `main.c` and `paging.c` |
| Page tables, `Paging/paging.c` | the static root table; the tables in frames; the processor's TLB | `MapPage`, `UnmapPage`, `KiRetrievePml4` | takes its tables from the allocator, never gives one back; no caller yet |
| Keyboard driver, `Drivers/PS2Keyboard/driver.c` | ring, head, tail, `buffering_read`; `shift`, `caps`, `extended`, autoflush | `KeyboardDriverMain` (interrupt side); `KiReadHidC`, `KiReadHidSN`, `KiReadHidS` (reading side) | called by `KiKeyboardHandler`; shares the ring with its readers; echoes with `printk` |
| Interrupts, `IDT/idt.c` | IDT, PIC masks and offsets | `KiIdtInit` and its parts, `KiKeyboardHandler`, `KeyboardFlushBuffer` | the 8259 pair, the keyboard controller, the driver |
| Exceptions, `IDT/idt.c`, `idt.asm` | none | 32 stubs, `KiExceptionHandler` | entered by the processor |
| Boot, `main.c` | the bitmap on its stack | `KiStartupInit`, `hcf` | calls GDT, interrupts, allocator and `printk`, the keyboard interrupting it from `KiIdtInit` on |
| GDT, `GDT/gdt.c`, `gdt.asm` | the table, constant | `KiGdtInit`, `KiGdtLoad` | loaded first by the boot; every gate names its code descriptor |
| Memory functions and port I/O, `KiSimple.c` | none | `memcpy`, `memmove`, `memset`, `memcmp`, `inb`, `outb`, ... | used everywhere |
| `printk` (vendored printf) | none of its own | formatting | writes through flanterm (external) |
| host tool `genf2c.c`, embedded ELF data, build files | none | - | - |

What is hard here:

- **interleaving**: the keyboard interrupt against the unlocked readers of the
  ring, against `KeyboardFlushBuffer`, and against `buffering_read`, a plain
  `bool` whose store the compiler may drop;
- **resource bounds**: the full ring that forgets everything, memory that runs
  out in the middle of `KiPmmNAlloc` and of `MapPage`;
- **protocol sequences**: takes and gives of frames in any order, double frees,
  scancode sequences, of which the flush may discard any single byte;
- **ordering**: `lgdt`, remap, gates, masks, `lidt`, `sti`; entry, TLB, `invlpg`;
- **stale state**: recycled frames that become tables, cached translations, the
  end of the kernel that is passed and never stored;
- **liveness**: reads that must end, a keyboard whose edge is forgotten.

The `hazards` list of `PROJECT.json` names each at its line with the properties
that watch it.


## 2. Plan

Done, in this order:

1. `Pmm`, `PmmOwners`: the allocator, first with arbitrary callers, then with
   callers that keep to the protocol; `PmmProofs`, `PmmOwnersProofs`.
2. `Kbd` against the abstract `KbdQueue`; `KbdProofs`, with that refinement.
3. `Paging`, which composes the page tables with `Pmm`, against the abstract
   `AddressSpace`; `PagingProofs`, with that refinement.
4. `Irq`: the interrupt path, PIC, keyboard controller, flush loop.
5. `KiSimple`, `KiSimpleProofs`: the memory functions.
6. `Printk`, `PrintkProofs`: conversion and output; `PrintkFormat`, a whole call
   from its format on, against `Printk`.
7. `Exceptions`, `ExceptionsProofs`: the stubs and the handler declared
   `noreturn`.
8. `KbdIrq`, which composes `Irq` with `Kbd`; `Boot`, which composes it with
   `Gdt` and `Pmm` into `KiStartupInit`; `BootProofs`, for `Irq`, `KbdIrq` and
   `Boot`.
9. The parser: `PrintkProofs` for `PrintkFormat` as well, with the refinement of
   `Printk`.

Next: should the kernel gain callers for the readers, `MapPage` or `UnmapPage`,
their composition with `Boot`, where today nobody calls them.

Modules that are, or will be, proved about use no `RECURSIVE` operator.

## 3. Modules

| Module | Models | State | Actions |
|---|---|---|---|
| `Pmm` | `PMM/pmm.c` | the fields of `static pmm`, the bitmap as the set of its 1 bits; `ret`, the last result | one per function: a call is atomic, since no handler calls the allocator |
| `PmmOwners` | callers of the allocator | `held`, each client's block as pointer and count; `fragmented`, a history flag | a call and what the client makes of its result |
| `Paging` | `Paging/paging.c`, with `Pmm` | root table, contents of every frame read as a table, TLB, frames of another user | `MapPage` in one step per level (each is one `KiPmmAlloc`), entry and `invlpg` apart; `UnmapPage` in one |
| `AddressSpace` | what the page tables promise: a partial map of pages | the map | `Map`, `Unmap` |
| `Kbd` | `Drivers/PS2Keyboard/driver.c` | its static variables, the reader's registers and place | `KeyboardDriverMain` whole (it runs behind an interrupt gate); the readers one access of a shared variable per step |
| `KbdQueue` | what the driver promises: a bounded queue that forgets everything when it overflows | queue, last character taken, last echo | `Type`, `Take` |
| `Irq` | the rest of `IDT/idt.c` up to the handler | PIC, keyboard controller, table, mask, flag, place of boot and handler | one per port access or instruction of `KiIdtInit`, `KiKeyboardHandler`, `KeyboardFlushBuffer` |
| `KbdIrq` | `Irq` and the interrupt side of `Kbd` together, with a keyboard that sends whole key events | both; the keys held, the bytes of a key event still to be sent | press, release, next byte; the handler's read with all of `KeyboardDriverMain` |
| `Gdt` | `GDT/gdt.c`, `gdt.h`, `gdt.asm` | none: the table is constant | none; what `KiGdtLoad` loads, as a predicate |
| `Boot` | `main.c` | `KbdIrq` and `Pmm`; place of the boot, escape sequences of its messages on the terminal | one per call `KiStartupInit` makes, those of `KiIdtInit` as in `Irq`; `Write` for the rest of a message |
| `KiSimple` | `memcpy`, `memmove`, `memset`, `memcmp` | memory, the call's arguments, loop counter | the call; one per byte |
| `Printk` | output half of `printk/printk.c` | output function, buffer, `idx`, the conversion's own buffer and flags | one per item, per digit, `_ntoa_format`, `_out_rev`, the final NUL |
| `PrintkFormat` | a whole call: the parser of the format, driving `Printk` | `Printk`'s; place in the format, next argument, the fields being read | one per field; the conversion's item handed to `Printk`, whose actions then run |
| `Exceptions` | `IDT/idt.asm`, `KiExceptionHandler` | place, `rdi`, the words on the stack | the processor's push, stub, handler, return, `iretq`; whatever comes behind a handler that does not return |

The `*Proofs` modules extend the module they are named after. An `MC` module
only gives values to constants. A definition whose name extends that of the
definition behind it, with a comment that calls it a mutant, is the same code
with a plausible bug; the properties fail with it in place of the original.

Details of the translation worth knowing:

- **The reader of the ring.** `KiReadHidC` loads head and tail in the order gcc
  evaluates them (left to right); the character is not loaded through a
  volatile pointer, so its load comes before or after the second load of the
  tail, as the compiler likes. `storeKept` says which build runs: gcc -O2, which
  the makefile asks for, removes the store `buffering_read = true`, because
  nothing between it and the store of `false` is visible to it; gcc -O0 keeps
  it. Both load the character before they store the tail. C would allow a
  later load, and gcc -O1 makes one: an overflow between the two then loses
  the character, in a build that is not modelled.
- **Composition.** `Boot` extends `KbdIrq`, which extends `Irq`; the actions of
  `Irq` change only its own variables, so a step of `Boot` is a step of `Irq` or
  none, and what is proved of `Irq` holds in `Boot`. The driver and the
  allocator are instances, whose actions are conjoined with those that call
  them. Nobody reads the ring in this kernel; `Kbd` alone has readers.
- **The terminal.** The handler's echo and the boot's messages write to one
  terminal. A message is kept as the places where its escape sequences open and
  close: an echo in between is what could go wrong.
- **History flags.** `fragmented`, `exhausted`, `torn` and `raced` become true
  when the code meets a case after which it keeps no promise: a block with a
  hole, a failed allocation inside `MapPage`, an overflow in the middle of a
  read, a flush that takes the byte of a pending interrupt. Properties that are
  conditional on one of them hold up to that moment; the cases are in the
  hazards list, and each is reachable.
- **Undefined behaviour.** After the `return` of a `noreturn` function the
  processor may go back to the stub or run into the next function
  (`Return`, `RunOff` of `Exceptions`); gcc -O2 emits the second. What that
  function then does is not known: `Astray` lets it enable interrupts, pop
  frames and words off the stack and leave anything in `rdi`, for ever, and the
  properties of `Exceptions` promise nothing from there on. In particular a
  panic whose own `printk` divides by zero may not be final.
- **Numbers.** Addresses and counts are unbounded; callers whose arithmetic
  wraps at 2^64 do not exist in `src/`. The `uint8_t` of `memset`, the ring
  index, the `unsigned` of `_atoi` and the types `hh` and `h` of `printk` have
  their width, given by constants in `PrintkFormat`.

## 4. Runs

| Run | Question | Bounds, and why they are enough |
|---|---|---|
| `pmm` | Is the counter exact, the bitmap large enough, every loss explained, whatever is called? | Pages of 2 bytes: pointers inside a frame. 0, 3, 8 and 9 frames: none, a partial byte, exactly one byte, one more. Buffers of 1 and 2 bytes: too small for 9. Every pointer up to beyond the end; counts 0 to 3, more than 3 frames have |
| `pmm_kernel_end` | Are frames above the end of the kernel? **No** | as above |
| `owners` | Do clients that keep to the protocol ever share or lose a frame? | Three clients, 4 to 6 frames, counts 1 to 3: a hole needs a block between two free parts, 4 frames and two clients; the third sees the consequence |
| `two_owners` | And when a block has a hole? **They share** | as above, symmetric clients |
| `paging` | Do the tables implement a map, over recycled frames? | Four pages that share 3, 1 and 0 tables; 6 frames, fewer than the tables all of them need, so that memory ends at every level; every call then is followed by nothing (`UntilExhausted`: no property speaks of what follows a failed allocation) |
| `kbd` | Is the ring with interrupted readers a bounded queue, are arrows held off, do reads end? | Ring of 3 (2 characters): an arrow key, 3 characters, always overflows it, a letter and a backspace (1 and 2) do or do not; make and break of shift, caps and the prefix complete every path of `KeyboardDriverMain`. Lines of 1 and 3, which the NUL before a backspace ends on the same path as a newline; Enter is left out of this instance. Both builds |
| `boot` | Does the boot, with a keyboard in use, find every gate and selector, read every byte once, keep the modifiers right, end, print its escape sequences whole, give its memory back, and serve the keyboard for ever? | Timer, keyboard and one line of the second PIC. 4 bytes: one before the remap, one pending at `sti`, one in the loop, one after it; or press and release of an arrow key; or the 4 of Print Screen with its fake shift. Two shift keys, which share one flag. A ring of 2 overflows with every arrow. 9 frames: a bitmap of two bytes |
| `memory` | Do the memory functions do what C says? | 4 addresses, 2 values: overlaps by 1 and 2 on either side, empty and full ranges |
| `printk` | No store out of bounds, the right prefix, the right field, each conversion with its own fields and arguments, no read beyond the format? | `unsigned char`, `short` and `int` of 2, 4 and 6 bits: a width of 65 wraps, a star may be negative, and the value -27 differs in every type. Conversion buffer of 6, numbers of up to 17 digits, every set of flags, widths and precisions below, at and above 6; caller's buffers of 0, 1, 3 and 9. Every field in every form in front of another conversion, so that what one leaves behind meets the next; pieces of text in pairs; cut after every character |
| `printk_sent` | Does `fctprintf` return the number of characters it has sent? **No** | as above |
| `exceptions` | Does every return find its frame, is a panic final until a handler runs off its end? | Four exceptions deep: a panic, an NMI in its `hlt`, a fault in the NMI's `printk` and one more; vectors with and without error code, NMI, and 21, whose stub has none |
| `exceptions_return` | Does the `noreturn` handler never return? **It does** | as above, two deep |

## 5. Findings

- `KiPmmInit` drops the end of the kernel it is given (`pmm.c:26`): frames start
  at address 0, below the kernel, and the first is the null pointer.
- `KiPmmNAlloc` returns the first of several frames that need not be contiguous
  (`pmm.c:64`): two correct clients come to own one frame.
- `KiExceptionHandler` is declared `noreturn` and returns (`idt.c:42`).
- `fctprintf` returns "the number of characters that are sent to the output
  function" (`printk.h:108`) and the NULs of `%c` besides, which `_out_fct` does
  not send (`printk.c:165`).

Also seen, without a run of their own. `struct GDT` has a null descriptor for the
user that the initialisers leave out (`gdt.h:34`, `gdt.c:17`): `UserNull` is code,
`UserCode` is data, `UserData` is null; the kernel's own descriptors are right.
Where no text of the repository says what is right: the prefix of `'#'` takes the place of digits
(`printk.c:247`), `'-'` forgets the precision (`printk.c:233`), a format that
ends inside a conversion is read beyond its end (`printk.c:848`), a negative `*`
precision counts as 0 (`printk.c:644`), an overflow during a read tears the ring
(`driver.c:28`), the flush can take the byte of an interrupt already requested
(`idt.c:96`).

## 6. Fairness

- `Kbd`: `WF(KiReadHidC)`. The CPU goes on executing the reader after every
  interrupt. Nothing is assumed of the keyboard; `LineReturns` says that a line
  ends *if* there is always something to read again.
- `Boot`: weak fairness of the boot code, and of the handler together with the
  delivery of an interrupt that stays requested and unmasked: the processor
  executes what it is in, and the PIC does not forget a request. None of the
  devices: nobody must press a key. `BootEnds` holds because the keyboard of
  the model sends finitely many bytes; with one that always has another byte,
  `KeyboardFlushBuffer` need not end.
- `KiSimple`: the CPU goes on with a loop it is in. Nobody must call.
- All the others check safety only and assume none.

## 7. Proofs

TLAPS checks, for every value of the constants under the `ASSUME`s of the
modules (which TLC evaluates on the instances above):

- **Allocator** (`PmmProofs`). `TypeOK`, `FreePagesExact`, `BitmapCoversFrames`,
  `LossesExplained`. The invariant adds that the counter is exact before
  `KiPmmInit` too, that a ready bitmap has the size computed for it, and for the
  losses that the base is 0. The work is in cardinalities: `Mark` of free frames
  and `Unmark` of any frames keep `free_pages = total_pages - |bitmap|`.
- **Clients** (`PmmOwnersProofs`). `ExclusiveUnlessFragmented` for any number of
  clients and frames, and `LostOnlyBehindNull`. It needs that nobody holds a frame before `KiPmmInit`,
  that the base is 0, and that no block begins at frame 0, which is what makes
  `KiPmmFree(NULL)` harmless. A loss is the difference between the frames marked
  and the frames held: without a hole, a block is all a call has marked, so only
  a `NULL` makes a difference.
- **Page tables** (`PagingProofs`). `TablesFormTree`, `EveryFrameAccounted`,
  `TlbCoherent` and the refinement `PagingSpec => IsAddressSpace`, for every set of
  pages and targets and every memory, until an allocation of `MapPage` fails.
  The invariant names the tables of each level by the entries of the level above
  and says that the levels are disjoint and no two entries are the same, that
  every marked frame but frame 0 is a table or data, and what `table` points to
  at each step. So a store into a last table changes the walk of one page, a new
  table, cleared, changes none, and a frame from the allocator is on no walk. The
  cache may then differ from the tables for the page between `MapPage`'s last
  store and its `invlpg`, and for no other. The count of the tables is a
  bijection per level.
- **Ring** (`KbdProofs`). `TypeOK` and `ReaderFindsChar` for every size from 2
  on. The reader decides from a head it loaded earlier; the invariant says that
  while the ring is empty the loaded head is still the head, because every push
  - also one that overflows - leaves the ring non-empty. And the refinement
  `Spec => IsQueue`: the unread characters, read from tail to head around the
  end of the buffer, are the queue. A push is an `Enqueue`, the store of the tail
  a `Take`, everything else a stutter; until an overflow tears it, whatever the
  reader has loaded agrees with the ring. `ArrowsHeldOff`, because in the build
  that keeps the store the flag is set from the wait to the store of the tail.
- **Memory functions** (`KiSimpleProofs`). `MoveCorrect`, `FillCorrect`,
  `CompareCorrect` for every memory and range. Each loop has the classical
  invariant: what it has written so far equals the source *at the call*, and
  what it will still read has not been overwritten, by the choice of direction.
- **printk, the writer** (`PrintkProofs`, `IInv` and `DigitsInv`). `NtoaInBounds`
  and `StoresPrefix` for every format, argument, count and size of the conversion
  buffer: the caller's buffer is the text so far up to `idx` and untouched
  behind. And `FormatsAsC`, for every value, base, width, precision and set of
  flags: after each turn of the loop the digits so far are those of the number
  and `value` is the number divided by that power of the base; so at its end, or
  when its buffer is full, the digits are those C writes, and what
  `_ntoa_format` appends to them, reversed, is the field C asks for.
- **printk, the parser** (`PrintkProofs`, `ParseInv` and `CallInv`). `ReadsInside`
  and the refinement `CallSpec => ImplementsPrintk` for every set of calls, every
  text and argument in them, and every place a format is cut at. The invariant
  says in which field of which conversion the parser is: the characters before
  `pos` are those of the conversions parsed and of the fields of the next one,
  `va` is behind the arguments of these, and `opts`, `width` and `precision` are
  what the fields passed mean. Each field ends where it was written to end,
  because what follows it begins with a character that cannot belong to it.
  When the specifier is reached, the item made of the fields is the one meant,
  and the sequence of items still to come does not change; the writer then takes
  that item as `Printk` takes its first. `CompleteCallImplements` adds the
  initial state: a call with a complete format *is* a call of `Printk`. The
  theorems about the writer are proved of the whole call as well; with a cut
  format they hold up to the read behind it, where the model ends, so that
  `StoresPrefix`, which speaks of the return, is about complete formats.
- **Interrupt path and boot** (`BootProofs`). `NoUngatedInterrupt` and
  `EachByteOnce` for every set of wired lines and any number of bytes. The
  invariant says which masks, gates and offset hold at each step of `KiIdtInit`;
  that a request of the keyboard means an unread byte, until the flush races;
  and that the bytes handled and discarded are, without gap or repetition, those
  sent. It is proved of `Irq` and carried to `Boot` by `BootImplementsIrq`, a
  refinement without hidden state. With the driver, `ModifiersFollowKeys` and
  `DriverResynchronises` for every set of keys and shift keys, of any number of
  bytes each: `extended` is true exactly behind a byte 224, and the invariant
  says of the byte in the controller and of those not sent yet that one with the
  code of a shift key is either that of a shift key, on its way, or comes to a
  driver that remembers the prefix. `BootTypeOK`, whose only hard conjunct is
  that `KeyboardDriverMain` gets a byte. For `Boot` itself: `NeverResets`, from the
  descriptors bit by bit and the order of the calls, and `EscapeSequencesWhole`,
  because every message with an escape sequence is printed before `sti`; and
  `PmmTestRestores`: the buffer of `main.c` has exactly the size `KiPmmInit` asks
  for, and the test, which takes frame 0, frees the address 0 again.
- **Exceptions** (`ExceptionsProofs`). `TypeOK`, `ReturnsToFrame`, `PanicIsFinal` for
  every set of vectors and any depth. The invariant maps the exceptions not yet
  returned from to the frames on the stack, in order, and says what lies
  between two of them; only a handler with 0 in `rdi` returns, no error code
  goes with 0, and a frame keeps that `rdi` over an exception inside `printk`.
  All this is known until a handler runs off its end (`pc = "astray"`), and
  `PanicIsFinal` is claimed for no step after that.

What the theorems assume of the constants, and why the code's users satisfy it:

- `ShiftsAssumption` (`KbdIrq`): a shift key sends one byte, 42 or 54, and 170 or
  182 when released; another key sends these only behind the prefix 224, as Print
  Screen does with its fake shift, and no key ends with a prefix. This is scan
  code set 1, which `driver.c` is written for; `Pause`, whose prefix is 225 and
  which the driver does not know, sends none of these bytes.
- `FormatsAssumption` (`Printk`): items are of the types of `_vsnprintf`; of the
  numbers only `%d` and `%i` are signed, in base 10, and where no precision is
  given it is 0. `CompleteCallImplements` shows that the parser makes no others.
- `CallsAssumption` (`PrintkFormat`): what callers write, field by field. A field
  may be empty, and its numbers have any number of digits; a width does not begin
  with `0`, which is a flag; the specifier is any character that could not
  continue a field; the argument of a star is an `int` above the smallest one;
  a cut may be anywhere in the last conversion but in front of it.

`DriverResynchronises` was false as it stood before the proof was tried, although
the run of four bytes passed. With Print Screen and eight bytes the flush takes
the byte of an interrupt already requested; the handler reads the byte before,
42, once more, its prefix is already forgotten, and `shift` is set with no shift
key down. The property now ends its promise about `shift`, until the next event
of a shift key, when a byte is read twice (`settled`).

What recursive functions compute is proved in two steps, since the induction
theorems of the library cannot be used: that the function exists, by joining
finite approximations, and that a set of numbers with 0 and every successor has
all of them, from the least number outside it, which exists because the sets
below it are finite (`LeastNumber`, `SetInduction`, `Iterates` of `PrintkProofs`).

Only model-checked: liveness (`ReadReturns`, `LineReturns`, `CallsReturn`,
`KeyboardServed`, `BootEnds`), which is beyond the prover. Every other property
of a passing run is a theorem.

## 8. Not modelled, and why

- Floating point in `printk.c` is not compiled. The smallest negative integers,
  whose negation is undefined, are left out, and `l`, `ll`, `j` and `z` do not wrap.
- The contents of the line `KiReadHidSN` fills are abstracted to a count, the
  screen to what the last interrupt echoed, the layouts to two keys, Enter,
  Backspace and the keys without a character. `InitKeyboardDriver` and
  `KiIrqSetMask` have no caller. Of the boot's messages only the escape sequences
  are kept. The keyboard of `boot` has no caps lock: one that the flush discards
  stays missed for ever, which no text of the repository excludes.
- In `MapPage` the branch "Must be aligned" cannot be taken, since the base is 0
  and frames are aligned; the debug output of `d()` and all flag bits but
  *present* are left out. `page_size` is the literal 0x1000 its caller passes.
- The second PIC, the priority of its lines and the level of the keyboard's
  line are modelled from how this code drives them; flanterm and Limine are
  fetched at build time and are not part of the repository. So is everything
  behind `_putchar`: `SetGlobalFtCtx` stores a pointer that only flanterm uses, and
  exceptions before `lidt` belong to the bootloader's table.
- `inb`, `outb` and their relatives are single instructions, modelled where they
  are used.
- `genf2c.c` is a host tool that prints a file as a C array; the embedded ELF
  image is generated data that nothing uses; the build files have no run-time
  behaviour.
