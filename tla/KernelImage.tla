----------------------------- MODULE KernelImage -----------------------------
(***************************************************************************)
(* The way of the kernel into memory: loader_map_elf of the prekernel      *)
(* (entry.c) copies the segments of the image and has vprotect (paging.c)  *)
(* set the permissions in the boot loader's page tables; _kstart (entry.s  *)
(* of the kernel) relocates it where it is. Then PageTable takes over.     *)
(*                                                                         *)
(* Addresses within the image count words, WORDS of them to a page; a word *)
(* of memory holds the place in the file it is from and how often the base *)
(* has been added to it.                                                   *)
(***************************************************************************)
EXTENDS PageTable

CONSTANTS
  WORDS,
  Images    \* [root, segments, others, relr]: the page that aligned_alloc gives,
            \* the PT_LOAD headers, the flags of the others, and the words that
            \* DT_RELR names: by their addresses, or each by a bit of a bitmap

PhdrT == [paddr : Nat, memsz : Nat, filesz : Nat, offset : Nat,
          flags : SUBSET {"write", "exec"}]
RelrT == [kind : {"address", "bitmap"}, where : Nat]

SegmentEnd(phdr) == phdr.paddr + phdr.memsz
FirstPage(im, phdr) == im.root + (phdr.paddr \div WORDS)
LastPage(im, phdr) == im.root + ((SegmentEnd(phdr) + WORDS - 1) \div WORDS) - 1
SegmentPages(im, phdr) ==
  {im.root + (w \div WORDS) : w \in phdr.paddr..(SegmentEnd(phdr) - 1)}
FileWords(phdr) == phdr.paddr..(phdr.paddr + phdr.filesz - 1)

(* The pages whose entries vprotect may come by: those of the segment but  *)
(* the last; and where a loop runs on past the end of a table, the index   *)
(* begins anew, those as many pages before as the table is for.            *)
MayVisit(im, phdr) ==
  LET first == FirstPage(im, phdr)
      last  == LastPage(im, phdr)
  IN  {p \in Pages : p < last /\
         \/ p >= first
         \/ \E m \in 2..LEVELS : p + Span[m] < last /\ p \div Span[m] = first \div Span[m]}

(* The linker's part: segments share no word, the address of a word is in  *)
(* DT_RELR once, and code is not where vprotect of data may come by.       *)
ASSUME ImageAssumption ==
  /\ WORDS \in Nat \ {0}
  /\ \A im \in Images :
       /\ im.root \in Nat /\ im.relr \in Seq(RelrT)
       /\ im.segments \in Seq(PhdrT) /\ im.segments # <<>>
       /\ im.others \subseteq SUBSET {"write", "exec"}
       /\ \A i \in DOMAIN im.segments :
            LET s == im.segments[i] IN
            /\ s.filesz <= s.memsz /\ SegmentPages(im, s) \subseteq Pages
            /\ \A j \in DOMAIN im.segments \ {i} :
                 LET other == im.segments[j] IN
                 /\ FileWords(s) \intersect FileWords(other) = {}
                 /\ "exec" \in s.flags /\ "exec" \notin other.flags =>
                      SegmentPages(im, s) \intersect MayVisit(im, other) = {}
       /\ \A i, j \in DOMAIN im.relr :
            im.relr[i].kind = "address" /\ im.relr[j] = im.relr[i] => i = j

(* The table is for the page, among others.                                *)
IsFor(depth, base, t, page) == base[t] = page \div Span[depth[t] + 1]

(* Of a page of a segment, an entry forbids execution only if it is for    *)
(* one, too, that is not the segment's last.                               *)
Permissible(im, phdr, page, e, level) ==
  /\ "write" \in phdr.flags => e.write
  /\ "exec" \in phdr.flags /\ e.nx =>
       level > 1 /\ \E q \in FirstPage(im, phdr)..(LastPage(im, phdr) - 1) :
                      q \div Span[level] = page \div Span[level]

MapsImage(ts, depth, base, im) ==
  \A n \in DOMAIN im.segments, t \in DOMAIN ts :
    LET s == im.segments[n]
        Entry(p) == ts[t][(p \div Span[depth[t]]) % FAN]
    IN  /\ \A p \in SegmentPages(im, s) \union MayVisit(im, s) :
             IsFor(depth, base, t, p) => Entry(p).present
        /\ \A p \in SegmentPages(im, s) :
             IsFor(depth, base, t, p) => Permissible(im, s, p, Entry(p), depth[t])

(* The boot loader's part: its tables are a tree; they map the pages that  *)
(* vprotect comes by, and those of the image with all permissions.         *)
ASSUME MappedAssumption == \A ts \in BootTables :
  \E depth \in [DOMAIN ts -> 1..LEVELS] :
    /\ Leveled(ts, depth)
    /\ \A t \in DOMAIN ts \ {0} : \E u \in DOMAIN ts, i \in 0..(FAN - 1) :
         IsLink(ts[u][i], depth[u]) /\ ts[u][i].addr = t
    /\ \E base \in [DOMAIN ts -> Pages] :
         Direct(ts, depth, base) /\ \A im \in Images : MapsImage(ts, depth, base, im)

(* The kernel's part: it asks for no page of its image.                    *)
ASSUME OutsideAssumption == \A im \in Images, r \in Requests :
  \A n \in DOMAIN im.segments : \A p \in SegmentPages(im, im.segments[n]) : ~InGranule(p, r)

VARIABLES
  image,
  lpc,        \* "check", "rw", "copy", "flags", "relr", "kmain"; "hcf"
  segment,    \* the index of the header in hand
  memory      \* the image in memory, by word

load_vars == <<image, lpc, segment, memory>>
table_vars == <<cr3, stack, stage, call, added>>
image_vars == <<paging_vars, load_vars>>

Unset == [file |-> -1, bases |-> 0]

ImageInit ==
  /\ PagingInit
  /\ image \in Images /\ lpc = "check" /\ segment = 1 /\ memory = <<>>

-----------------------------------------------------------------------------
Lesser(a, b) == IF a < b THEN a ELSE b

(* The values of a loop's variable, which goes on to the next multiple.    *)
Steps(from, span, end) == {a \in from..(end - 1) : a = from \/ a % span = 0}

(* Where the loop for a level ends, begun at an entry of the level above.  *)
(* The one for the pages takes the address of two levels above.            *)
LoopEnd(level, above, last) ==
  Lesser(last, IF level = 1 THEN above.up + Span[2] ELSE above.addr + Span[level + 1])

(* The entries that vprotect comes by, for each level: [table, addr], and  *)
(* the address of the entry above. It goes below no large page.            *)
Visited(ts, root, base, last) ==
  LET visited[level \in 1..LEVELS] ==
        IF level = LEVELS
        THEN {[table |-> root, addr |-> a, up |-> a] : a \in Steps(base, Span[level], last)}
        ELSE UNION {LET e == ts[v.table][Index(v.addr, level + 1)] IN
                    {[table |-> e.addr, addr |-> a, up |-> v.addr] :
                       a \in IF e.ps \/ e.addr \notin DOMAIN ts THEN {}
                             ELSE Steps(v.addr, Span[level], LoopEnd(level, v, last))} :
                    v \in visited[level + 1]}
  IN  visited

(* vprotect of pages. The last one is left as it is. The bit that is meant *)
(* for writing is another, which changes nothing, so that of prot_flags    *)
(* there is PROT_EXEC.                                                     *)
Vprotect(base, page_count, prot_flags) ==
  LET visited == Visited(tables, cr3, base, base + page_count - 1)
      Comes(level, t, i) ==
        \E v \in visited[level] : v.table = t /\ Index(v.addr, level) = i
  IN  [t \in DOMAIN tables |-> [i \in 0..(FAN - 1) |->
        IF \E level \in 2..LEVELS : Comes(level, t, i)
        THEN [tables[t][i] EXCEPT !.nx = FALSE]
        ELSE IF Comes(1, t, i)
        THEN [tables[t][i] EXCEPT !.nx = "exec" \notin prot_flags]
        ELSE tables[t][i]]]

-----------------------------------------------------------------------------
Phdr == image.segments[segment]
base_rpa == Phdr.paddr \div WORDS
total_len == (SegmentEnd(Phdr) + WORDS - 1) \div WORDS - base_rpa
page_begin == image.root + base_rpa

LoadSize == CHOOSE n \in {SegmentEnd(image.segments[i]) : i \in DOMAIN image.segments} :
              \A i \in DOMAIN image.segments : SegmentEnd(image.segments[i]) <= n

(* The first loop, over all headers: those that load nothing, too.         *)
HeaderFlags == {image.segments[i].flags : i \in DOMAIN image.segments} \union image.others

CheckHeaders ==
  /\ lpc = "check"
  /\ IF \E flags \in HeaderFlags : {"write", "exec"} \subseteq flags
     THEN lpc' = "hcf" /\ UNCHANGED memory
     ELSE lpc' = "rw" /\ memory' = [w \in 0..(LoadSize - 1) |-> Unset]
  /\ UNCHANGED <<tables, table_vars, image, segment>>

MakeWritable ==
  /\ lpc = "rw"
  /\ tables' = Vprotect(page_begin, total_len, {"write"})
  /\ lpc' = "copy"
  /\ UNCHANGED <<table_vars, image, segment, memory>>

(* memcpy of what the file has; the rest of the segment is not cleared. *)
CopySegment ==
  /\ lpc = "copy"
  /\ memory' = [w \in DOMAIN memory |->
       IF w \in FileWords(Phdr)
       THEN [file |-> Phdr.offset + (w - Phdr.paddr), bases |-> 0]
       ELSE memory[w]]
  /\ lpc' = "flags"
  /\ UNCHANGED <<tables, table_vars, image, segment>>

(* Faulty variant: the flags are those of the copying. *)
KeepWritable ==
  /\ lpc = "flags"
  /\ tables' = Vprotect(page_begin, total_len, {"write"})
  /\ IF segment < Len(image.segments)
     THEN segment' = segment + 1 /\ lpc' = "rw"
     ELSE lpc' = "relr" /\ UNCHANGED segment
  /\ UNCHANGED <<table_vars, image, memory>>

SetSegmentFlags ==
  /\ lpc = "flags"
  /\ tables' = Vprotect(page_begin, total_len, Phdr.flags)
  /\ IF segment < Len(image.segments)
     THEN segment' = segment + 1 /\ lpc' = "rw"
     ELSE lpc' = "relr" /\ UNCHANGED segment
  /\ UNCHANGED <<table_vars, image, memory>>

(* The loop over DT_RELR: an address has the base added; of a bitmap,      *)
(* which is shifted before it is looked at, no bit is ever found set.      *)
Kstart ==
  /\ lpc = "relr"
  /\ memory' = [w \in DOMAIN memory |->
       [memory[w] EXCEPT !.bases = @ + Cardinality({i \in DOMAIN image.relr :
          image.relr[i].kind = "address" /\ image.relr[i].where = w})]]
  /\ lpc' = "kmain"
  /\ UNCHANGED <<tables, table_vars, image, segment>>

LoaderMapElf == CheckHeaders \/ MakeWritable \/ CopySegment \/ SetSegmentFlags

ImageNext ==
  \/ LoaderMapElf
  \/ Kstart
  \/ lpc = "kmain" /\ PagingNext /\ UNCHANGED load_vars

ImageSpec == ImageInit /\ [][ImageNext]_image_vars

-----------------------------------------------------------------------------
NamedBy(kind, w) == \E j \in DOMAIN image.relr : image.relr[j] = [kind |-> kind, where |-> w]

(* From its entry on, the kernel finds itself in memory as the linker made *)
(* it: its code may be executed and its data written, in every segment and *)
(* to the last page, and each word is that of the file, with the base      *)
(* added once if DT_RELR names it by its address and not at all if DT_RELR *)
(* does not name it. Neither the permissions of other segments, nor the    *)
(* change to tables of its own, nor what it adds to them takes that away.  *)
(* (The words of bitmaps, which _kstart leaves as they are by mistake, are *)
(* not spoken of: see the README.)                                         *)
ImageIsLoaded ==
  lpc = "kmain" =>
    \A i \in DOMAIN image.segments :
      LET s == image.segments[i] IN
      /\ \A p \in SegmentPages(image, s) : \E x \in Translate(tables, cr3, p) :
           /\ x.page = p
           /\ "exec" \in s.flags => ~x.nx
           /\ "write" \in s.flags => x.write
      /\ \A w \in FileWords(s) :
           /\ memory[w].file = s.offset + (w - s.paddr)
           /\ ~NamedBy("bitmap", w) =>
                memory[w].bases = IF NamedBy("address", w) THEN 1 ELSE 0
=============================================================================
