------------------------------ MODULE Readers ------------------------------
(***************************************************************************)
(* The readers of single modules, each with the unit of the crate it reads *)
(* from: a digitizer read word by word (WordReaders), a digitizer read by  *)
(* DMA, a memory.  A behaviour reads one of the three units; the others    *)
(* stay as they are.                                                       *)
(***************************************************************************)
EXTENDS WordReaders

CONSTANTS Rsize, Ring, Limit, Requests, Window, Depths, Page, Areas

VARIABLES
  unit,
  \* DmaReaders
  dmaPc, dmaMp, dmaSegmentsize, dmaData, dmaQueue, dmaPos, dmaEvid,
  rd, busy, engine, todo, dmadata, clean,
  \* MemoryReaders
  memPc, memWordcnt, trigger, max, adptr, flagged, samples, depth, written,
  missing, map

dma == <<dmaPc, dmaMp, dmaSegmentsize, dmaData, dmaQueue, dmaPos, dmaEvid,
         rd, busy, engine, todo, dmadata, clean>>
memory == <<memPc, memWordcnt, trigger, max, adptr, flagged, samples, depth,
            written, missing, map>>
readersVars == <<unit, vars, dma, memory>>

Dma == INSTANCE DmaReaders WITH
  pc <- dmaPc, mp <- dmaMp, segmentsize <- dmaSegmentsize,
  data <- dmaData, queue <- dmaQueue, pos <- dmaPos, evid <- dmaEvid

Memory == INSTANCE MemoryReaders WITH pc <- memPc, wordcnt <- memWordcnt

ASSUME ReadersAssumption ==
  /\ BufferAssumption /\ WordsAssumption
  /\ Dma!RsizeAssumption /\ Memory!MemoryAssumption

ReadersInit == /\ unit \in {"words", "dma", "memory"}
               /\ Init /\ Dma!Init /\ Memory!Init

NextByWord == unit = "words" /\ Next /\ UNCHANGED <<unit, dma, memory>>

NextByDma == unit = "dma" /\ Dma!Next /\ UNCHANGED <<unit, vars, memory>>

NextMemory == unit = "memory" /\ Memory!Next /\ UNCHANGED <<unit, vars, dma>>

ReadersNext == NextByWord \/ NextByDma \/ NextMemory

ReadersSpec == ReadersInit /\ [][ReadersNext]_readersVars

----------------------------------------------------------------------------
(* Properties: those of the components.                                    *)

\* The variables hold values the code's variables can hold.
ReadersTypeOK == TypeOK /\ Dma!TypeOK /\ Memory!TypeOK

\* v785_dmasegdata gives words of one event, and all of it if the module was
\* found with one and no timeout came between.
DmaOneEvent == Dma!OneEvent

\* After a DMA, mp and the size of the segment are those of the halfwords
\* that were stored behind the segment's header, no more and no fewer.
DmaSizesRight == Dma!SizesRight

\* The samples read from the ring are the last before the trigger, in order.
LatestSamples == Memory!LatestSamples

\* Transfers cut into windows reach every word asked for once, and words behind
\* them only with the full size of a last window that is not full.
WindowsCover == Memory!WindowsCover

\* The mapped pages hold the DMA buffer.
PagesCover == Memory!PagesCover
===========================================================================
