------------------------------- MODULE SaisOmp -------------------------------
(***************************************************************************)
(* The sorts of libsais.c under OpenMP, whichever a call needs.            *)
(***************************************************************************)
EXTENDS SaisParallel, SaisCached, SaisWide

OmpNext == Next8u \/ Next32s \/ NextWide \/ Done
OmpSpec == ThreadsInit /\ [][OmpNext]_vars

Elem(t) == IF kind = "8u" THEN Elem8u(t) ELSE IF Wide THEN ElemWide(t) ELSE Elem32s(t)
Busy(t) == at[t] < IF kind = "8u" THEN Size8u(t) ELSE IF Wide THEN SizeWide(t) ELSE Size32s(t)

-----------------------------------------------------------------------------
\* No thread writes an entry, of SA, a table or the cache, that another one is
\* about to read or write.  The exception is the last entry of a block in
\* libsais_gather_lms_suffixes_8u_omp, which the next thread may spoil and its
\* owner repairs behind a barrier.
NoRaces ==
  \A t, u \in Threads :
    t # u /\ Busy(t) /\ Busy(u) /\ pc # "gather" =>
      DOMAIN Elem(t).writes \cap (Elem(u).reads \cup DOMAIN Elem(u).writes) = {}

\* What a thread caches finds room in its cache
\* (libsais_partial_sorting_scan_left_to_right_8u_omp and the other scans,
\* LIBSAIS_PER_THREAD_CACHE_SIZE).
CachesHold == \A t \in Threads : Len(th[t].cache) <= CacheSize

\* What is cached finds room, and no thread writes outside of the memory
\* of the sort.
CacheFits ==
  /\ CachesHold
  /\ \A t \in Threads : Busy(t) => DOMAIN Elem(t).writes \subseteq DOMAIN mem
=============================================================================
