----------------------------- MODULE MCCacheSim -----------------------------
(* Cache hierarchies for TLC, each with accesses that make it replace lines: *)
(* a split first level over a set associative L2 with longer lines in front  *)
(* of the ORAM; a direct mapped data cache over a fully associative L2; a    *)
(* set associative data cache without an L2; a fully associative data cache  *)
(* over a direct mapped L2; and a data cache with lines twice as long as     *)
(* those of its L2.  Five ways take six lines to overflow.                   *)
EXTENDS CacheSim

Geometry(s, w, l) == [sets |-> s, ways |-> w, linesz |-> l]

MCHierarchies ==
  {[has |-> {"I", "D", "L2"}, oram |-> TRUE,
    I |-> Geometry(1, 1, 8), D |-> Geometry(2, 1, 8), L2 |-> Geometry(1, 2, 16),
    fetches |-> {0, 48}, loads |-> {0, 20, 32}, stores |-> {0, 8, 16, 32}, maxAccesses |-> 6],
   [has |-> {"D", "L2"}, oram |-> FALSE,
    I |-> Geometry(1, 1, 8), D |-> Geometry(1, 1, 8), L2 |-> Geometry(1, 5, 8),
    fetches |-> {}, loads |-> {0, 8, 16, 24, 32, 40}, stores |-> {0, 12}, maxAccesses |-> 7],
   [has |-> {"D"}, oram |-> FALSE,
    I |-> Geometry(1, 1, 8), D |-> Geometry(2, 2, 8), L2 |-> Geometry(1, 1, 8),
    fetches |-> {}, loads |-> {0, 8, 16}, stores |-> {0, 8, 20, 32, 40}, maxAccesses |-> 5],
   [has |-> {"D", "L2"}, oram |-> TRUE,
    I |-> Geometry(1, 1, 8), D |-> Geometry(1, 5, 8), L2 |-> Geometry(2, 1, 16),
    fetches |-> {}, loads |-> {0, 24, 32, 40}, stores |-> {0, 8, 16, 24}, maxAccesses |-> 7],
   [has |-> {"D", "L2"}, oram |-> FALSE,
    I |-> Geometry(1, 1, 8), D |-> Geometry(1, 1, 16), L2 |-> Geometry(1, 2, 8),
    fetches |-> {}, loads |-> {0, 32, 48}, stores |-> {0, 8, 16, 28}, maxAccesses |-> 7]}

=============================================================================
