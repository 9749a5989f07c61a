---------------------------- MODULE MCRestoFloor ----------------------------
\* RestoFloor with symmetric rows and handlers.
EXTENDS RestoFloor, TLC

FloorSymmetry ==
  Permutations(Tables) \cup Permutations(Orders) \cup Permutations(Bookings)
    \cup Permutations(Handlers)
=============================================================================
