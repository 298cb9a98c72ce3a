---------------------------- MODULE MCMediaImport ----------------------------
(* Small instances of MediaImport for TLC. *)
EXTENDS MediaImport

CONSTANTS i1, i2, g1, g2, n1, n2

Seen(state, full, fits) == [state |-> state, full |-> full, stamped |-> FALSE, fits |-> fits]

\* A torrent that downloads, seeds, and seeds from another place.  qBittorrent
\* gives no completion time: the monitor's clock is the only one.
SomeViews == {Seen("downloading", FALSE, TRUE), Seen("uploading", TRUE, TRUE),
              Seen("uploading", TRUE, FALSE)}
==============================================================================
