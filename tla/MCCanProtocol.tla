--------------------------- MODULE MCCanProtocol ---------------------------
EXTENDS CanProtocol

MCFrame(id, extended, pci, first) ==
    [id |-> id, is_extended |-> extended, data |-> <<pci, first, 12, 0, 0, 0, 0, 0>>]

\* The ends of every range the code compares with: bytes, first bytes of ISO-TP, ids.
MCBytes == {0, 1, 4, 5, 16, 63, 64, 79, 80, 127, 128, 255}
MCPcis  == 0..16 \cup {127, 255}
MCIds   == {0, 1791, 1792, 2014, 2015, 2016, 2024, 2047, 2048}

MCTraffic ==
    {MCFrame(id, FALSE, pci, 63) : id \in {2015, 2016}, pci \in MCPcis}
      \cup {MCFrame(id, FALSE, pci, first) : id \in {2015, 2024}, pci \in {1, 2}, first \in MCBytes}
      \cup {MCFrame(id, TRUE, 3, 34) : id \in MCIds}
      \cup {MCFrame(id, FALSE, 3, 34) : id \in MCIds \ {2048}}

\* Both ends of the range, services that are decoded and services that are not.
MCServices == {16, 17, 34, 39, 46, 52, 62, 63}
=============================================================================
