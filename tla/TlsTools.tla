-------------------------------- MODULE TlsTools --------------------------------
(***************************************************************************)
(* The arithmetic of the two cores: how fragments() cuts a ClientHello, and *)
(* where the decoy of the Pattern core lies in the sequence space.  Bytes    *)
(* are positions; a ClientHello is its length, whether it is a TLS handshake *)
(* record, and where the host name stands in it (none, or start and length, *)
(* what locate_sni returns).                                                *)
(***************************************************************************)
EXTENDS Integers, Sequences, FiniteSets

CONSTANTS MaxHello,   \* bound on the length of a ClientHello
          Modulus     \* of TCP sequence numbers, 2^32 in the code

ASSUME SequenceAssumption == Modulus \in Nat \ {0}
ASSUME HelloAssumption == MaxHello \in Nat

Larger(a, b) == IF a > b THEN a ELSE b
Smaller(a, b) == IF a < b THEN a ELSE b

Header == 5
NoName == [start |-> 0, len |-> 0]
Strategy == {"half", "multi", "full5", "sni_split", "sni_boundary", "sni_chars",
             "tls_record_frag", "tls_sni_records", "raw"}

\* locate_sni: a name lies behind the record header and inside the record.
Hellos ==
  {h \in [len : 0..MaxHello, tls : BOOLEAN,
          sni : {NoName} \cup [start : (Header + 1)..MaxHello, len : 1..MaxHello]] :
     h.sni # NoName => h.tls /\ h.sni.start + h.sni.len <= h.len}

\* A piece [from, to) of the data, sent as it is or behind a record header of its own.
Piece(from, to) == [from |-> from, to |-> to, record |-> FALSE]
Record(from, to) == [from |-> from, to |-> to, record |-> TRUE]
CutAt(n, cut) == <<Piece(0, cut), Piece(cut, n)>>

\* The mutated form: the last, shorter chunk is forgotten.
ChunksFloor(n, size) ==
  [i \in 1..(n \div size) |-> Piece((i - 1) * size, i * size)]

Chunks(n, size) ==
  [i \in 1..((n + size - 1) \div size) |-> Piece((i - 1) * size, Smaller(n, i * size))]

\* The mutated form: the name is cut where it begins, without the clamp and the half.
SniCutAtStart(h, how) == h.sni.start

SniCut(h, how) ==
  Larger(1, Smaller(h.len - 1,
    h.sni.start + (IF how = "sni_split" THEN Larger(1, h.sni.len \div 2) ELSE 0)))

SniChars(h) ==
  LET n == h.sni.len
      chars == [i \in 1..n |-> Piece(h.sni.start + i - 1, h.sni.start + i)]
  IN <<Piece(0, h.sni.start)>> \o chars
       \o (IF h.sni.start + n < h.len THEN <<Piece(h.sni.start + n, h.len)>> ELSE <<>>)

RecordCut(h, how) ==
  LET payload == h.len - Header
  IN IF how = "tls_sni_records" /\ h.sni # NoName
       THEN Larger(1, Smaller(payload - 1, h.sni.start - Header))
       ELSE Larger(1, payload \div 2)

Fragments(h, how, chunk) ==
  CASE h.len < 2 -> <<Piece(0, h.len)>>
    [] h.len >= 2 /\ how = "half" -> CutAt(h.len, Larger(1, h.len \div 2))
    [] h.len >= 2 /\ how \in {"multi", "full5"} ->
         Chunks(h.len, IF how = "full5" THEN 5 ELSE Larger(1, chunk))
    [] h.len >= 2 /\ how \in {"sni_split", "sni_boundary"} /\ h.sni # NoName ->
         CutAt(h.len, SniCut(h, how))
    [] h.len >= 2 /\ how = "sni_chars" /\ h.sni # NoName -> SniChars(h)
    [] h.len > Header /\ how \in {"tls_record_frag", "tls_sni_records"} /\ h.tls ->
         LET cut == Header + RecordCut(h, how)
         IN <<Record(Header, cut), Record(cut, h.len)>>
    [] OTHER -> <<Piece(0, h.len)>>

\* Whatever the data, the strategy and the chunk size, the pieces are the data:
\* nothing is lost, doubled, reordered or empty (fragments), but for a record
\* of a single payload byte, whose second half is empty.
PiecesKeepData ==
  \A h \in Hellos, s \in Strategy, chunk \in 0..3 :
    LET p == Fragments(h, s, chunk)
        n == Len(p)
    IN /\ n > 0 /\ p[1].from = (IF p[1].record THEN Header ELSE 0) /\ p[n].to = h.len
       /\ \A i \in 1..(n - 1) : p[i].to = p[i + 1].from
       /\ (h.len > 0 /\ h.len # Header + 1) => \A i \in 1..n : p[i].from < p[i].to

\* The strategies named for the host name never send a name of two bytes or more
\* in one piece, and tls_sni_records keeps all of it out of the first record.
NameDivided ==
  \A h \in Hellos : h.sni.len >= 2 =>
    /\ \A s \in {"sni_split", "sni_chars"}, chunk \in 0..1 :
         LET p == Fragments(h, s, chunk)
         IN \A i \in 1..Len(p) :
              ~(p[i].from <= h.sni.start /\ h.sni.start + h.sni.len <= p[i].to)
    /\ Fragments(h, "tls_sni_records", 1)[1].to <= h.sni.start

-----------------------------------------------------------------------------
\* The mutated form: the decoy takes the place of the first data.
DecoySeqInWindow(syn, len) == (syn + 1) % Modulus

\* _fake_send: the sequence number of a decoy of len bytes.
DecoySeq(syn, len) == (syn + 1 - len) % Modulus

\* Wherever the sequence numbers wrap, no byte of the decoy lies in the window
\* that the edge has opened behind the handshake, and the last one lies right
\* before it: the edge must answer it and may not accept it.
DecoyOutside ==
  \A syn \in 0..(Modulus - 1), len \in 1..(Modulus \div 2) :
    LET offset(i) == (DecoySeq(syn, len) + i - (syn + 1)) % Modulus
    IN /\ \A i \in 0..(len - 1) : offset(i) >= Modulus \div 2
       /\ offset(len) = 0
=============================================================================
