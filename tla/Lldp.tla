--------------------------------- MODULE Lldp ---------------------------------
(***************************************************************************)
(* parseLLDP of internal/sshprobe: the neighbors in the outputs of Cisco,  *)
(* Huawei and Junos devices.  A table is a "head" line, which tells whose  *)
(* it is, and rows, each the sequence of its words; the detailed Cisco     *)
(* output is a "field" line for each label, with a "dashes" line between   *)
(* neighbors.                                                              *)
(***************************************************************************)
EXTENDS Lines

CONSTANTS Digits,  \* words of digits only
          HwAddrs  \* words that are a hardware address

NoNeighbor == [local |-> None, name |-> None, port |-> None, id |-> None]

\* A name of several words, joined, is the sequence of them.
Join(words) == IF Len(words) = 1 THEN words[1] ELSE words

RowsAfterHead(text) ==
  SelectSeq(After(text, {"head"}), LAMBDA line : line.k = "row")

\* Mutant of CiscoRemote: the word after the hold time is the remote port.
CiscoRemoteNext(words, hold) == words[hold + 1]
CiscoRemote(words, hold) == words[Len(words)]

\* The first number is the hold time: the local port is before it, and the
\* name before that.
CiscoNeighbor(words) ==
  LET hold == SelectInSeq(words, LAMBDA w : w \in Digits)
  IN  IF Len(words) < 5 \/ hold < 3 \/ hold = Len(words) THEN NoNeighbor
      ELSE [NoNeighbor EXCEPT !.local = words[hold - 1],
                              !.name = Join(SubSeq(words, 1, hold - 2)),
                              !.port = CiscoRemote(words, hold)]

\* The hardware address, if there is one, tells where the port and the name
\* are; else they are the last two words.
JunosNeighbor(words) ==
  LET len == Len(words)
      at == SelectInSeq(Tail(words), LAMBDA w : w \in HwAddrs) + 1
      local == [NoNeighbor EXCEPT !.local = words[1]]
  IN  IF len < 3 THEN NoNeighbor
      ELSE IF at > 1 /\ at + 1 < len
        THEN [local EXCEPT !.id = words[at], !.port = words[at + 1],
                           !.name = Join(SubSeq(words, at + 2, len))]
      ELSE IF at > 1 /\ at + 1 = len
        THEN [local EXCEPT !.id = words[at], !.name = words[len]]
      ELSE [local EXCEPT !.id = IF at > 1 THEN words[at] ELSE None,
                         !.port = words[len - 1], !.name = words[len]]

HuaweiNeighbor(words) ==
  IF Len(words) < 3 THEN NoNeighbor
  ELSE [NoNeighbor EXCEPT !.local = words[1], !.name = words[2],
                          !.port = words[3]]

\* The neighbors of the rows that have one.
Table(text, make) ==
  SelectSeq(Mapped(LAMBDA line : CASE make = "cisco" -> CiscoNeighbor(line.words)
                                   [] make = "junos" -> JunosNeighbor(line.words)
                                   [] make = "huawei" -> HuaweiNeighbor(line.words),
                   RowsAfterHead(text)),
            LAMBDA n : n # NoNeighbor)

-----------------------------------------------------------------------------
(* The detailed Cisco output.                                              *)

\* labeledField: what follows the first label of that name.
Labeled(block, label) ==
  Captured(SelectSeq(block, LAMBDA l : l.k = "field" /\ l.label = label),
           "field", "value", None)

DetailNeighbor(block) ==
  LET n == [local |-> Labeled(block, "local intf"),
            name |-> Labeled(block, "system name"),
            port |-> Labeled(block, "port id"),
            id |-> Labeled(block, "chassis id")]
  IN  IF n.local = None /\ n.name = None THEN NoNeighbor ELSE n

\* splitLLDPBlocks, each block with the dashes before it.
DetailNeighbors(text) ==
  SelectSeq(Mapped(DetailNeighbor,
                   Blocks(<<[k |-> "dashes"]>> \o text, "dashes")),
            LAMBDA n : n # NoNeighbor)

-----------------------------------------------------------------------------
HeadOf(text) == Captured(text, "head", "of", None)

HasLabel(text, label) ==
  \E i \in DOMAIN text : text[i].k = "field" /\ text[i].label = label

ParseLLDP(text) ==
  IF HeadOf(text) = "cisco" THEN Table(text, "cisco")
  ELSE IF HasLabel(text, "local intf") /\ HasLabel(text, "system name")
    THEN DetailNeighbors(text)
  ELSE IF HeadOf(text) \in {"huawei", "junos"} THEN Table(text, HeadOf(text))
  ELSE <<>>
=============================================================================
