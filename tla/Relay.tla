------------------------------- MODULE Relay --------------------------------
(***************************************************************************)
(* The bytes of one connection through the bridge: handle, handle_connect  *)
(* and handle_plain of bridge/src/serve.rs, read_head of http.rs,          *)
(* connect_inner of connector.rs and the SOCKS5 handshake of socks5.rs.    *)
(*                                                                         *)
(* A stream is a sequence of tokens, a token being a piece that no read    *)
(* needs to split; "end" is the piece that completes an empty line, so a   *)
(* payload may well contain it.  TCP delivers in order: what the bridge    *)
(* writes has reached the peer, and what a peer sends waits in a queue     *)
(* from which a read takes any part up to a chunk.                         *)
(***************************************************************************)
EXTENDS Integers, Sequences

CONSTANTS
  Scripts,   \* what a client may send: a head, then its payload
  Payload,   \* what the origin sends
  Chunk,     \* size of a read, 1024 bytes in read_head
  MaxHead    \* limit on a head, 16 KiB for a request and 8 KiB for a reply

ASSUME SizesAssumption == Chunk \in Nat \ {0} /\ MaxHead \in Nat \ {0}

Pieces ==
  {"line", "end"} \cup UNION {{s[i] : i \in 1 .. Len(s)} : s \in Scripts \cup {Payload}}
Statuses == {"200", "400", "408", "502"}
Words == Pieces \cup Statuses
         \cup {"greeting", "target", "CONNECT", "absolute-form", "origin-form",
               "method", "verdict", "bound", "status"}

\* A status is a word of the bridge's own, told apart from whatever the peers send.
ASSUME PiecesAssumption ==
  /\ Scripts \cup {Payload} \subseteq Seq(Pieces)
  /\ Statuses \cap Pieces = {}

VARIABLES
  kind,        \* the client's request: "connect" or "plain"
  way,         \* the route: "direct", "socks" or "http"
  script,      \* what this client sends
  stage,       \* where the handler is
  nSent,       \* how much of its script the client has sent
  fromClient,  \* sent by the client, not read yet
  clientEof,   \* the client has closed its sending half
  buf,         \* the buffer of read_head
  leftover,    \* Head::leftover
  upSent,      \* how much the upstream has sent of its reply and the payload
  fromUp,      \* sent by the upstream, not read yet
  upEof,       \* the upstream has closed its sending half
  pending,     \* Upstream::pending
  upGot,       \* everything written to the upstream
  clientGot    \* everything written to the client

peers == <<script, nSent, clientEof, upSent, upEof>>
fixed == <<kind, way>>
relayVars == <<kind, way, script, stage, nSent, fromClient, clientEof, buf, leftover,
          upSent, fromUp, upEof, pending, upGot, clientGot>>

RelayStages == {"head", "dial", "handshake", "open", "leftover", "pending", "copy",
           "done", "refused", "broken"}
Connected == {"handshake", "open", "leftover", "pending", "copy"}

\* What the upstream says before the origin's payload: a SOCKS5 server its choice of
\* method, its verdict and the bound address, an HTTP proxy the head of its answer.
UpReply ==
  CASE way = "socks" -> <<"method", "verdict", "bound">>
    [] way = "http" /\ kind = "connect" -> <<"status", "end">>
    [] OTHER -> <<>>
UpScript == UpReply \o Payload

\* What the bridge tells the upstream before the client's payload.
Handshake ==
  CASE way = "socks" -> <<"greeting", "target">>
    [] way = "http" /\ kind = "connect" -> <<"CONNECT">>
    [] OTHER -> <<>>

\* A plain request goes to an HTTP proxy as it is, to an origin in origin-form.
RequestLine == IF way = "http" THEN <<"absolute-form">> ELSE <<"origin-form">>
Opening == IF kind = "plain" THEN Handshake \o RequestLine ELSE Handshake

\* The end of the first head in a stream, 0 for none (find_terminator).
HeadEnd(s) ==
  IF \E i \in 1 .. Len(s) : s[i] = "end"
  THEN CHOOSE i \in 1 .. Len(s) : s[i] = "end" /\ \A j \in 1 .. i - 1 : s[j] # "end"
  ELSE 0

First(s, n) == SubSeq(s, 1, n)
After(s, n) == SubSeq(s, n + 1, Len(s))
AtMost(n, limit) == IF n < limit THEN n ELSE limit

\* The sizes of one read: no more than there is, no more than a chunk.
Reads(queue) == 1 .. AtMost(Len(queue), Chunk)

-----------------------------------------------------------------------------
(* The peers.                                                              *)

ClientSends ==
  /\ ~clientEof /\ nSent < Len(script)
  /\ nSent' = nSent + 1
  /\ fromClient' = Append(fromClient, script[nSent + 1])
  /\ UNCHANGED <<fixed, script, stage, clientEof, buf, leftover, upSent, fromUp, upEof,
                 pending, upGot, clientGot>>

ClientShuts ==
  /\ ~clientEof /\ clientEof' = TRUE
  /\ UNCHANGED <<fixed, script, stage, nSent, fromClient, buf, leftover, upSent, fromUp,
                 upEof, pending, upGot, clientGot>>

\* A SOCKS5 server gives its verdict when it has been told the target; the origin may
\* speak as soon as it is reached, and its first words may ride along with a reply.
UpSends ==
  /\ stage \in Connected /\ ~upEof /\ upSent < Len(UpScript)
  /\ UpScript[upSent + 1] = "verdict" => Len(upGot) >= 2
  /\ upSent' = upSent + 1
  /\ fromUp' = Append(fromUp, UpScript[upSent + 1])
  /\ UNCHANGED <<fixed, script, stage, nSent, fromClient, clientEof, buf, leftover, upEof,
                 pending, upGot, clientGot>>

UpShuts ==
  /\ stage \in Connected /\ ~upEof /\ upEof' = TRUE
  /\ UNCHANGED <<fixed, script, stage, nSent, fromClient, clientEof, buf, leftover, upSent,
                 fromUp, pending, upGot, clientGot>>

-----------------------------------------------------------------------------
(* The handler.                                                            *)

\* respond: the status is written, unless the client is gone.
Refuse(code) ==
  /\ stage' = "refused"
  /\ clientGot' = Append(clientGot, code) \/ UNCHANGED clientGot
  /\ UNCHANGED <<fixed, peers, fromClient, buf, leftover, fromUp, pending, upGot>>

\* read_head looks for the terminator first and for the limit only without one.
MayGoOn(all) == HeadEnd(all) # 0 \/ Len(all) < MaxHead

\* What if the bytes behind a request's head were thrown away with the buffer?
Leftover_Dropped(s) == <<>>

\* The bytes read past the end of a head.
Leftover(s) == After(s, HeadEnd(s))

\* read_head of the client: one read, then a look for the terminator.
HeadStep ==
  /\ stage = "head"
  /\ \E n \in Reads(fromClient) :
       LET all == buf \o First(fromClient, n)
       IN  /\ MayGoOn(all)
           /\ fromClient' = After(fromClient, n)
           /\ IF HeadEnd(all) = 0
              THEN buf' = all /\ UNCHANGED <<stage, leftover>>
              ELSE buf' = <<>> /\ leftover' = Leftover(all) /\ stage' = "dial"
  /\ UNCHANGED <<fixed, peers, fromUp, pending, upGot, clientGot>>

\* The head is cut short, too large or makes no sense (a failing read ends like a
\* timeout whose answer cannot be written).
HeadFails ==
  /\ stage = "head"
  /\ \/ fromClient = <<>> /\ clientEof
     \/ \E n \in Reads(fromClient) :
          LET all == buf \o First(fromClient, n)
          IN  HeadEnd(all) # 0 \/ ~MayGoOn(all)
  /\ Refuse("400")

HeadTooLate == stage = "head" /\ Refuse("408")

\* The TCP connection to the upstream or the origin.
Dial ==
  /\ stage = "dial"
  /\ stage' = IF Handshake = <<>> THEN "open" ELSE "handshake"
  /\ upGot' = IF Handshake = <<>> THEN <<>> ELSE <<Handshake[1]>>
  /\ UNCHANGED <<fixed, peers, fromClient, buf, leftover, fromUp, pending, clientGot>>

\* Every part of a SOCKS5 reply has a known length and is read exactly, the bound
\* address too, of which the bridge has no use.
SocksStep ==
  /\ stage = "handshake" /\ way = "socks" /\ fromUp # <<>>
  /\ fromUp' = Tail(fromUp)
  /\ upGot' = IF Head(fromUp) = "method" THEN Append(upGot, "target") ELSE upGot
  /\ stage' = IF Head(fromUp) = "bound" THEN "open" ELSE stage
  /\ UNCHANGED <<fixed, peers, fromClient, buf, leftover, pending, clientGot>>

\* What if the bytes behind a proxy's reply were thrown away?
Pending_Dropped(s) == <<>>

Pending(s) == After(s, HeadEnd(s))

\* read_head of the answer to CONNECT, which may bring the origin's first bytes.
ReplyStep ==
  /\ stage = "handshake" /\ way = "http"
  /\ \E n \in Reads(fromUp) :
       LET all == buf \o First(fromUp, n)
       IN  /\ MayGoOn(all)
           /\ fromUp' = After(fromUp, n)
           /\ IF HeadEnd(all) = 0
              THEN buf' = all /\ UNCHANGED <<stage, pending>>
              ELSE buf' = <<>> /\ pending' = Pending(all) /\ stage' = "open"
  /\ UNCHANGED <<fixed, peers, fromClient, leftover, upGot, clientGot>>

\* No connection, a refusal, a nonsense answer, an end too early, or the timeout
\* that spans the dial and the handshake.
DialFails == stage \in {"dial", "handshake"} /\ Refuse("502")

\* What if the handler went for the waiting bytes first and the 200 second?
Greet_Late ==
  /\ stage = "open" /\ stage' = "leftover"
  /\ IF kind = "connect"
     THEN clientGot' = pending \o <<"200">> /\ pending' = <<>> /\ UNCHANGED upGot
     ELSE upGot' = upGot \o RequestLine /\ UNCHANGED <<clientGot, pending>>
  /\ UNCHANGED <<fixed, peers, fromClient, buf, leftover, fromUp>>

\* A CONNECT is answered, a plain request is passed on.
Greet ==
  /\ stage = "open" /\ stage' = "leftover"
  /\ IF kind = "connect"
     THEN clientGot' = <<"200">> /\ UNCHANGED upGot
     ELSE upGot' = upGot \o RequestLine /\ UNCHANGED clientGot
  /\ UNCHANGED <<fixed, peers, fromClient, buf, leftover, fromUp, pending>>

RequestFails == stage = "open" /\ kind = "plain" /\ Refuse("502")

WriteLeftover ==
  /\ stage = "leftover" /\ stage' = "pending"
  /\ upGot' = upGot \o leftover /\ leftover' = <<>>
  /\ UNCHANGED <<fixed, peers, fromClient, buf, fromUp, pending, clientGot>>

WritePending ==
  /\ stage = "pending" /\ stage' = "copy"
  /\ clientGot' = clientGot \o pending /\ pending' = <<>>
  /\ UNCHANGED <<fixed, peers, fromClient, buf, leftover, fromUp, upGot>>

\* copy_bidirectional, one way and the other.
CopyUp ==
  /\ stage = "copy"
  /\ \E n \in Reads(fromClient) :
       /\ fromClient' = After(fromClient, n)
       /\ upGot' = upGot \o First(fromClient, n)
  /\ UNCHANGED <<fixed, peers, stage, buf, leftover, fromUp, pending, clientGot>>

CopyDown ==
  /\ stage = "copy"
  /\ \E n \in Reads(fromUp) :
       /\ fromUp' = After(fromUp, n)
       /\ clientGot' = clientGot \o First(fromUp, n)
  /\ UNCHANGED <<fixed, peers, stage, fromClient, buf, leftover, pending, upGot>>

\* Each direction ends with its end of file; the relay when both have.
Finish ==
  /\ stage = "copy" /\ clientEof /\ upEof /\ fromClient = <<>> /\ fromUp = <<>>
  /\ stage' = "done"
  /\ UNCHANGED <<fixed, peers, fromClient, buf, leftover, fromUp, pending, upGot, clientGot>>

\* Once the client has its 200, or the upstream its request, an error ends the
\* connection without a word.
Break ==
  /\ stage \in {"open", "leftover", "pending", "copy"}
  /\ stage = "open" => kind = "connect"
  /\ stage' = "broken"
  /\ UNCHANGED <<fixed, peers, fromClient, buf, leftover, fromUp, pending, upGot, clientGot>>

-----------------------------------------------------------------------------
RelayInit ==
  /\ kind \in {"connect", "plain"} /\ way \in {"direct", "socks", "http"}
  /\ script \in Scripts
  /\ stage = "head"
  /\ nSent = 0 /\ fromClient = <<>> /\ clientEof = FALSE
  /\ buf = <<>> /\ leftover = <<>>
  /\ upSent = 0 /\ fromUp = <<>> /\ upEof = FALSE
  /\ pending = <<>>
  /\ upGot = <<>> /\ clientGot = <<>>

Handler ==
  \/ HeadStep \/ HeadFails \/ HeadTooLate
  \/ Dial \/ SocksStep \/ ReplyStep \/ DialFails
  \/ Greet \/ RequestFails \/ WriteLeftover \/ WritePending
  \/ CopyUp \/ CopyDown \/ Finish \/ Break

RelayNext == ClientSends \/ ClientShuts \/ UpSends \/ UpShuts \/ Handler

RelaySpec == RelayInit /\ [][RelayNext]_relayVars

\* The task runs whenever it can, and neither peer stops reading for ever.  Nobody
\* promises that a relay breaks: it has no idle timeout (serve.rs:231-233), so one
\* that does not break has to deliver.
RelayFairSpec ==
  /\ RelaySpec
  /\ WF_relayVars(HeadStep \/ HeadFails \/ HeadTooLate)
  /\ WF_relayVars(Dial \/ SocksStep \/ ReplyStep \/ DialFails)
  /\ WF_relayVars(Greet \/ RequestFails \/ WriteLeftover \/ WritePending \/ Finish)
  /\ WF_relayVars(CopyUp) /\ WF_relayVars(CopyDown)

-----------------------------------------------------------------------------
(* Properties.                                                             *)

RelayTypeOK ==
  /\ kind \in {"connect", "plain"} /\ way \in {"direct", "socks", "http"}
  /\ script \in Scripts
  /\ stage \in RelayStages
  /\ nSent \in 0 .. Len(script) /\ upSent \in 0 .. Len(UpScript)
  /\ clientEof \in BOOLEAN /\ upEof \in BOOLEAN
  /\ {fromClient, buf, leftover, fromUp, pending, upGot, clientGot} \subseteq Seq(Words)
  /\ Len(buf) < MaxHead

\* What the client has sent behind its head, and what of it has reached the origin.
ClientPayload == IF HeadEnd(script) = 0 THEN <<>> ELSE SubSeq(script, HeadEnd(script) + 1, nSent)
OriginHas == After(upGot, Len(Opening))

\* What the origin has sent, and what of it has reached the client.
OriginPayload == SubSeq(UpScript, Len(UpReply) + 1, upSent)
ClientHas ==
  IF stage = "refused" THEN <<>> ELSE After(clientGot, IF kind = "connect" THEN 1 ELSE 0)

Failed == stage \in {"refused", "broken"}

Up == INSTANCE Channel WITH
  Tokens <- Words, sent <- ClientPayload, got <- OriginHas, broken <- Failed
Down == INSTANCE Channel WITH
  Tokens <- Words, sent <- OriginPayload, got <- ClientHas, broken <- Failed

\* Each direction is a channel: nothing is lost, repeated, reordered or mixed
\* with the bridge's own words, not even what came in one segment with the head
\* or with the proxy's reply; and unless the relay breaks all of it arrives.
BothWaysAreChannels == Up!Spec /\ Down!Spec

\* A client that asked for a tunnel hears the verdict first and once; an error status
\* is all that the refused client hears, never a word in the middle of a stream.
StatusComesFirst ==
  /\ RelayTypeOK
  /\ kind = "connect" /\ clientGot # <<>> => clientGot[1] \in Statuses
  /\ \A i \in 2 .. Len(clientGot) : clientGot[i] \notin Statuses
  /\ stage # "refused" /\ clientGot # <<>> /\ kind = "plain" => clientGot[1] \notin Statuses
=============================================================================
