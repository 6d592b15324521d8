---------------------------- MODULE Negotiation ----------------------------
(***************************************************************************)
(* What one end of a one-to-one call knows of the channels of the call     *)
(* (wrtc::interfaces::ContentNegotiationContext), as a value, and how an   *)
(* offer, an answer and a crossing offer change it.                        *)
(*                                                                         *)
(* A channel is named by its ssrc. Codecs, extensions and the order of the *)
(* sections of a description are left out: an answer takes every channel   *)
(* of its offer.                                                           *)
(***************************************************************************)
EXTENDS Integers, Sequences

\* An offer or an answer: NegotiationContents.
Contents(exchange, ssrcs) == [exchange |-> exchange, ssrcs |-> ssrcs]

\* A context whose own channels were added.
NewContext(channels) ==
  [own       |-> channels,     \* outgoing_channel_descriptions_
   need      |-> TRUE,         \* need_negotiation_
   exchanges |-> 0,            \* offers made, which number their exchanges
   pending   |-> <<>>,         \* pending_outgoing_offer_: its exchange
   confirmed |-> {},           \* outgoing_channels_
   incoming  |-> {}]           \* incoming_channels_

\* What an operation leaves and what it sends, <<>> or one message.
Result(context, sent) == [context |-> context, sent |-> sent]

\* get_pending_offer of the end called by: all own channels, when there is something
\* to negotiate and no offer waits for its answer.
GetPendingOffer(c, by) ==
  IF ~ c.need \/ c.pending # <<>> THEN Result(c, <<>>)
  ELSE LET exchange == <<by, c.exchanges + 1>>
       IN  Result([c EXCEPT !.need = FALSE, !.exchanges = @ + 1, !.pending = <<exchange>>],
                  <<Contents(exchange, c.own)>>)

\* get_answer: all channels of the offer come in, whoever they belong to.
GetAnswer(c, offer) == Result([c EXCEPT !.incoming = offer.ssrcs], <<offer>>)

\* set_answer: the own channels that the answer has are confirmed.
SetAnswer(c, answer) ==
  [c EXCEPT !.pending = <<>>, !.confirmed = c.own \cap answer.ssrcs]

\* set_pending_answer: an answer is known by its exchange, and only while its offer is
\* pending; of two offers that cross, the one of the caller stays.
SetPendingAnswer(c, outgoing, contents) ==
  IF c.pending = <<contents.exchange>> THEN Result(SetAnswer(c, contents), <<>>)
  ELSE IF c.pending = <<>> \/ ~ outgoing
       THEN GetAnswer([c EXCEPT !.pending = <<>>], contents)
       ELSE Result(c, <<>>)

\* coordinated_state.
CoordinatedState(c) ==
  [outgoing |-> c.own \cap c.confirmed, incoming |-> c.incoming]

=============================================================================
