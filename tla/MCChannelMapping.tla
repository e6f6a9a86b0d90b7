-------------------------- MODULE MCChannelMapping --------------------------
(* TLC instance of ChannelMapping: one source and one sink of one or two   *)
(* channels.  The actions retarget a sink and repeat its channel, in an    *)
(* order that matters, take a channel from ALSA, and clear a channel.      *)
EXTENDS ChannelMapping

Sender(ch, in, ich) == [out |-> <<"sender", 1>>, ch |-> ch, in |-> in, ich |-> ich]
ToAlsa(a, in, ich) == [out |-> <<"alsa", a>>, ch |-> 1, in |-> in, ich |-> ich]
FromSink == <<"sink", 1>>

MCActions ==
  { <<ToAlsa(1, FromSink, 1), Sender(2, FromSink, 1)>>,
    <<Sender(1, <<"alsa", 1>>, 1), Sender(2, <<"none">>, 1)>> }

MCUuids == <<<<"sender", 1>>, <<"alsa", 1>>>>

MCFirst == <<0, 0>>
MCMaps == {<<0>>, <<0, 0>>}
=============================================================================
