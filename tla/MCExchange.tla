----------------------------- MODULE MCExchange -----------------------------
(***************************************************************************)
(* Instances of Exchange: the telemetry events the upload functions fill,  *)
(* over three floats (one of them is -0.0, whose bytes are not all zero);  *)
(* "sample", a message with every other field type nanopb has; "nested",   *)
(* submessages and a callback whose function may write another number of   *)
(* bytes on the second pass.                                               *)
(***************************************************************************)
EXTENDS Exchange

Zero == <<0, 0, 0, 0>>
MinusZero == <<0, 0, 0, 128>>
One == <<0, 0, 128, 63>>
MinusOne == AllBits

TelemetryEvents ==
  {uploadUltrasonic(f, One, b) : f \in {Zero, MinusZero, One}, b \in {Zero, One}}
  \union {uploadImuAccel(Zero, Zero, Zero), uploadImuGyro(One, MinusZero, Zero), uploadEncoder(Zero, One)}
  \union {uploadOrientation(o) : o \in {0, 3}} \union {uploadSpeed(2)}
  \union {uploadShutdownStatus(b) : b \in BOOLEAN}
  \union {uploadMainData(<<One, Zero>>, <<One, One, One, Zero, One, One>>, x, o) :
            x \in {Zero, One}, o \in {Groups(1), Low32(MinusOne)}}

Static(tag, rule, type, size, max) == Field(tag, rule, type, size, max, <<>>, "static")
PairDesc == <<Static(1, "singular", "svarint", 4, 1), Static(2, "singular", "uvarint", 8, 1)>>

SampleDesc ==
  <<Static(1, "required", "varint", 4, 1), Static(2, "singular", "string", 3, 1),
    Static(3, "repeated", "uvarint", 4, 2), Static(4, "repeated", "string", 3, 2),
    Static(5, "oneof", "fixed64", 8, 1), Field(6, "oneof", "submsg", 0, 1, PairDesc, "static"),
    Static(7, "singular", "bytes", 4, 1), Static(8, "singular", "fixedbytes", 1, 1),
    Static(9, "fixarray", "varint", 4, 2), Static(20, "repeated", "fixed32", 4, 1),
    Field(21, "repeated", "submsg", 0, 2, PairDesc, "static")>>

Pair(a, b) == (0 :> 0) @@ (1 :> a) @@ (2 :> b)
Base == [ZeroStruct(SampleDesc) EXCEPT ![8] = <<7>>]
SampleMessages ==
  {Base,
   [Base EXCEPT ![1] = MinusOne, ![2] = <<65, 66>>, ![3] = <<Groups(300), Low32(MinusOne)>>],
   [Base EXCEPT ![2] = <<65, 66, 67>>],                       \* no room for its end
   [Base EXCEPT ![3] = <<NoBits, NoBits>>, ![4] = <<<<65>>, <<>>>>, ![7] = <<0, 255>>],
   [Base EXCEPT ![0] = 5, ![5] = <<1, 2, 3, 4, 5, 6, 7, 128>>, ![9] = <<MinusOne, Groups(5)>>],
   [Base EXCEPT ![0] = 6, ![6] = Pair(MinusOne, MinusOne), ![20] = <<One>>],
   [Base EXCEPT ![21] = <<Pair(Groups(200), NoBits), Pair(NoBits, Groups(128))>>]}

InnerDesc == <<Enum(1), Field(3, "repeated", "varint", 4, 1, <<>>, "callback")>>
NestedDesc == <<Sub(1, InnerDesc), Field(2, "singular", "submsg", 0, 1, PairDesc, "static"),
                Static(3, "singular", "bool", 1, 1)>>
Nested(v, cb, p, b) ==
  (0 :> 0) @@ (1 :> [has |-> TRUE, val |-> (0 :> 0) @@ (1 :> v) @@ (3 :> cb)])
           @@ (2 :> p) @@ (3 :> b)
\* packed <<1>> and <<1, 1>> of field 3; the third function changes its mind
Callbacks == {<<>>, <<<<26, 1, 1>>, <<26, 1, 1>>>>, <<<<26, 2, 1, 1>>, <<26, 1, 1>>>>,
              <<<<26, 1, 1>>, <<26, 2, 1, 1>>>>}
NestedMessages == {Nested(v, cb, p, b) : v \in {NoBits, Groups(130)}, cb \in Callbacks,
                     p \in {Pair(NoBits, NoBits), Pair(Groups(64), NoBits)}, b \in BOOLEAN}

MCKinds == {"telemetry", "sample", "nested"}
MCDesc == [telemetry |-> pb_TelemetryEvent_fields, sample |-> SampleDesc, nested |-> NestedDesc]
MCReaders ==
  [telemetry |-> [same  |-> pb_TelemetryEvent_fields,
                  older |-> SelectSeq(pb_TelemetryEvent_fields,
                                      LAMBDA f : f.tag \notin {TEL_US, TEL_CMD})],
   sample    |-> [same  |-> SampleDesc,
                  older |-> SelectSeq(SampleDesc, LAMBDA f : f.tag \in {1, 6, 9})],
   nested    |-> [same  |-> NestedDesc]]
MCMessages == [telemetry |-> TelemetryEvents, sample |-> SampleMessages, nested |-> NestedMessages]
MCRooms == [telemetry |-> {EventBuffer}, sample |-> {12, 40}, nested |-> {7, 10, 20}]
MCModes == [telemetry |-> {"plain"}, sample |-> {"plain", "delimited", "nullterminated"},
               nested    |-> {"plain", "delimited"}]
=============================================================================
