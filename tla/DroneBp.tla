------------------------------ MODULE DroneBp ------------------------------
(***************************************************************************)
(* The descriptors that the renderer generated from drone.bitproto and     *)
(* frame_header.bitproto: src/src/bitproto/drone_bp.c, drone_bp.h,         *)
(* frameheader_bp.c and frameheader_bp.h.                                  *)
(***************************************************************************)
EXTENDS Codec

Field(name, type) == BpMessageFieldDescriptor(name, type)

Timestamp == BpAlias(BpInt(64, 8))
ArrayTernaryInt32 == BpArray(FALSE, 3, 96, BpInt(32, 4))
TernaryInt32 == BpAlias(ArrayTernaryInt32)

Propeller == BpMessage(FALSE, 12,
  <<Field("id", BpUint(8, 1)), Field("status", BpEnum(2, 1)), Field("direction", BpEnum(2, 1))>>)

Power == BpMessage(FALSE, 11,
  <<Field("battery", BpUint(8, 1)), Field("status", BpEnum(2, 1)), Field("is_charging", BpBool)>>)

Network == BpMessage(FALSE, 68,
  <<Field("signal", BpUint(4, 1)), Field("heartbeat_at", Timestamp)>>)

LandingGear == BpMessage(FALSE, 2, <<Field("status", BpEnum(2, 1))>>)

Position == BpMessage(FALSE, 96,
  <<Field("latitude", BpInt(32, 4)), Field("longitude", BpInt(32, 4)),
    Field("altitude", BpInt(32, 4))>>)

Pose == BpMessage(FALSE, 96,
  <<Field("yaw", BpInt(32, 4)), Field("pitch", BpInt(32, 4)), Field("roll", BpInt(32, 4))>>)

Flight == BpMessage(FALSE, 288,
  <<Field("pose", Pose), Field("velocity", TernaryInt32), Field("acceleration", TernaryInt32)>>)

ArrayDrone4 == BpArray(FALSE, 4, 48, Propeller)

Drone == BpMessage(FALSE, 516,
  <<Field("status", BpEnum(3, 1)), Field("position", Position), Field("flight", Flight),
    Field("propellers", ArrayDrone4), Field("power", Power), Field("network", Network),
    Field("landing_gear", LandingGear)>>)

FrameHeader == BpMessage(FALSE, 32,
  <<Field("magic", BpUint(8, 1)), Field("version", BpEnum(3, 1)),
    Field("payload_type", BpEnum(5, 1)), Field("payload_length", BpUint(16, 2))>>)

Same(type, bytes) == [writer |-> type, reader |-> type, bytes |-> bytes]

\* EncodeX, DecodeX and JsonX of every message, with the BYTES_LENGTH_X of its buffer.
DroneMessages ==
  <<Same(Propeller, 2), Same(Power, 2), Same(Network, 9), Same(LandingGear, 1),
    Same(Position, 12), Same(Pose, 12), Same(Flight, 36), Same(Drone, 65)>>
FrameMessages == <<Same(FrameHeader, 4)>>
=============================================================================
