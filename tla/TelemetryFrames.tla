--------------------------- MODULE TelemetryFrames ---------------------------
(***************************************************************************)
(* The frames a simulator controller writes to the agent's Unix socket:    *)
(* simulator/controller/robot_controller.py encodes them, and              *)
(* robot-agent/src/telemetry.rs decodes them.                              *)
(*                                                                         *)
(* A frame is a sequence of 32-bit big-endian words: the length of the     *)
(* payload in bytes, then the payload.  An i64 or an f64 is two words, an  *)
(* f64 is known by its bit pattern.  Offsets are in bytes, as in the code. *)
(***************************************************************************)
EXTENDS Naturals, Sequences, SequencesExt

CONSTANTS
    WordBase,       \* number of values of a word, 2^32 in the code
    NS_PER_SEC,     \* nanoseconds in a second, 10^9 in the code
    MAX_PAYLOAD,    \* the longest payload the agent reads
    JOINT_NAMES,    \* the joints the agent knows, in order
    NoFrame         \* None

\* A TelemetryFrame message.
JointNames == {JOINT_NAMES[i] : i \in DOMAIN JOINT_NAMES} \cup {"unknown"}
TelemetryFrame == [recorded_at : [seconds : Nat, nanos : Nat],
                   joints : Seq([name : JointNames, position_rad : Nat, torque_nm : Nat])]

ASSUME WordAssumption == WordBase \in Nat \ {0, 1} /\ NS_PER_SEC \in Nat \ {0}
ASSUME FramesAssumption == JOINT_NAMES \in Seq(STRING) /\ NoFrame \notin TelemetryFrame

BE64(v) == <<v \div WordBase, v % WordBase>>

\* The 64-bit value at byte offset off.
Word64(payload, off) == payload[off \div 4 + 1] * WordBase + payload[off \div 4 + 2]

\* _encode_frame: length, time stamp, number of joints, all positions, all torques.
encode_frame(timestamp_ns, positions, torques) ==
    LET block(values) == FlattenSeq([i \in DOMAIN values |-> BE64(values[i])])
        payload == BE64(timestamp_ns) \o <<Len(positions)>>
                     \o block(positions) \o block(torques)
    IN  <<4 * Len(payload)>> \o payload

\* Mutant: every position is followed by its torque.
parse_frame_interleaved(payload) ==
    [recorded_at |-> [seconds |-> Word64(payload, 0) \div NS_PER_SEC,
                      nanos   |-> Word64(payload, 0) % NS_PER_SEC],
     joints |-> [i \in 1 .. payload[3] |->
                   [name         |-> IF i <= Len(JOINT_NAMES) THEN JOINT_NAMES[i] ELSE "unknown",
                    position_rad |-> Word64(payload, 12 + (i - 1) * 16),
                    torque_nm    |-> Word64(payload, 20 + (i - 1) * 16)]]]

parse_frame(payload) ==
    LET timestamp_ns == Word64(payload, 0)
        joint_count == payload[8 \div 4 + 1]
        pos_off(i) == 12 + i * 8
        tor_off(i) == 12 + joint_count * 8 + i * 8
    IN  IF 4 * Len(payload) < 12 \/ 4 * Len(payload) < 12 + joint_count * 8 * 2
          THEN NoFrame
          ELSE [recorded_at |-> [seconds |-> timestamp_ns \div NS_PER_SEC,
                                 nanos   |-> timestamp_ns % NS_PER_SEC],
                joints |->
                  [i \in 1 .. joint_count |->
                     [name |-> IF i <= Len(JOINT_NAMES) THEN JOINT_NAMES[i] ELSE "unknown",
                      position_rad |-> Word64(payload, pos_off(i - 1)),
                      torque_nm    |-> Word64(payload, tor_off(i - 1))]]]

\* The reader task takes the frame at the head of the socket; a payload of length 0,
\* or longer than MAX_PAYLOAD, ends it.
LengthAccepted(frame) == frame[1] \in 1 .. MAX_PAYLOAD
Payload(frame) == SubSeq(frame, 2, 1 + frame[1] \div 4)

=============================================================================
