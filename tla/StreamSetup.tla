----------------------------- MODULE StreamSetup -----------------------------
(***************************************************************************)
(* The stream EVENTS and the shipment process that sets it up: run of      *)
(* shipment/cmd/shipment/main.go up to its wait for a signal, newRedis,    *)
(* and EnsureStream of shipment/internal/messaging/connection.go.  The     *)
(* server's side of AddStream and UpdateStream is external.                *)
(***************************************************************************)
EXTENDS Naturals, Sequences, SequencesExt

CONSTANTS Shippers,       \* processes of the shipment service
          Env,            \* the build tag of each one
          Scheme,         \* SHIPMENT_REDIS_SCHEME
          RedisTLS,       \* whether the Redis server expects TLS
          Configs,        \* configurations an operator gives the stream
          NoStream,
          Faults,         \* the kinds of fault this instance considers
          MaxFaults       \* bound: faults in a behaviour

ASSUME SetupAssumption ==
  /\ \A c \in Configs : c.subjects # <<>> /\ c.storage \in {"file", "memory"}
  /\ NoStream \notin Configs
  /\ RedisTLS \in BOOLEAN /\ MaxFaults \in Nat

VARIABLES stream,         \* the configuration of EVENTS
          shipper,        \* the next call of each shipment process
          faults          \* faults that happened, or will not happen

setupVars == <<stream, shipper>>

Fault(f) == f \in Faults /\ faults < MaxFaults /\ faults' = faults + 1

NoFault == UNCHANGED faults

Captured(subject) == stream # NoStream /\ subject \in ToSet(stream.subjects)

expected(p) == [subjects |-> <<Env[p]>>, storage |-> "file", maxAge |-> 72]

ASSUME ExpectedAssumption == \A p \in Shippers : expected(p) # NoStream

(* equalSubjects: as many subjects, and those of b all in a. *)
equalSubjects(a, b) == Len(a) = Len(b) /\ ToSet(b) \subseteq ToSet(a)

(* Variant of Changed: the subjects are not compared, as in the inventory's *)
(* EnsureStream.                                                            *)
ChangedAge(p) == stream.maxAge # expected(p).maxAge

Changed(p) == \/ stream.maxAge # expected(p).maxAge
              \/ ~equalSubjects(stream.subjects, expected(p).subjects)

Next1(p, step) == shipper' = [shipper EXCEPT ![p] = step]

At(p, step) == shipper[p] = step

-----------------------------------------------------------------------------
StartShipper(p) == At(p, "down") /\ NoFault /\ Next1(p, "redis") /\ UNCHANGED stream

(* newRedis uses TLS when the scheme is "redis", then pings the server. *)
ShipperRedis(p) ==
  /\ At(p, "redis")
  /\ \/ NoFault /\ Next1(p, IF (Scheme = "redis") = RedisTLS THEN "nats" ELSE "down")
     \/ Fault("redis") /\ Next1(p, "down")
  /\ UNCHANGED stream

ShipperNATS(p) ==
  /\ At(p, "nats")
  /\ \/ NoFault /\ Next1(p, "info")
     \/ Fault("nats") /\ Next1(p, "down")
  /\ UNCHANGED stream

(* StreamInfo: any error is taken for a stream that does not exist. *)
StreamInfo(p) ==
  /\ At(p, "info")
  /\ \/ /\ NoFault /\ stream # NoStream
        /\ Next1(p, IF stream.storage # expected(p).storage THEN "down"
                    ELSE IF Changed(p) THEN "update" ELSE "up")
     \/ NoFault /\ stream = NoStream /\ Next1(p, "add")
     \/ Fault("nats") /\ Next1(p, "add")
  /\ UNCHANGED stream

(* UpdateStream replaces the whole configuration, read a call earlier. *)
UpdateStream(p) ==
  /\ At(p, "update")
  /\ \/ NoFault /\ stream' = expected(p) /\ Next1(p, "up")
     \/ Fault("nats") /\ stream' \in {stream, expected(p)} /\ Next1(p, "down")

(* AddStream accepts an existing stream only with the same configuration. *)
AddStream(p) ==
  /\ At(p, "add")
  /\ \/ /\ NoFault /\ stream \in {NoStream, expected(p)}
        /\ stream' = expected(p) /\ Next1(p, "up")
     \/ /\ NoFault /\ stream \notin {NoStream, expected(p)}
        /\ UNCHANGED stream /\ Next1(p, "down")
     \/ /\ Fault("nats") /\ Next1(p, "down")
        /\ \/ UNCHANGED stream
           \/ stream = NoStream /\ stream' = expected(p)

(* A signal ends the wait, and the process. *)
StopShipper(p) == At(p, "up") /\ NoFault /\ Next1(p, "down") /\ UNCHANGED stream

(* A deployment has some of the processes; the others are absent for good. *)
(* At most MaxFaults faults are left to happen.                            *)
SetupInit ==
  /\ stream \in Configs \cup {NoStream}
  /\ shipper \in [Shippers -> {"down", "absent"}]
  /\ faults \in 0..MaxFaults

SetupNext ==
  \E p \in Shippers :
    \/ StartShipper(p) \/ ShipperRedis(p) \/ ShipperNATS(p)
    \/ StreamInfo(p) \/ UpdateStream(p) \/ AddStream(p) \/ StopShipper(p)

-----------------------------------------------------------------------------
(* EnsuredWhenUp: when the shipment process comes up, the stream captures  *)
(* the subjects of its environment, whichever configuration it found and   *)
(* whatever became of an earlier attempt; only processes of different      *)
(* environments may take the stream from each other.                       *)
EnsuredWhenUp ==
  \A p \in Shippers :
    At(p, "up") /\ (\A q \in Shippers : Env[q] = Env[p]) => Captured(Env[p])
=============================================================================
