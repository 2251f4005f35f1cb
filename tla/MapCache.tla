------------------------------ MODULE MapCache ------------------------------
(***************************************************************************)
(* The polar-to-Cartesian maps of a sonar, cached twice: by the feature    *)
(* extraction node, which rebuilds them when the geometry of a ping        *)
(* changes (generate_map_xy), and on the GPU, where remap_u8_cuda keeps    *)
(* the pair it last uploaded under a key of version, size and host         *)
(* addresses.  The device side is shared by all consumers of a process.    *)
(*                                                                         *)
(* A geometry is the size of its maps and what else they depend on.  What  *)
(* a buffer holds is the geometry it was computed for and the axis, or     *)
(* Junk.  Images and kernels are left out: an image is the pair of maps it *)
(* was sampled through.                                                    *)
(***************************************************************************)
EXTENDS Integers, FiniteSetsExt

CONSTANTS
  Consumers,   \* nodes of the process that remap
  Sizes,       \* sizes of maps
  Patterns,    \* range offsets and bearing vectors that share a size
  Addresses,   \* of host buffers; the allocator recycles them
  MaxRebuilds, \* bound on rebuilds, of all consumers together
  Null, Junk

Geometry == [size : Sizes, pattern : Patterns]
Content  == [of : Geometry, axis : {"x", "y"}]
Places   == [x : Addresses, y : Addresses]

ASSUME CacheAssumption ==
  /\ Sizes \subseteq Nat \ {0} /\ MaxRebuilds \in Nat
  /\ Null \notin Addresses \cup Geometry \cup Content \cup Places

VARIABLES
  geom,      \* res_, range_min_, rows_, cols_, bearings_ of each consumer
  maps,      \* where its map_x_ and map_y_ are
  version,   \* its map_version_
  heap,      \* what the host buffers hold, Null if free
  key,       \* cached_version, cached_rows and _cols, cached_mx, cached_my
  device,    \* what mx_buf and my_buf hold
  capacity,  \* their size
  disabled,  \* g_disabled
  at,        \* where each consumer is in callback
  ping,      \* the geometry of the ping it handles
  image      \* the maps its last image was sampled through

host == <<geom, maps, version, heap>>
gpu  == <<key, device, capacity, disabled>>
hostVars == <<geom, maps, version, heap, key, device, capacity, disabled,
          at, ping, image>>

Pair(g)  == [x |-> [of |-> g, axis |-> "x"], y |-> [of |-> g, axis |-> "y"]]
NoPair   == [x |-> Junk, y |-> Junk]
NoKey    == [version |-> -1, size |-> 0, x |-> Null, y |-> Null]

HostInit ==
  /\ geom = [c \in Consumers |-> Null] /\ maps = [c \in Consumers |-> Null]
  /\ version = [c \in Consumers |-> 0]
  /\ heap = [a \in Addresses |-> Null]
  /\ key = NoKey /\ device = NoPair /\ capacity = 0 /\ disabled = FALSE
  /\ at = [c \in Consumers |-> "idle"]
  /\ ping = [c \in Consumers |-> Null] /\ image = [c \in Consumers |-> Null]

----------------------------------------------------------------------------
(* The host side: callback and generate_map_xy.                            *)

\* A ping whose geometry is cached.
CacheHit(c, g) ==
  /\ at[c] = "idle" /\ geom[c] = g
  /\ at' = [at EXCEPT ![c] = "remap"]
  /\ ping' = [ping EXCEPT ![c] = g]
  /\ UNCHANGED <<host, gpu, image>>

\* Mutant: the version is not bumped.
RebuildSameVersion(c, g, x, y) ==
  /\ at[c] = "idle" /\ geom[c] # g
  /\ x # y /\ heap[x] = Null /\ heap[y] = Null
  /\ heap' = [a \in Addresses |->
                CASE a = x -> Pair(g).x [] a = y -> Pair(g).y
                  [] maps[c] # Null /\ a \in {maps[c].x, maps[c].y} -> Null
                  [] OTHER -> heap[a]]
  /\ maps' = [maps EXCEPT ![c] = [x |-> x, y |-> y]]
  /\ geom' = [geom EXCEPT ![c] = g]
  /\ at' = [at EXCEPT ![c] = "remap"]
  /\ ping' = [ping EXCEPT ![c] = g]
  /\ UNCHANGED <<version, gpu, image>>

RebuildCount == MapThenSumSet(LAMBDA c : version[c], Consumers)

\* A new geometry: the maps are built in new buffers, then take the place of
\* the old ones, which are freed.
Rebuild(c, g, x, y) ==
  /\ at[c] = "idle" /\ geom[c] # g /\ RebuildCount < MaxRebuilds
  /\ x # y /\ heap[x] = Null /\ heap[y] = Null
  /\ heap' = [a \in Addresses |->
                CASE a = x -> Pair(g).x [] a = y -> Pair(g).y
                  [] maps[c] # Null /\ a \in {maps[c].x, maps[c].y} -> Null
                  [] OTHER -> heap[a]]
  /\ maps' = [maps EXCEPT ![c] = [x |-> x, y |-> y]]
  /\ geom' = [geom EXCEPT ![c] = g]
  /\ version' = [version EXCEPT ![c] = @ + 1]
  /\ at' = [at EXCEPT ![c] = "remap"]
  /\ ping' = [ping EXCEPT ![c] = g]
  /\ UNCHANGED <<gpu, image>>

\* The maps are too large to allocate: the ping is dropped.
Oversized(c, g) ==
  /\ at[c] = "idle" /\ geom[c] # g
  /\ UNCHANGED hostVars

\* The callback is done, after no, one or several images.
Return(c) ==
  /\ at[c] = "remap"
  /\ at' = [at EXCEPT ![c] = "idle"]
  /\ ping' = [ping EXCEPT ![c] = Null] /\ image' = [image EXCEPT ![c] = Null]
  /\ UNCHANGED <<host, gpu>>

----------------------------------------------------------------------------
(* remap_u8.                                                               *)

HostMaps(c) == [x |-> heap[maps[c].x], y |-> heap[maps[c].y]]

\* gpu::available is asked first, without a lock.
Enter(c) ==
  /\ at[c] = "remap" /\ ~disabled
  /\ at' = [at EXCEPT ![c] = "gpu"]
  /\ UNCHANGED <<host, gpu, ping, image>>

\* cv::remap, through the maps of the host.
OnHost(c) ==
  /\ image' = [image EXCEPT ![c] = HostMaps(c)]
  /\ at' = [at EXCEPT ![c] = "remap"]
  /\ UNCHANGED <<host, ping>>

Disabled(c) == at[c] = "remap" /\ disabled /\ OnHost(c) /\ UNCHANGED gpu

----------------------------------------------------------------------------
(* remap_u8_cuda: the whole call holds the mutex.                          *)

\* ensure_all: a buffer cannot grow.  All are released, the key is void, and
\* the GPU is given up for good.
OutOfMemory(c) ==
  /\ at[c] = "gpu" /\ OnHost(c)
  /\ key' = [key EXCEPT !.version = -1, !.x = Null, !.y = Null]
  /\ device' = NoPair /\ capacity' = 0 /\ disabled' = TRUE

Size(c) == geom[c].size

\* The buffers as ensure_all leaves them: those that grew hold nothing yet.
Ensured(c) == IF Size(c) > capacity THEN NoPair ELSE device

Cached(c) ==
  key = [version |-> version[c], size |-> Size(c),
         x |-> maps[c].x, y |-> maps[c].y]

\* An upload of the maps fails, the first or the second.
UploadFails(c) ==
  /\ at[c] = "gpu" /\ ~Cached(c) /\ OnHost(c)
  /\ key' = [key EXCEPT !.version = -1]
  /\ device' \in {[x |-> Junk, y |-> Ensured(c).y],
                  [x |-> HostMaps(c).x, y |-> Junk]}
  /\ capacity' = IF Size(c) > capacity THEN Size(c) ELSE capacity
  /\ UNCHANGED disabled

\* The maps are on the device, from this call or an earlier one; the kernel
\* samples through them, unless it or a copy of the image fails.
SampleFrame(c) ==
  /\ at[c] = "gpu"
  /\ device' = IF Cached(c) THEN Ensured(c) ELSE HostMaps(c)
  /\ key' = [version |-> version[c], size |-> Size(c),
             x |-> maps[c].x, y |-> maps[c].y]
  /\ capacity' = IF Size(c) > capacity THEN Size(c) ELSE capacity
  /\ \/ OnHost(c)
     \/ /\ image' = [image EXCEPT ![c] = device']
        /\ at' = [at EXCEPT ![c] = "remap"]
        /\ UNCHANGED <<host, ping>>
  /\ UNCHANGED disabled

----------------------------------------------------------------------------
HostNext ==
  \E c \in Consumers :
    \/ \E g \in Geometry : \/ CacheHit(c, g) \/ Oversized(c, g)
                           \/ \E x, y \in Addresses : Rebuild(c, g, x, y)
    \/ Return(c) \/ Enter(c) \/ Disabled(c)
    \/ OutOfMemory(c) \/ UploadFails(c) \/ SampleFrame(c)

HostSpec == HostInit /\ [][HostNext]_hostVars

----------------------------------------------------------------------------
(* Properties.                                                             *)

\* Failures degrade, they do not corrupt: whatever fails where, and whoever
\* else is in the wrapper, no image is sampled through memory nobody uploaded
\* or through the maps of two geometries.  A node that has the device to itself
\* samples through the maps of its own ping, although host buffers recur.
SampledAsBuilt ==
  \A c \in Consumers : image[c] # Null =>
    /\ \E g \in Geometry : image[c] = Pair(g)
    /\ (\A d \in Consumers \ {c} : version[d] = 0) => image[c] = Pair(ping[c])
=============================================================================
