---------------------------- MODULE LayerBuffers ----------------------------
(***************************************************************************)
(* Buffers between SurfaceFlinger and the kernel: the LayerInfoCaches of   *)
(* the HwcLayers, the GEM handles and framebuffers that DrmGralloc counts  *)
(* by buffer id, and the DrmHwcLayers that import them and travel with a   *)
(* composition.  One operator per function, on the record lb; each holds   *)
(* DrmGralloc's mutex or is run by SurfaceFlinger's thread alone.  Buffers *)
(* the HWC makes itself, for RGA, writeback or sideband, are left out.     *)
(***************************************************************************)
EXTENDS Integers, FiniteSets, TLC, Functions, FiniteSetsExt

AppBuffers == {1, 2}
Target     == "target"    \* client_layer_, which has a buffer of its own
TargetBuffer == 3
Buffers    == AppBuffers \cup {TargetBuffer}
Apps       == {"a", "b"}
Slots      == {-1, -2}    \* slots, kept apart from the buffer ids
InfoIds    == 1 .. 12     \* LayerInfoCaches alive
No         == 0           \* no LayerInfoCache, no framebuffer
Places     == {"drm", "queue", "collect", "active"}

VARIABLE
  lb    \* the record below

\* layers: layers_ and client_layer_, each with pBufferInfo_, bufferInfoMap_ and bHasCache_;
\* info: the LayerInfoCaches; buf: mapGemHandles_ and mapFbIdCacheMap_, made: is there a
\* framebuffer; at: the DrmHwcLayers of drm_hwc_layers_ and of the compositions; request: the
\* framebuffers of the collected request, scan: external, those on the screen; stale: history,
\* whether their composition has gone before them.
NewLayer == [cur |-> No, map |-> <<>>, hit |-> FALSE]
LayersInit(ids) ==
  lb = [layers |-> [l \in ids |-> NewLayer], info |-> <<>>,
        buf |-> [b \in Buffers |-> [gem |-> 0, layers |-> 0, ref |-> 0, made |-> FALSE]],
        at |-> [p \in Places |-> {}], request |-> {}, scan |-> {}, stale |-> {}]

(***************************************************************************)
(* DrmGralloc, for one buffer.                                             *)
(***************************************************************************)
hwc_get_gemhandle_from_fd(e) == [e EXCEPT !.gem = @ + 1]
hwc_free_gemhandle(e) == IF e.gem = 0 THEN e ELSE [e EXCEPT !.gem = @ - 1]
RmFB(e) == hwc_free_gemhandle([e EXCEPT !.made = FALSE])

hwc_fbid_get_and_cached(e) ==
  IF e.made THEN [e EXCEPT !.ref = @ + 1]
  ELSE hwc_get_gemhandle_from_fd([e EXCEPT !.made = TRUE, !.ref = 1])

\* The last to go, composition or layer, removes the framebuffer.
hwc_fbid_rm_cache(e) ==
  IF e.ref = 1 /\ e.layers = 0 THEN RmFB([e EXCEPT !.ref = 0]) ELSE [e EXCEPT !.ref = @ - 1]

hwc_fbid_add_layer_ref_count(e) == [e EXCEPT !.layers = @ + 1]
hwc_fbid_dec_layer_ref_count(e) ==
  IF e.layers = 1 /\ e.ref = 0 /\ e.made THEN RmFB([e EXCEPT !.layers = 0]) ELSE [e EXCEPT !.layers = @ - 1]

(***************************************************************************)
(* LayerInfoCache.                                                         *)
(***************************************************************************)
\* A LayerInfoCache lives while a layer or a DrmHwcLayer points at it.
Alive(s) == (UNION { {y.cur} \cup Range(y.map) : y \in Range(s.layers) })
            \cup { r.info : r \in UNION Range(s.at) }

\* ~LayerInfoCache(), and ~GemHandle() if it has a handle.
Destroyed(e, info) ==
  IF info.gem THEN hwc_free_gemhandle(hwc_fbid_dec_layer_ref_count(e)) ELSE hwc_fbid_dec_layer_ref_count(e)

Settled(s) ==
  LET dead == DOMAIN s.info \ Alive(s)
  IN  IF dead = {} THEN s
      ELSE [s EXCEPT !.info = Restrict(@, DOMAIN @ \ dead),
                     !.buf = [b \in Buffers |-> FoldSet(LAMBDA i, e : Destroyed(e, s.info[i]), @[b],
                                                         { i \in dead : s.info[i].buf = b })]]

\* A new one takes the place of the layer's current one, which goes before
\* the new one is counted.
CacheNew(s, l, b, keys, rest, hit) ==
  LET i == Min(InfoIds \ DOMAIN s.info)
      t == [s EXCEPT !.info = (i :> [buf |-> b, gem |-> FALSE]) @@ @,
                     !.layers[l] = [cur |-> i, map |-> [k \in keys |-> i] @@ rest, hit |-> hit]]
  IN  [Settled(t) EXCEPT !.buf[b] = hwc_fbid_add_layer_ref_count(@)]

\* A slot whose buffer SurfaceFlinger says is known, and a slot filled anew.
CacheBufferInfoBySlot(s, l, b, use_cache, slot) ==
  LET y == s.layers[l]
  IN  IF use_cache /\ slot \in DOMAIN y.map
      THEN Settled([s EXCEPT !.layers[l].cur = y.map[slot]])
      ELSE CacheNew(s, l, b, {slot}, y.map, y.hit)

\* A new buffer after a known one empties the cache; more than 32 do not
\* happen here.
CacheBufferInfo(s, l, b) ==
  LET y == s.layers[l]
  IN  IF b \in DOMAIN y.map
      THEN Settled([s EXCEPT !.layers[l].cur = y.map[b], !.layers[l].hit = TRUE])
      ELSE CacheNew(s, l, b, {b}, IF y.hit THEN <<>> ELSE y.map, FALSE)

NoCacheBufferInfo(s, l, b) == CacheNew(s, l, b, {}, <<>>, FALSE)

\* SetLayerBuffer(): by slot, by id or, for large videos, without a cache.
SetLayerBuffer(s, l, b, way) ==
  CASE way = "slot" ->
         { CacheBufferInfoBySlot(s, l, b, x[1], x[2]) : x \in
             { x \in BOOLEAN \X Slots : (x[1] /\ x[2] \in DOMAIN s.layers[l].map) =>
                                          s.info[s.layers[l].map[x[2]]].buf = b } }
    [] way = "id"       -> { CacheBufferInfo(s, l, b) }
    [] way = "uncached" -> { NoCacheBufferInfo(s, l, b) }

CreateLayer(s, l)  == [s EXCEPT !.layers = (l :> NewLayer) @@ @]
DestroyLayer(s, l) == Settled([s EXCEPT !.layers = Restrict(@, DOMAIN @ \ {l})])

(***************************************************************************)
(* DrmHwcLayer.                                                            *)
(***************************************************************************)
\* DrmHwcBuffer::Clear() and the end of its DrmHwcLayer, for all at some places.
Imported(s, places) == { x \in places \X UNION Range(s.at) : x[2] \in s.at[x[1]] /\ x[2].fb # No }
Released(s, places) ==
  Settled([s EXCEPT !.at = [p \in Places |-> IF p \in places THEN {} ELSE @[p]],
                    !.buf = [b \in Buffers |-> FoldSet(LAMBDA x, e : hwc_fbid_rm_cache(e), @[b],
                                                        { x \in Imported(s, places) : x[2].fb = b })]])

Moved(s, from, to) == [s EXCEPT !.at[to] = s.at[from], !.at[from] = {}]

PopulateDrmLayer(s, l, match) == [l |-> l, info |-> s.layers[l].cur, fb |-> No, match |-> l \in match]

\* InitDrmHwcLayer() and the match: one DrmHwcLayer per layer that has a buffer.
InitDrmHwcLayer(s, match) ==
  LET t == Released(s, {"drm"})
      ls == { l \in DOMAIN t.layers \ {Target} : t.layers[l].cur # No }
  IN  [t EXCEPT !.at["drm"] = { PopulateDrmLayer(t, l, match) : l \in ls }]

UseClientLayer(s) == \E r \in s.at["drm"] : ~r.match

SetClientTarget(s) == CacheBufferInfo(s, Target, TargetBuffer)

\* PopulateFB(): the framebuffer target takes client_layer_'s buffer.
PopulateFB(s) ==
  IF UseClientLayer(s) /\ s.layers[Target].cur # No
  THEN [s EXCEPT !.at["drm"] = @ \cup {PopulateDrmLayer(s, Target, {Target})}]
  ELSE s

initOrGetGemhanleFromCache(e, info) == IF info.gem THEN e ELSE hwc_get_gemhandle_from_fd(e)

Matched(s) == { r \in s.at["drm"] : r.match }
InfosOf(rs) == { r.info : r \in rs }
WithFb(s, r) == [r EXCEPT !.fb = s.info[r.info].buf]

\* ImportBuffers(): the GEM handles, then the framebuffers, of those that do not fail.
ImportBuffers(s, gems, done) ==
  [s EXCEPT !.info = [i \in DOMAIN @ |-> [@[i] EXCEPT !.gem = @ \/ i \in InfosOf(gems)]],
            !.buf = [b \in Buffers |->
                       FoldSet(LAMBDA r, e : hwc_fbid_get_and_cached(e),
                               FoldSet(LAMBDA i, e : initOrGetGemhanleFromCache(e, s.info[i]), @[b],
                                       { i \in InfosOf(gems) : s.info[i].buf = b }),
                               { r \in done : s.info[r.info].buf = b })],
            !.at["drm"] = (@ \ done) \cup { WithFb(s, r) : r \in done }]

\* CreateComposition(): the matched layers go with the composition.
CreateComposition(s) ==
  LET t == ImportBuffers(s, Matched(s), Matched(s))
  IN  [t EXCEPT !.at["queue"] = Matched(t), !.at["drm"] = @ \ Matched(t)]

(***************************************************************************)
(* What the compositor does with them.                                     *)
(***************************************************************************)
Framebuffers(rs) == { r.fb : r \in rs } \ {No}
Exist(s, fbs)    == \A b \in fbs : s.buf[b].made

\* Mutant: the composition shown goes when the next one is collected.
CollectRetiring(s) ==
  [Moved(Released(s, {"active"}), "queue", "collect")
     EXCEPT !.request = Framebuffers(s.at["queue"]), !.stale = @ \ {"request"}]

CollectLayers(s) ==
  [Moved(s, "queue", "collect") EXCEPT !.request = Framebuffers(s.at["queue"]), !.stale = @ \ {"request"}]

Scanned(s) ==
  [s EXCEPT !.scan = s.request, !.stale = IF "request" \in @ THEN @ \cup {"scan"} ELSE @ \ {"scan"}]

\* The composition retired before is destroyed, shown or not.
RetireLayers(s) ==
  [Moved(Released(s, {"active"}), "collect", "active") EXCEPT !.request = {}]
NotScanned(s) == RetireLayers([s EXCEPT !.stale = @ \cup {"scan"}])

RejectLayers(s) == [Released(s, {"collect"}) EXCEPT !.request = {}]

\* The planes are switched off before everything goes, but not the request.
ClearLayers(s) ==
  [Released(s, {"queue", "collect", "active"})
     EXCEPT !.scan = {}, !.stale = IF s.request = {} THEN {} ELSE {"request"}]

(***************************************************************************)
(* Properties.                                                             *)
(***************************************************************************)
Uses(s, b)  == { x \in Imported(s, Places) : x[2].fb = b }
Infos(s, b) == { i \in DOMAIN s.info : s.info[i].buf = b }
\* The counts are what they count, and nothing is kept that nobody uses.
CountsExact(s) ==
  \A b \in Buffers :
    /\ s.buf[b].ref = Cardinality(Uses(s, b))
    /\ s.buf[b].layers = Cardinality(Infos(s, b))
    /\ s.buf[b].gem = Cardinality({ i \in Infos(s, b) : s.info[i].gem }) + IF s.buf[b].made THEN 1 ELSE 0
    /\ s.buf[b].made => s.buf[b].ref + s.buf[b].layers > 0

\* No framebuffer that is on the screen, or is about to be, has been removed,
\* which would switch its plane off, unless its composition was destroyed by
\* ClearDisplay() between collection and commit or by a failed commit.
FramebuffersHeld ==
  /\ CountsExact(lb)
  /\ "request" \notin lb.stale => Exist(lb, lb.request)
  /\ "scan" \notin lb.stale => Exist(lb, lb.scan)
=============================================================================
