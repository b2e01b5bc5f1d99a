---------------------------- MODULE RenderEngine ----------------------------
(* The GLES render engine (GLESRenderEngine.cpp): the caches of the images    *)
(* made from layers' buffers and from output buffers, and drawLayers on the    *)
(* main thread.  Images of layers are made and destroyed by the ImageManager's *)
(* thread, which takes its requests in order; a draw that finds no image asks  *)
(* for it and waits.  Of the GL state and of mState, what one layer or frame   *)
(* could leave to the next is kept; the surface is a column of rows.           *)
EXTENDS Integers, Sequences, FiniteSets

CONSTANTS
  Buffers,   \* ids of layers' buffers
  Outputs,   \* ids of output buffers
  Layers,    \* [name, buffer, opaque, alpha, radius, plain, coloured, space, top, bottom, crop]: name
             \* is its texture, buffer may be NoBuffer; alpha says alpha = 1, plain disableBlending,
             \* coloured that its colour matrix is not the identity; crop is <<from, to>>
  Spaces,    \* data spaces of the outputs
  Height,    \* rows of an output
  MaxLayers, \* bound: layers of a frame
  CacheSize, \* mFramebufferImageCacheSize
  NoBuffer,
  MaxFrames  \* bound: frames

VARIABLES
  state,    \* per buffer: "new", "live" or "gone"
  queue,    \* the ImageManager's requests
  worker,   \* the request its thread is at: its step and buffer
  images,   \* mImageCache
  textures, \* what each texture shows: the buffer whose image was bound to it last
  framebuffers, \* mFramebufferImageCache, oldest first
  targets,  \* framebuffer images that exist: <<output, cached>>
  draw,     \* the frame being drawn
  gl,       \* [scissor, clip, blend, texture, radius, coloured, source, output]
  painted,  \* what was drawn last: the layer, <<row, blended, rounded>>, the program
  clipped,  \* a rounded layer was left with its scissor on
  frames

renderVars == <<state, queue, worker, images, textures, framebuffers, targets, draw, gl, painted,
                clipped, frames>>

Rest == [step |-> "idle", buffer |-> NoBuffer, awaited |-> FALSE]
Srgb == [standard |-> "bt709", transfer |-> "srgb"]
NoFrame == [step |-> "idle", rest |-> <<>>, output |-> NoBuffer, cached |-> FALSE, space |-> Srgb,
            failed |-> FALSE]
\* the whole output, as what is cleared
Background == [name |-> NoBuffer, buffer |-> NoBuffer, opaque |-> FALSE, alpha |-> TRUE, radius |-> 0,
               plain |-> TRUE, coloured |-> FALSE, space |-> Srgb, top |-> 0, bottom |-> Height,
               crop |-> <<0, Height>>]

----------------------------------------------------------------------------
\* The colours of a layer: which conversions drawMesh has the program make, in order.

Dataspaces == [standard : {"bt709", "p3", "bt2020", "unspecified"}, transfer : {"srgb", "st2084", "hlg"}]
Primaries(d) == IF d.standard \in {"p3", "bt2020"} THEN d.standard ELSE "bt709"

\* isHdrDataSpace, needsXYZTransformMatrix
IsHdr(d) == d.standard = "bt2020" /\ d.transfer # "srgb"
NeedsXyz(from, to) == (IsHdr(from) \/ IsHdr(to)) /\ from.transfer # to.transfer

\* the matrices, as pairs of primaries; a standard that is not known is compared as it is
Matrices(from, to) ==
  IF NeedsXyz(from, to) THEN <<<<Primaries(from), "xyz">>, <<"xyz", Primaries(to)>>>>
  ELSE IF Primaries(from) = to.standard \/ Primaries(from) = Primaries(to) THEN <<>>
  ELSE <<<<Primaries(from), Primaries(to)>>>>

\* whether the transfer functions are undone before the matrices and applied after them: for a
\* colour matrix, for a matrix to the output's primaries, or if they differ
Linear(from, to, coloured) ==
  coloured \/ (Matrices(from, to) # <<>>) \/ from.transfer # to.transfer

\* the program drawMesh asks for, from mState as it is
Program(g) ==
  [image |-> IF g.texture = NoBuffer THEN NoBuffer ELSE textures[g.texture],
   matrices |-> Matrices(g.source, g.output), linear |-> Linear(g.source, g.output, g.coloured)]

Init ==
  /\ state = [b \in Buffers |-> "new"] /\ queue = <<>> /\ worker = Rest /\ images = {}
  /\ textures = [name \in {layer.name : layer \in Layers} |-> NoBuffer]
  /\ framebuffers = <<>> /\ targets = {} /\ draw = NoFrame
  /\ gl = [scissor |-> FALSE, clip |-> {}, blend |-> FALSE, texture |-> NoBuffer, radius |-> 0,
           coloured |-> FALSE, source |-> Srgb, output |-> Srgb]
  /\ painted = [layer |-> Background, rows |-> {<<row, FALSE, FALSE>> : row \in 0..(Height - 1)},
                program |-> Program(gl), failed |-> FALSE, wasClipped |-> FALSE]
  /\ clipped = FALSE /\ frames = 0

drawVars == <<textures, framebuffers, targets, gl, painted, clipped, frames>>

----------------------------------------------------------------------------
\* The images of layers.

\* cacheExternalTextureBuffer, by a transaction that brings a new buffer
CacheExternalTextureBuffer(b) ==
  /\ state[b] = "new"
  /\ state' = [state EXCEPT ![b] = "live"]
  /\ queue' = Append(queue, [op |-> "insert", buffer |-> b, awaited |-> FALSE])
  /\ UNCHANGED <<worker, images, draw, drawVars>>

InUse(b) == draw.step # "idle" /\ \E i \in DOMAIN draw.rest : draw.rest[i].buffer = b

\* unbindExternalTextureBuffer, of a buffer that is not drawn any more
UnbindExternalTextureBuffer(b) ==
  /\ state[b] = "live" /\ ~InUse(b)
  /\ state' = [state EXCEPT ![b] = "gone"]
  /\ queue' = Append(queue, [op |-> "delete", buffer |-> b, awaited |-> FALSE])
  /\ UNCHANGED <<worker, images, draw, drawVars>>

\* ImageManager::threadMain
TakeRequest ==
  /\ worker = Rest /\ queue # <<>>
  /\ worker' = [step |-> Head(queue).op, buffer |-> Head(queue).buffer, awaited |-> Head(queue).awaited]
  /\ queue' = Tail(queue)
  /\ UNCHANGED <<state, images, draw, drawVars>>

\* the request is answered: after a failure the draw that waits does not look again
Done(ok) ==
  /\ worker' = Rest
  /\ draw' = IF ~worker.awaited THEN draw
             ELSE [draw EXCEPT !.step = IF ok THEN "again" ELSE "bound", !.failed = ~ok]

\* cacheExternalTextureBufferInternal: nothing is created if the image is there; it is created
\* without the lock, may fail, and is put in unless another came first.
LookUpImage ==
  /\ worker.step = "insert"
  /\ IF worker.buffer \in images THEN Done(TRUE)
     ELSE worker' = [worker EXCEPT !.step = "create"] /\ UNCHANGED draw
  /\ UNCHANGED <<state, queue, images, drawVars>>

CreateImage ==
  /\ worker.step = "create"
  /\ \/ images' = images \cup {worker.buffer} /\ Done(TRUE)
     \/ UNCHANGED images /\ Done(FALSE)
  /\ UNCHANGED <<state, queue, drawVars>>

\* unbindExternalTextureBufferInternal
DropImage ==
  /\ worker.step = "delete"
  /\ images' = images \ {worker.buffer}
  /\ Done(TRUE)
  /\ UNCHANGED <<state, queue, drawVars>>

----------------------------------------------------------------------------
\* The output.

\* what is left of the full cache
EvictOldest(cache) == IF Len(cache) >= CacheSize THEN Tail(cache) ELSE cache

Cached(output) == \E i \in DOMAIN framebuffers : framebuffers[i] = output

\* createFramebufferImageIfNeeded: the image of the output, from the cache or made; it may fail.
\* A screenshot does without the cache.
FramebufferImage(output, useCache) ==
  LET kept == EvictOldest(framebuffers)
      expired == {t \in targets : t[2] /\ \A k \in DOMAIN kept : kept[k] # t[1]}
  IN  \/ useCache /\ Cached(output) /\ UNCHANGED <<framebuffers, targets>>
      \/ /\ useCache /\ ~Cached(output)
         /\ framebuffers' = Append(kept, output) /\ targets' = (targets \ expired) \cup {<<output, TRUE>>}
      \/ ~useCache /\ targets' = targets \cup {<<output, FALSE>>} /\ UNCHANGED framebuffers

\* bindFrameBuffer: if the image cannot be attached the frame is given up, and an image that is
\* not in the cache goes again; the cache keeps its own.
BindFrameBuffer(output, useCache, frame) ==
  \/ FramebufferImage(output, useCache) /\ draw' = frame
  \/ useCache /\ FramebufferImage(output, useCache) /\ UNCHANGED draw
  \/ UNCHANGED <<draw, framebuffers, targets>>

\* drawLayers begins: the buffers of its layers live; an empty stack is not drawn.
DrawLayers ==
  /\ draw.step = "idle" /\ frames < MaxFrames
  /\ \E output \in Outputs, useCache \in BOOLEAN, space \in Spaces, n \in 1..MaxLayers :
       \E stack \in [1..n -> Layers] :
         /\ \A i \in 1..n : stack[i].buffer # NoBuffer => state[stack[i].buffer] = "live"
         /\ BindFrameBuffer(output, useCache, [NoFrame EXCEPT !.step = "clear", !.rest = stack,
                              !.output = output, !.cached = useCache, !.space = space])
  /\ frames' = frames + 1
  /\ UNCHANGED <<state, queue, worker, images, textures, gl, painted, clipped>>

Rows(layer) == layer.top..(layer.bottom - 1)
Visible(g, layer) == IF g.scissor THEN Rows(layer) \cap g.clip ELSE Rows(layer)

\* drawMesh: the rows of the layer that the scissor leaves, how they are blended and whether the
\* program rounds corners
Draw(g, layer) == {<<row, g.blend, g.radius > 0>> : row \in Visible(g, layer)}

\* ... clears the output (as far as a scissor that was left on lets it), takes its data space,
\* and fills the region in which layers of the device lie on top
ClearOutput ==
  /\ draw.step = "clear"
  /\ \E fills \in BOOLEAN :
       LET cleared == [gl EXCEPT !.blend = FALSE, !.output = draw.space]
           filling == [cleared EXCEPT !.texture = NoBuffer]
       IN  /\ gl' = IF fills THEN filling ELSE cleared
           /\ painted' = [layer |-> Background, program |-> Program(filling), failed |-> FALSE,
                          wasClipped |-> clipped,
                          rows |-> IF fills THEN Draw(filling, Background)
                                   ELSE {<<row, FALSE, FALSE>> : row \in Visible(gl, Background)}]
  /\ draw' = [draw EXCEPT !.step = "layer"]
  /\ UNCHANGED <<state, queue, worker, images, textures, framebuffers, targets, clipped, frames>>

----------------------------------------------------------------------------
\* One layer.

Current == Head(draw.rest)

\* bindExternalTextureBuffer: is there an image?  If not it is asked for.
FindImage ==
  /\ draw.step = "layer" /\ Current.buffer # NoBuffer
  /\ IF Current.buffer \in images THEN draw' = [draw EXCEPT !.step = "again"] /\ UNCHANGED queue
     ELSE /\ draw' = [draw EXCEPT !.step = "wait"]
          /\ queue' = Append(queue, [op |-> "insert", buffer |-> Current.buffer, awaited |-> TRUE])
  /\ UNCHANGED <<state, worker, images, drawVars>>

\* ... it is looked up again and bound; an empty image leaves the texture with what it shows
FindImageAgain ==
  /\ draw.step = "again"
  /\ IF Current.buffer \in images
     THEN textures' = [textures EXCEPT ![Current.name] = Current.buffer] /\ draw' = [draw EXCEPT !.step = "bound"]
     ELSE draw' = [draw EXCEPT !.step = "bound", !.failed = TRUE] /\ UNCHANGED textures
  /\ UNCHANGED <<state, queue, worker, images, framebuffers, targets, gl, painted, clipped, frames>>

\* setupLayerTexturing, for a layer with a buffer, whether its image could be bound or not
Textured(g, layer) == [g EXCEPT !.texture = IF layer.buffer = NoBuffer THEN NoBuffer ELSE layer.name]

\* setupLayerBlending, and disableBlending of the layer
DrawnOpaque(layer) == layer.buffer # NoBuffer /\ layer.opaque
Blended(g, layer) ==
  [g EXCEPT !.radius = layer.radius,
            !.blend = ~layer.plain /\ (~layer.alpha \/ ~DrawnOpaque(layer) \/ layer.radius > 0)]

\* only the corners need blending
Rounds(layer) == layer.radius > 0 /\ layer.alpha /\ DrawnOpaque(layer)

\* handleRoundedCorners: the top and the bottom of the crop, and the middle without blending and
\* corners.  If there is no middle the function returns with its scissor on.
Cut(g, from, to) == [g EXCEPT !.scissor = TRUE, !.clip = from..(to - 1)]
Rounded(g, layer) ==
  LET first == layer.crop[1]
      last == layer.crop[2]
      top == Cut(g, first, first + layer.radius)
      bottom == Cut(g, last - layer.radius, last)
      middle == [Cut(g, first + layer.radius, last - layer.radius) EXCEPT !.blend = FALSE, !.radius = 0]
      ends == Draw(top, layer) \cup Draw(bottom, layer)
  IN  IF last - layer.radius < first + layer.radius
      THEN [rows |-> ends, gl |-> bottom]
      ELSE [rows |-> ends \cup Draw(middle, layer), gl |-> [middle EXCEPT !.scissor = FALSE, !.clip = {}]]

\* the state a layer with a buffer leaves
CleanUp(g, layer) == IF layer.buffer = NoBuffer THEN g ELSE [g EXCEPT !.blend = FALSE, !.texture = NoBuffer]

DrawLayer ==
  /\ draw.step = "bound" \/ (draw.step = "layer" /\ Current.buffer = NoBuffer)
  /\ LET layer == Current
         ready == [Blended(Textured(gl, layer), layer) EXCEPT !.source = layer.space, !.coloured = layer.coloured]
         drawn == IF Rounds(layer) THEN Rounded(ready, layer) ELSE [rows |-> Draw(ready, layer), gl |-> ready]
     IN  /\ painted' = [layer |-> layer, rows |-> drawn.rows, program |-> Program(ready),
                        failed |-> draw.failed, wasClipped |-> clipped]
         /\ clipped' = drawn.gl.scissor
         /\ gl' = CleanUp(drawn.gl, layer)
  /\ draw' = [draw EXCEPT !.rest = Tail(@), !.step = IF Tail(draw.rest) = <<>> THEN "flush" ELSE "layer",
                          !.failed = FALSE]
  /\ UNCHANGED <<state, queue, worker, images, textures, framebuffers, targets, frames>>

\* the commands are flushed; the framebuffer is unbound, and an image outside the cache goes
Flush ==
  /\ draw.step = "flush"
  /\ targets' = targets \ {<<draw.output, FALSE>>}
  /\ draw' = NoFrame
  /\ UNCHANGED <<state, queue, worker, images, textures, framebuffers, gl, painted, clipped, frames>>

Next ==
  \/ \E b \in Buffers : CacheExternalTextureBuffer(b) \/ UnbindExternalTextureBuffer(b)
  \/ TakeRequest \/ LookUpImage \/ CreateImage \/ DropImage
  \/ DrawLayers \/ ClearOutput \/ FindImage \/ FindImageAgain \/ DrawLayer \/ Flush

Spec == Init /\ [][Next]_renderVars

----------------------------------------------------------------------------
\* Every row of a layer is drawn (inside its crop, if it has corners only), and every row of the
\* output cleared; what the layers and frames before left in GL and mState does not show, except
\* the scissor of a rounded layer lower than its two radii.  A row is blended where the layer is
\* translucent or has a corner, and the middle is not rounded (1128-1345, 813-898).
RowsDrawn ==
  LET l == painted.layer
      rows == {r[1] : r \in painted.rows}
      corner(row) == row < l.crop[1] + l.radius \/ row >= l.crop[2] - l.radius
  IN
  /\ ~painted.wasClipped => rows = {row \in Rows(l) : Rounds(l) => row \in l.crop[1]..(l.crop[2] - 1)}
  /\ clipped => painted.wasClipped \/ l.crop[2] - l.crop[1] < 2 * l.radius
  /\ ~l.plain => \A row \in rows :
       /\ ~l.alpha \/ ~DrawnOpaque(l) => <<row, FALSE, l.radius > 0>> \notin painted.rows
       /\ ~l.alpha \/ ~DrawnOpaque(l) \/ corner(row) => <<row, TRUE, l.radius > 0>> \in painted.rows
  /\ Rounds(l) => \A r \in painted.rows : r[3] = corner(r[1]) \/ l.crop[2] - l.crop[1] < 2 * l.radius

\* A layer is drawn from its own image; if that could not be made, from what its texture showed
\* before, which is a buffer of the same texture.  Its colours are converted from its own data
\* space to that of the frame (646-713, 1148-1345, 1502-1612).
OwnImage ==
  LET l == painted.layer
      sharers == {layer.buffer : layer \in {m \in Layers : m.name = l.name}}
  IN  /\ painted.program.image = l.buffer \/ (painted.failed /\ painted.program.image \in sharers \cup {NoBuffer})
      /\ painted.failed => l.buffer # NoBuffer
      /\ l # Background /\ draw.step # "idle" =>
           /\ painted.program.matrices = Matrices(l.space, draw.space)
           /\ painted.program.linear = Linear(l.space, draw.space, l.coloured)

\* Nobody keeps the image of a buffer that was let go, however the requests of the threads met;
\* a draw that waits is answered (646-790).
ImagesFollowBuffers ==
  /\ queue = <<>> /\ worker = Rest => \A b \in images : state[b] = "live"
  /\ draw.step = "wait" =>
       \/ \E i \in DOMAIN queue : queue[i] = [op |-> "insert", buffer |-> Current.buffer, awaited |-> TRUE]
       \/ worker.awaited /\ worker.buffer = Current.buffer

\* The image that is drawn to exists as long as the frame lasts; otherwise just those in the
\* cache do, each output once and no more than fit (959-999).
TargetsExist ==
  /\ draw.step # "idle" => <<draw.output, draw.cached>> \in targets
  /\ {t[1] : t \in {u \in targets : u[2]}} = {framebuffers[i] : i \in DOMAIN framebuffers}
  /\ Cardinality({framebuffers[i] : i \in DOMAIN framebuffers}) = Len(framebuffers)
  /\ Len(framebuffers) <= CacheSize
  /\ draw.step = "idle" => \A t \in targets : t[2]

\* Whatever the spaces of a layer and of the output, the matrices lead from the one's primaries
\* to the other's; matrices work on linear values, what changes its transfer function is made
\* linear, and between PQ and HLG the luminance is at hand in XYZ (1490-1632, 1770-1795).
ColoursArrive ==
  \A from, to \in Dataspaces :
    LET m == Matrices(from, to) IN
    /\ \A i \in 1..(Len(m) - 1) : m[i][2] = m[i + 1][1]
    /\ m = <<>> => Primaries(from) = Primaries(to)
    /\ m # <<>> => m[1][1] = Primaries(from) /\ m[Len(m)][2] = Primaries(to) /\ Linear(from, to, FALSE)
    /\ ~Linear(from, to, FALSE) => from.transfer = to.transfer
    /\ {from.transfer, to.transfer} = {"st2084", "hlg"} /\ (IsHdr(from) \/ IsHdr(to)) =>
         \E i \in DOMAIN m : "xyz" \in {m[i][1], m[i][2]}

RenderSafe == RowsDrawn /\ OwnImage /\ ImagesFollowBuffers /\ TargetsExist

\* Not so: "clear the entire buffer", as the comment in drawLayers has it.  A scissor that a low
\* rounded layer left on also cuts the clearing of the next frame (1128-1133, 880-884).
EntireBufferCleared == painted.layer = Background => {r[1] : r \in painted.rows} = Rows(Background)

\* Not so: that the region under the device's layers is filled sharply.  The corner radius of the
\* last layer of the frame before is still in mState (594-616, 1141-1145, 1478-1484).
RegionFilledSharply == painted.layer = Background => \A r \in painted.rows : ~r[3]
=============================================================================
