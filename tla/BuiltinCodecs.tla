--------------------------- MODULE BuiltinCodecs ---------------------------
(***************************************************************************)
(* The codecs of the builtin objects (pj_base/src/builtin/*_codec.cpp) and *)
(* the journey of one object: serialized by a producer, carried as bytes,  *)
(* and deserialized by a consumer that may be older or newer, through      *)
(* deserializeBuiltinObject.  In transit the buffer may gain a field the   *)
(* consumer does not know, lose its tail at a field boundary (a producer   *)
(* that does not know the later fields), or be cut anywhere; and the       *)
(* producer may use enumerators that the consumer does not know.           *)
(***************************************************************************)
EXTENDS WireFormat, FiniteSets, TLC

CONSTANTS
  Times,        \* timestamps an object carries
  CutPoints     \* byte counts a buffer is cut to

-----------------------------------------------------------------------------
(* Geometry shared by the codecs (geometry_codec.hpp).                     *)

writeVector2 == <<F(1, "x", "double"), F(2, "y", "double")>>
decodeVector2 == <<Case(1, "x", "double"), Case(2, "y", "double")>>

writeVector3 == writeVector2 \o <<F(3, "z", "double")>>
decodeVector3 == decodeVector2 \o <<Case(3, "z", "double")>>

writeQuaternion == writeVector3 \o <<F(4, "w", "double")>>
decodeQuaternion == decodeVector3 \o <<Case(4, "w", "double")>>

writePose == <<F(1, "position", "Vector3"), F(2, "orientation", "Quaternion")>>
decodePose == <<Case(1, "position", "Vector3"), Case(2, "orientation", "Quaternion")>>

writeColor == <<F(1, "r", "byte"), F(2, "g", "byte"), F(3, "b", "byte"), F(4, "a", "byte")>>
decodeColor == <<Case(1, "r", "byte"), Case(2, "g", "byte"), Case(3, "b", "byte"), Case(4, "a", "byte")>>

writeTimestamp == <<F(1, "seconds", "word"), F(2, "nanos", "u32")>>
decodeTimestamp == <<Case(1, "seconds", "word"), Case(2, "nanos", "u32")>>

writePointField ==
  <<F(1, "name", "bytes"), F(2, "offset", "u32"), F(3, "datatype", "datatype"), F(4, "count", "u32")>>
decodePointField ==
  <<Case(1, "name", "bytes"), Case(2, "offset", "u32"), Case(3, "datatype", "datatype"), Case(4, "count", "u32")>>

-----------------------------------------------------------------------------
(* SceneEntities (scene_entities_codec.cpp).                               *)

writeArrowPrimitive ==
  <<F(1, "pose", "Pose"), F(2, "shaft_length", "double"), F(3, "shaft_diameter", "double"),
    F(4, "head_length", "double"), F(5, "head_diameter", "double"), F(6, "color", "Color")>>
decodeArrowPrimitive ==
  <<Case(1, "pose", "Pose"), Case(2, "shaft_length", "double"), Case(3, "shaft_diameter", "double"),
    Case(4, "head_length", "double"), Case(5, "head_diameter", "double"), Case(6, "color", "Color")>>

writeCubePrimitive == <<F(1, "pose", "Pose"), F(2, "size", "Vector3"), F(3, "color", "Color")>>
decodeCubePrimitive == <<Case(1, "pose", "Pose"), Case(2, "size", "Vector3"), Case(3, "color", "Color")>>

writeSpherePrimitive == <<F(1, "pose", "Pose"), F(2, "size", "Vector3"), F(3, "color", "Color")>>
decodeSpherePrimitive == <<Case(1, "pose", "Pose"), Case(2, "size", "Vector3"), Case(3, "color", "Color")>>

writeCylinderPrimitive ==
  <<F(1, "pose", "Pose"), F(2, "size", "Vector3"), F(3, "bottom_scale", "double"), F(4, "top_scale", "double"),
    F(5, "color", "Color")>>
decodeCylinderPrimitive ==
  <<Case(1, "pose", "Pose"), Case(2, "size", "Vector3"), Case(3, "bottom_scale", "double"),
    Case(4, "top_scale", "double"), Case(5, "color", "Color")>>

writeLinePrimitive ==
  <<F(1, "type", "line_type"), F(2, "pose", "Pose"), F(3, "thickness", "double"), F(4, "scale_invariant", "bool"),
    Each(5, "points", "Vector3"), F(6, "color", "Color"), Each(7, "colors", "Color"), F(8, "indices", "packed32")>>
decodeLinePrimitive ==
  <<Case(1, "type", "line_type"), Case(2, "pose", "Pose"), Case(3, "thickness", "double"),
    Case(4, "scale_invariant", "bool"), Push(5, "points", "Vector3"), Case(6, "color", "Color"),
    Push(7, "colors", "Color"), Case(8, "indices", "packed32")>>

writeTrianglePrimitive ==
  <<F(1, "pose", "Pose"), Each(2, "points", "Vector3"), F(3, "color", "Color"), Each(4, "colors", "Color"),
    F(5, "indices", "packed32")>>
decodeTrianglePrimitive ==
  <<Case(1, "pose", "Pose"), Push(2, "points", "Vector3"), Case(3, "color", "Color"), Push(4, "colors", "Color"),
    Case(5, "indices", "packed32")>>

writeTextPrimitive ==
  <<F(1, "pose", "Pose"), F(2, "billboard", "bool"), F(3, "font_size", "double"), F(4, "scale_invariant", "bool"),
    F(5, "color", "Color"), F(6, "text", "bytes")>>
decodeTextPrimitive ==
  <<Case(1, "pose", "Pose"), Case(2, "billboard", "bool"), Case(3, "font_size", "double"),
    Case(4, "scale_invariant", "bool"), Case(5, "color", "Color"), Case(6, "text", "bytes")>>

writeAxesPrimitive ==
  <<F(1, "pose", "Pose"), F(2, "length", "double"), F(3, "thickness", "double"), F(4, "scale_invariant", "bool")>>
decodeAxesPrimitive ==
  <<Case(1, "pose", "Pose"), Case(2, "length", "double"), Case(3, "thickness", "double"),
    Case(4, "scale_invariant", "bool")>>

writeModelPrimitive ==
  <<F(1, "pose", "Pose"), F(2, "scale", "Vector3"), F(3, "color", "Color"), F(4, "override_color", "bool"),
    F(5, "url", "bytes"), F(6, "media_type", "bytes"), IfSet(7, "data", "bytes")>>
decodeModelPrimitive ==
  <<Case(1, "pose", "Pose"), Case(2, "scale", "Vector3"), Case(3, "color", "Color"), Case(4, "override_color", "bool"),
    Case(5, "url", "bytes"), Case(6, "media_type", "bytes"), Case(7, "data", "bytes")>>

writeSceneEntityDeletion == <<F(1, "timestamp", "Timestamp"), F(2, "type", "deletion_type"), F(3, "id", "bytes")>>
decodeSceneEntityDeletion ==
  <<Case(1, "timestamp", "Timestamp"), Case(2, "type", "deletion_type"), Case(3, "id", "bytes")>>

writeKeyValuePair == <<F(1, "key", "bytes"), F(2, "value", "bytes")>>
decodeKeyValuePair == <<Case(1, "key", "bytes"), Case(2, "value", "bytes")>>

writeSceneEntity ==
  <<F(1, "timestamp", "Timestamp"), F(2, "frame_id", "bytes"), F(3, "id", "bytes"), F(4, "lifetime_ns", "Timestamp"),
    F(5, "frame_locked", "bool"), Each(6, "metadata", "KeyValuePair"), Each(7, "arrows", "Arrow"),
    Each(8, "cubes", "Cube"), Each(9, "spheres", "Sphere"), Each(10, "cylinders", "Cylinder"), Each(11, "lines", "Line"),
    Each(12, "triangles", "Triangle"), Each(13, "texts", "Text"), Each(14, "models", "Model"), Each(15, "axes", "Axes")>>
decodeSceneEntity ==
  <<Case(1, "timestamp", "Timestamp"), Case(2, "frame_id", "bytes"), Case(3, "id", "bytes"),
    Case(4, "lifetime_ns", "Timestamp"), Case(5, "frame_locked", "bool"), Push(6, "metadata", "KeyValuePair"),
    Push(7, "arrows", "Arrow"), Push(8, "cubes", "Cube"), Push(9, "spheres", "Sphere"), Push(10, "cylinders", "Cylinder"),
    Push(11, "lines", "Line"), Push(12, "triangles", "Triangle"), Push(13, "texts", "Text"), Push(14, "models", "Model"),
    Push(15, "axes", "Axes")>>

serializeSceneEntities == <<Each(1, "deletions", "SceneEntityDeletion"), Each(2, "entities", "SceneEntity")>>
deserializeSceneEntities == <<Push(1, "deletions", "SceneEntityDeletion"), Push(2, "entities", "SceneEntity")>>

-----------------------------------------------------------------------------
(* ImageAnnotations (image_annotations_codec.cpp).                         *)

writePoint2 == <<F(1, "x", "double"), F(2, "y", "double")>>
decodePoint2 == <<Case(1, "x", "double"), Case(2, "y", "double")>>

decodeAnnotationColor ==
  <<Case(1, "r", "byte"), Case(2, "g", "byte"), Case(3, "b", "byte"), Case(4, "a", "byte")>>

writePointsAnnotation ==
  <<F(2, "topology", "topology"), Each(3, "points", "Point2"), F(4, "color", "AnnotationColor"),
    Each(5, "colors", "AnnotationColor"), F(6, "fill_color", "AnnotationColor"), F(7, "thickness", "double")>>
decodePointsAnnotation ==
  <<Case(2, "topology", "topology"), Push(3, "points", "Point2"), Case(4, "color", "AnnotationColor"),
    Push(5, "colors", "AnnotationColor"), Case(6, "fill_color", "AnnotationColor"), Case(7, "thickness", "double")>>

writeCircleAnnotation ==
  <<F(2, "center", "Point2"), F(3, "radius", "radius"), F(4, "thickness", "double"),
    F(5, "fill_color", "AnnotationColor"), F(6, "color", "AnnotationColor")>>
decodeCircleAnnotation ==
  <<Case(2, "center", "Point2"), Case(3, "radius", "radius"), Case(4, "thickness", "double"),
    Case(5, "fill_color", "AnnotationColor"), Case(6, "color", "AnnotationColor")>>

writeTextAnnotation ==
  <<F(2, "position", "Point2"), F(3, "text", "bytes"), F(4, "font_size", "double"), F(5, "color", "AnnotationColor")>>
decodeTextAnnotation ==
  <<Case(2, "position", "Point2"), Case(3, "text", "bytes"), Case(4, "font_size", "double"),
    Case(5, "color", "AnnotationColor")>>

serializeImageAnnotations ==
  <<Each(1, "circles", "Circle"), Each(2, "points", "Points"), Each(3, "texts", "TextAnnotation"),
    IfSet(5, "timestamp", "Timestamp"), IfSet(6, "image_topic", "bytes")>>
deserializeImageAnnotations ==
  <<Push(1, "circles", "Circle"), Push(2, "points", "Points"), Push(3, "texts", "TextAnnotation"),
    Case(5, "timestamp", "Timestamp"), Case(6, "image_topic", "bytes")>>

-----------------------------------------------------------------------------
(* PlotMarkers (plot_markers_codec.cpp).                                   *)

writeMarkerColor == <<F(1, "r", "byte"), F(2, "g", "byte"), F(3, "b", "byte"), F(4, "a", "byte")>>
decodeMarkerColor == <<Case(1, "r", "byte"), Case(2, "g", "byte"), Case(3, "b", "byte"), Case(4, "a", "byte")>>

writeProperty == <<F(1, "key", "bytes"), F(2, "value", "bytes")>>
decodeProperty == <<Case(1, "key", "bytes"), Case(2, "value", "bytes")>>

writeMarker ==
  <<F(1, "kind", "marker_kind"), F(2, "t_start", "word"), F(3, "t_end", "word"), F(4, "value_low", "double"),
    F(5, "value_high", "double"), F(6, "has_value", "bool"), F(7, "status", "marker_status"),
    F(8, "severity", "marker_severity"), F(9, "category", "bytes"), F(10, "label", "bytes"),
    F(11, "description", "bytes"), F(12, "color", "MarkerColor"), Each(13, "metadata", "MarkerProperty")>>
decodeMarker ==
  <<Case(1, "kind", "marker_kind"), Case(2, "t_start", "word"), Case(3, "t_end", "word"),
    Case(4, "value_low", "double"), Case(5, "value_high", "double"), Case(6, "has_value", "bool"),
    Case(7, "status", "marker_status"), Case(8, "severity", "marker_severity"), Case(9, "category", "bytes"),
    Case(10, "label", "bytes"), Case(11, "description", "bytes"), Case(12, "color", "MarkerColor"),
    Push(13, "metadata", "MarkerProperty")>>

serializePlotMarkers == <<Each(1, "markers", "PlotMarker")>>
deserializePlotMarkers == <<Push(1, "markers", "PlotMarker")>>

-----------------------------------------------------------------------------
(* The one-message objects.                                                *)

serializePointCloud ==
  <<F(1, "timestamp_ns", "Timestamp"), F(2, "width", "u32"), F(3, "height", "u32"), F(4, "point_step", "u32"),
    F(5, "row_step", "u32"), F(6, "is_bigendian", "bool"), F(7, "is_dense", "bool"), Each(8, "fields", "PointField"),
    F(9, "data", "bytes"), F(10, "frame_id", "bytes")>>
decodePointCloud ==
  <<Case(1, "timestamp_ns", "Timestamp"), Case(2, "width", "u32"), Case(3, "height", "u32"), Case(4, "point_step", "u32"),
    Case(5, "row_step", "u32"), Case(6, "is_bigendian", "bool"), Case(7, "is_dense", "bool"),
    Push(8, "fields", "PointField"), Case(9, "data", "bytes"), Case(10, "frame_id", "bytes")>>

serializeImage ==
  <<F(1, "timestamp_ns", "Timestamp"), F(2, "width", "u32"), F(3, "height", "u32"), F(4, "encoding", "bytes"),
    F(5, "row_step", "u32"), F(6, "is_bigendian", "bool"), F(7, "data", "bytes"), Each(8, "depth_min", "float"),
    Each(9, "depth_max", "float"), F(10, "frame_id", "bytes")>>
deserializeImage ==
  <<Case(1, "timestamp_ns", "Timestamp"), Case(2, "width", "u32"), Case(3, "height", "u32"), Case(4, "encoding", "bytes"),
    Case(5, "row_step", "u32"), Case(6, "is_bigendian", "bool"), Case(7, "data", "bytes"), Opt(8, "depth_min", "float"),
    Opt(9, "depth_max", "float"), Case(10, "frame_id", "bytes")>>

serializeDepthImage ==
  <<F(1, "timestamp_ns", "Timestamp"), F(2, "width", "u32"), F(3, "height", "u32"), F(4, "encoding", "bytes"),
    F(5, "data", "bytes"), F(6, "K", "array"), F(7, "distortion_model", "bytes"), F(8, "D", "packed64")>>
deserializeDepthImage ==
  <<Case(1, "timestamp_ns", "Timestamp"), Case(2, "width", "u32"), Case(3, "height", "u32"), Case(4, "encoding", "bytes"),
    Case(5, "data", "bytes"), Case(6, "K", "array"), Case(7, "distortion_model", "bytes"), Case(8, "D", "packed64")>>

serializeCameraInfo ==
  <<F(1, "timestamp_ns", "Timestamp"), F(2, "frame_id", "bytes"), F(3, "width", "u32"), F(4, "height", "u32"),
    F(5, "distortion_model", "bytes"), F(6, "D", "packed64"), F(7, "K", "array"), F(8, "R", "array"), F(9, "P", "array")>>
deserializeCameraInfo ==
  <<Case(1, "timestamp_ns", "Timestamp"), Case(2, "frame_id", "bytes"), Case(3, "width", "u32"), Case(4, "height", "u32"),
    Case(5, "distortion_model", "bytes"), Case(6, "D", "packed64"), Case(7, "K", "array"), Case(8, "R", "array"),
    Case(9, "P", "array")>>

serializeCompressedPointCloud ==
  <<F(1, "timestamp_ns", "Timestamp"), F(2, "frame_id", "bytes"), F(3, "format", "bytes"), F(4, "data", "bytes")>>
deserializeCompressedPointCloud ==
  <<Case(1, "timestamp_ns", "Timestamp"), Case(2, "frame_id", "bytes"), Case(3, "format", "bytes"),
    Case(4, "data", "bytes")>>

writeFrameTransform ==
  <<F(1, "timestamp", "Timestamp"), F(2, "parent_frame_id", "bytes"), F(3, "child_frame_id", "bytes"),
    F(4, "translation", "Vector3"), F(5, "rotation", "Quaternion")>>
decodeFrameTransform ==
  <<Case(1, "timestamp", "Timestamp"), Case(2, "parent_frame_id", "bytes"), Case(3, "child_frame_id", "bytes"),
    Case(4, "translation", "Vector3"), Case(5, "rotation", "Quaternion")>>

serializeFrameTransforms == <<Each(1, "transforms", "FrameTransform")>>
deserializeFrameTransforms == <<Push(1, "transforms", "FrameTransform")>>

serializeGridMap ==
  <<F(1, "timestamp_ns", "Timestamp"), F(2, "frame_id", "bytes"), F(3, "origin", "Pose"), F(4, "cell_size", "Vector2"),
    F(5, "column_count", "u32"), F(6, "row_count", "u32"), F(7, "cell_stride", "u32"), F(8, "row_stride", "u32"),
    Each(9, "fields", "PointField"), F(10, "data", "bytes")>>
deserializeGridMap ==
  <<Case(1, "timestamp_ns", "Timestamp"), Case(2, "frame_id", "bytes"), Case(3, "origin", "Pose"),
    Case(4, "cell_size", "Vector2"), Case(5, "column_count", "u32"), Case(6, "row_count", "u32"),
    Case(7, "cell_stride", "u32"), Case(8, "row_stride", "u32"), Push(9, "fields", "PointField"), Case(10, "data", "bytes")>>

serializeVoxelGrid ==
  <<F(1, "timestamp_ns", "Timestamp"), F(2, "frame_id", "bytes"), F(3, "origin", "Pose"), F(4, "cell_size", "Vector3"),
    F(5, "column_count", "u32"), F(6, "row_count", "u32"), F(7, "slice_count", "u32"), F(8, "cell_stride", "u32"),
    F(9, "row_stride", "u32"), F(10, "slice_stride", "u32"), Each(11, "fields", "PointField"), F(12, "data", "bytes")>>
deserializeVoxelGrid ==
  <<Case(1, "timestamp_ns", "Timestamp"), Case(2, "frame_id", "bytes"), Case(3, "origin", "Pose"),
    Case(4, "cell_size", "Vector3"), Case(5, "column_count", "u32"), Case(6, "row_count", "u32"),
    Case(7, "slice_count", "u32"), Case(8, "cell_stride", "u32"), Case(9, "row_stride", "u32"),
    Case(10, "slice_stride", "u32"), Push(11, "fields", "PointField"), Case(12, "data", "bytes")>>

serializeLog ==
  <<F(1, "timestamp_ns", "Timestamp"), F(2, "level", "log_level"), F(3, "message", "bytes"), F(4, "name", "bytes")>>
deserializeLog ==
  <<Case(1, "timestamp_ns", "Timestamp"), Case(2, "level", "log_level"), Case(3, "message", "bytes"),
    Case(4, "name", "bytes")>>

serializeMesh3D ==
  <<F(1, "timestamp_ns", "Timestamp"), F(2, "frame_id", "bytes"), F(3, "id", "bytes"), F(4, "pose", "Pose"),
    F(5, "scale", "Vector3"), F(6, "format", "bytes"), F(7, "data", "bytes"), F(8, "url", "bytes"),
    F(9, "color", "Color"), F(10, "override_color", "bool")>>
deserializeMesh3D ==
  <<Case(1, "timestamp_ns", "Timestamp"), Case(2, "frame_id", "bytes"), Case(3, "id", "bytes"), Case(4, "pose", "Pose"),
    Case(5, "scale", "Vector3"), Case(6, "format", "bytes"), Case(7, "data", "bytes"), Case(8, "url", "bytes"),
    Case(9, "color", "Color"), Case(10, "override_color", "bool")>>

serializeOccupancyGrid ==
  <<F(1, "timestamp_ns", "Timestamp"), F(2, "frame_id", "bytes"), F(3, "origin", "Pose"), F(4, "resolution", "double"),
    F(5, "width", "u32"), F(6, "height", "u32"), F(7, "data", "bytes")>>
deserializeOccupancyGrid ==
  <<Case(1, "timestamp_ns", "Timestamp"), Case(2, "frame_id", "bytes"), Case(3, "origin", "Pose"),
    Case(4, "resolution", "double"), Case(5, "width", "u32"), Case(6, "height", "u32"), Case(7, "data", "bytes")>>

serializeOccupancyGridUpdate ==
  <<F(1, "timestamp_ns", "Timestamp"), F(2, "frame_id", "bytes"), F(3, "x", "i32"), F(4, "y", "i32"),
    F(5, "width", "u32"), F(6, "height", "u32"), F(7, "data", "bytes")>>
deserializeOccupancyGridUpdate ==
  <<Case(1, "timestamp_ns", "Timestamp"), Case(2, "frame_id", "bytes"), Case(3, "x", "i32"), Case(4, "y", "i32"),
    Case(5, "width", "u32"), Case(6, "height", "u32"), Case(7, "data", "bytes")>>

serializePosesInFrame == <<F(1, "timestamp_ns", "Timestamp"), F(2, "frame_id", "bytes"), Each(3, "poses", "Pose")>>
deserializePosesInFrame ==
  <<Case(1, "timestamp_ns", "Timestamp"), Case(2, "frame_id", "bytes"), Push(3, "poses", "Pose")>>

serializeRobotDescription ==
  <<F(1, "timestamp_ns", "Timestamp"), F(2, "topic", "bytes"), F(3, "format", "bytes"), F(4, "text", "bytes")>>
deserializeRobotDescription ==
  <<Case(1, "timestamp_ns", "Timestamp"), Case(2, "topic", "bytes"), Case(3, "format", "bytes"), Case(4, "text", "bytes")>>

serializeVideoFrame ==
  <<F(1, "timestamp_ns", "Timestamp"), F(2, "frame_id", "bytes"), F(3, "data", "bytes"), F(4, "format", "bytes")>>
parseVideoFrame ==
  <<Case(1, "timestamp_ns", "Timestamp"), Case(2, "frame_id", "bytes"), Case(3, "data", "bytes"),
    Case(4, "format", "bytes")>>

-----------------------------------------------------------------------------
(* Which decoder loop a message uses.  "dispatch": parseFields with a      *)
(* handler that looks at the field before it reads.  "readFirst":          *)
(* parseFields with a handler that reads a varint before it looks at the   *)
(* field number.  "strict": a loop of its own that fails with the read.    *)

Message(style, write, read) == [style |-> style, write |-> write, read |-> read]
Dispatch(write, read) == Message("dispatch", write, read)
Strict(write, read) == Message("strict", write, read)

Nested ==
  [TimestampParts |-> Message("readFirst", writeTimestamp, decodeTimestamp),
   PointField |-> Message("readFirst", writePointField, decodePointField),
   Vector2 |-> Dispatch(writeVector2, decodeVector2), Vector3 |-> Dispatch(writeVector3, decodeVector3),
   Quaternion |-> Dispatch(writeQuaternion, decodeQuaternion), Pose |-> Dispatch(writePose, decodePose),
   Color |-> Dispatch(writeColor, decodeColor),
   Arrow |-> Dispatch(writeArrowPrimitive, decodeArrowPrimitive), Cube |-> Dispatch(writeCubePrimitive, decodeCubePrimitive),
   Sphere |-> Dispatch(writeSpherePrimitive, decodeSpherePrimitive),
   Cylinder |-> Dispatch(writeCylinderPrimitive, decodeCylinderPrimitive),
   Line |-> Dispatch(writeLinePrimitive, decodeLinePrimitive),
   Triangle |-> Dispatch(writeTrianglePrimitive, decodeTrianglePrimitive),
   Text |-> Dispatch(writeTextPrimitive, decodeTextPrimitive), Axes |-> Dispatch(writeAxesPrimitive, decodeAxesPrimitive),
   Model |-> Dispatch(writeModelPrimitive, decodeModelPrimitive),
   SceneEntityDeletion |-> Dispatch(writeSceneEntityDeletion, decodeSceneEntityDeletion),
   KeyValuePair |-> Dispatch(writeKeyValuePair, decodeKeyValuePair),
   SceneEntity |-> Dispatch(writeSceneEntity, decodeSceneEntity),
   FrameTransform |-> Dispatch(writeFrameTransform, decodeFrameTransform),
   Point2 |-> Strict(writePoint2, decodePoint2), AnnotationColor |-> Strict(writeColor, decodeAnnotationColor),
   Points |-> Strict(writePointsAnnotation, decodePointsAnnotation),
   Circle |-> Strict(writeCircleAnnotation, decodeCircleAnnotation),
   TextAnnotation |-> Strict(writeTextAnnotation, decodeTextAnnotation),
   PlotMarker |-> Dispatch(writeMarker, decodeMarker), MarkerColor |-> Strict(writeMarkerColor, decodeMarkerColor),
   MarkerProperty |-> Strict(writeProperty, decodeProperty)]

(* serializeBuiltinObject and deserializeBuiltinObject: the type tag picks *)
(* the codec.                                                              *)
Objects ==
  [kImage |-> Dispatch(serializeImage, deserializeImage),
   kPointCloud |-> Dispatch(serializePointCloud, decodePointCloud),
   kDepthImage |-> Dispatch(serializeDepthImage, deserializeDepthImage),
   kImageAnnotations |-> Strict(serializeImageAnnotations, deserializeImageAnnotations),
   kFrameTransforms |-> Strict(serializeFrameTransforms, deserializeFrameTransforms),
   kOccupancyGrid |-> Dispatch(serializeOccupancyGrid, deserializeOccupancyGrid),
   kCompressedPointCloud |-> Dispatch(serializeCompressedPointCloud, deserializeCompressedPointCloud),
   kMesh3D |-> Dispatch(serializeMesh3D, deserializeMesh3D), kVideoFrame |-> Dispatch(serializeVideoFrame, parseVideoFrame),
   kSceneEntities |-> Strict(serializeSceneEntities, deserializeSceneEntities),
   kRobotDescription |-> Dispatch(serializeRobotDescription, deserializeRobotDescription),
   kCameraInfo |-> Dispatch(serializeCameraInfo, deserializeCameraInfo),
   kOccupancyGridUpdate |-> Dispatch(serializeOccupancyGridUpdate, deserializeOccupancyGridUpdate),
   kLog |-> Dispatch(serializeLog, deserializeLog),
   kPosesInFrame |-> Dispatch(serializePosesInFrame, deserializePosesInFrame),
   kVoxelGrid |-> Dispatch(serializeVoxelGrid, deserializeVoxelGrid),
   kPlotMarkers |-> Strict(serializePlotMarkers, deserializePlotMarkers),
   kGridMap |-> Dispatch(serializeGridMap, deserializeGridMap)]

Messages == Nested @@ Objects

FieldOf(w, m) == w[CHOOSE i \in DOMAIN w : w[i].m = m]
Members(w) == {w[i].m : i \in DOMAIN w}

(* A default-constructed message: one default per kind.                    *)
RECURSIVE DefaultOf(_)
Default(type) == DefaultOf(Messages[type].write)
Zero(f) == IF f.c = "each" \/ f.k \in Blobs THEN <<>> ELSE IF IsMessage(f.k) THEN Default(f.k) ELSE 0
DefaultOf(w) == [m \in Members(w) |-> Zero(FieldOf(w, m))]

-----------------------------------------------------------------------------
(* The Writer over a message's table.                                      *)

RECURSIVE EncodeUpTo(_, _, _)
Encode(type, v) == EncodeUpTo(type, v, Len(Messages[type].write))

Item(k, x) ==
  IF k = "Timestamp" THEN Delimited(Encode("TimestampParts", splitTimestamp(x)))
  ELSE IF IsMessage(k) THEN Delimited(Encode(k, x)) ELSE Payload(k, x)

Written(f, x) == tag(f.n, WireType(f.k)) \o Item(f.k, x)

Bytes(f, x) ==
  IF f.c = "each" THEN Concat([i \in DOMAIN x |-> Written(f, x[i])])
  ELSE IF Omitted(f, x) THEN <<>> ELSE Written(f, x)

BytesOf(w, v, fields) == Concat([i \in 1..fields |-> Bytes(w[i], v[w[i].m])])
EncodeUpTo(type, v, fields) == BytesOf(Messages[type].write, v, fields)

(* Out-parameters a decoder only assigns when the whole message decoded.   *)
AssignedOnSuccess == {"Timestamp", "Color", "AnnotationColor", "MarkerColor"}

-----------------------------------------------------------------------------
(* The Reader over a message's table.  A handler that fails leaves the     *)
(* reader where its failing read stopped; parseFields then calls skip from *)
(* there.                                                                  *)

RECURSIVE Decode(_, _, _, _, _)

(* A delimited field with a nested message in it.                          *)
TimestampIn(n, pos) ==
  LET c == combineSecondsAndNanos(n.val.seconds, n.val.nanos) IN Read(n.ok /\ c.ok, pos, c.val)

NestedIn(k, cur, buf, b) ==
  IF ~b.ok THEN Read(FALSE, b.pos, cur)
  ELSE IF k = "Timestamp"
  THEN TimestampIn(Decode("TimestampParts", buf, b.val, b.pos - 1, Default("TimestampParts")), b.pos)
  ELSE [Decode(k, buf, b.val, b.pos - 1, cur) EXCEPT !.pos = b.pos]

Value(k, cur, buf, pos, end) ==
  IF IsMessage(k) \/ k = "Timestamp" THEN NestedIn(k, cur, buf, readBytes(buf, pos, end))
  ELSE readScalarOrBlob(k, buf, pos, end)

(* Where handler h decodes to: a fresh object or the member itself.        *)
Fresh(h) == h.into = "vector" \/ h.k \in AssignedOnSuccess
Target(h, cur) == IF ~IsMessage(h.k) THEN 0 ELSE IF Fresh(h) THEN Default(h.k) ELSE cur

Stored(h, cur, val) ==
  CASE h.into = "vector" -> Append(cur, val)
    [] h.into = "optional" -> <<val>>
    [] h.into = "member" -> IF h.k \in {"packed32", "packed64"} THEN cur \o val ELSE val

(* reader.skip, and the rest of the message behind it.                     *)
Skipped(type, buf, s, end, out) ==
  IF s.ok THEN Decode(type, buf, s.pos, end, out) ELSE Read(FALSE, s.pos, out)
SkipFrom(pos, type, t, buf, end, out) == Skipped(type, buf, skip(t.val % 8, buf, pos, end), end, out)

(* Handler h read v; a member that is decoded in place keeps what it got.  *)
Handled(v, h, type, style, t, buf, end, out) ==
  LET kept == IF v.ok \/ (IsMessage(h.k) /\ ~Fresh(h)) THEN [out EXCEPT ![h.m] = Stored(h, @, v.val)] ELSE out
  IN IF v.ok THEN Decode(type, buf, v.pos, end, kept)
     ELSE IF style = "strict" THEN Read(FALSE, v.pos, kept)
     ELSE SkipFrom(v.pos, type, t, buf, end, kept)
Handle(h, type, style, t, buf, end, out) ==
  Handled(Value(h.k, Target(h, out[h.m]), buf, t.pos, end), h, type, style, t, buf, end, out)

(* One turn of parseFields: the tag t, then the handler of that number and *)
(* wire type, if there is one.                                             *)
OnTag(t, type, msg, buf, end, out) ==
  LET known == {i \in DOMAIN msg.read : msg.read[i].n = t.val \div 8 /\ WireType(msg.read[i].k) = t.val % 8}
  IN IF ~t.ok \/ t.val \div 8 = 0 THEN Read(FALSE, t.pos, out)
     ELSE IF known # {} THEN Handle(msg.read[CHOOSE i \in known : TRUE], type, msg.style, t, buf, end, out)
     ELSE SkipFrom(IF msg.style = "readFirst" /\ t.val % 8 = 0 THEN readVarint(buf, t.pos, end).pos ELSE t.pos,
                   type, t, buf, end, out)

Decode(type, buf, pos, end, out) ==
  IF pos > end THEN Read(TRUE, pos, out)
  ELSE OnTag(readVarint(buf, pos, end), type, Messages[type], buf, end, out)

(* validateLayout (grid_map_codec.cpp): a data-less grid is the spliced    *)
(* form, whose bytes are attached later.                                   *)
bytesPerElement == <<1, 1, 2, 2, 4, 4, 4, 8>>

validateLayout(g) ==
  /\ \A i \in DOMAIN g.fields :
       LET f == g.fields[i]
       IN /\ f.datatype \in DOMAIN bytesPerElement /\ f.count # 0
          /\ f.offset + bytesPerElement[f.datatype] * f.count <= g.cell_stride
  /\ g.column_count > 0 /\ g.row_count > 0 =>
       /\ g.cell_stride # 0 /\ g.row_stride # 0
       /\ g.row_stride >= g.column_count * g.cell_stride
       /\ g.data # <<>> => Len(g.data) >= g.row_count * g.row_stride

(* deserializeAs: a type-tagged empty buffer is the default object; the    *)
(* codec decides about any other.                                          *)
deserializeBuiltinObject(type, buf) ==
  IF buf = <<>> THEN Read(TRUE, 1, Default(type))
  ELSE LET d == Decode(type, buf, 1, Len(buf), Default(type))
       IN [d EXCEPT !.ok = d.ok /\ (type = "kGridMap" => validateLayout(d.val))]

serializeBuiltinObject(type, v) == Encode(type, v)

-----------------------------------------------------------------------------
(* The journey of an object.                                               *)

VARIABLES
  object,     \* the object a producer sends: its type tag and its value
  wire,       \* its bytes
  fault,      \* what happened to them in transit
  got         \* the consumer's answer, or NotYet

codec_vars == <<object, wire, fault, got>>

NotYet == Read(FALSE, 0, 0)

(* Sample objects: every member distinct from its neighbours, vectors of   *)
(* "many" elements, all times equal to "time", "size" bytes of data, every *)
(* enumeration at its enumerator number "e", which may be one that only    *)
(* the producer's release has.                                             *)
Samples == ("column_count" :> 1) @@ ("row_count" :> 1) @@ ("cell_stride" :> 12) @@ ("row_stride" :> 12)
             @@ ("count" :> 2) @@ ("x" :> 201) @@ ("width" :> 300)

Repeats(f, many) == IF f.k = "float" THEN (IF many = 0 THEN 0 ELSE 1) ELSE many

RECURSIVE SampleOf(_, _, _, _, _)
Sample(type, many, time, size, e) == SampleOf(Messages[type].write, many, time, size, e)

One(f, many, time, size, e) ==
  CASE f.k = "Timestamp" -> time
    [] f.k = "word" -> time
    [] f.k \in DOMAIN Enumerators -> e
    [] f.k = "bool" -> 1
    [] f.k = "i32" -> -f.n
    [] f.k \in Scalars -> IF f.m \in DOMAIN Samples THEN Samples[f.m] ELSE f.n
    [] f.m = "data" -> [i \in 1..size |-> i]
    [] f.k = "array" -> [i \in 1..ArraySize |-> f.n + i]
    [] f.k \in Blobs -> [i \in 1..many |-> f.n + i]
    [] OTHER -> Sample(f.k, many, time, size, e)

Some(f, many, time, size, e) ==
  IF f.c = "each" THEN [i \in 1..Repeats(f, many) |-> One(f, many, time, size, e)] ELSE One(f, many, time, size, e)

SampleOf(w, many, time, size, e) == [m \in Members(w) |-> Some(FieldOf(w, m), many, time, size, e)]

NoObject == [type |-> "kLog", value |-> Default("kLog")]

Init == object = NoObject /\ wire = <<>> /\ fault = "idle" /\ got = NotYet

(* A producer serializes an object.                                        *)
Serialize(type, many, time, size, e) ==
  /\ fault = "idle"
  /\ object' = [type |-> type, value |-> Sample(type, many, time, size, e)]
  /\ wire' = serializeBuiltinObject(type, object'.value)
  /\ fault' = "none" /\ UNCHANGED got

Fields(type) == Len(Messages[type].write)

(* A field this consumer's release does not know, after the first n.       *)
UnknownField(type) ==
  tag(30, type) \o (CASE type = 0 -> <<7>> [] type = 1 -> appendFixed(8, 7) [] type = 2 -> <<2, 9, 9>>
                     [] OTHER -> appendFixed(4, 7))

GainField(n, type) ==
  LET before == Len(EncodeUpTo(object.type, object.value, n))
  IN /\ fault = "none" /\ got = NotYet
     /\ wire' = SubSeq(wire, 1, before) \o UnknownField(type) \o SubSeq(wire, before + 1, Len(wire))
     /\ fault' = "gained"
     /\ UNCHANGED <<object, got>>

(* The producer's release ends its message after the first n fields: the   *)
(* consumer finds the others at their defaults.                            *)
EndEarly(n) ==
  LET w == Messages[object.type].write
      kept == {w[i].m : i \in 1..n}
      d == Default(object.type)
  IN /\ fault = "none" /\ got = NotYet
     /\ object' = [object EXCEPT !.value = [m \in DOMAIN d |-> IF m \in kept THEN @[m] ELSE d[m]]]
     /\ wire' = EncodeUpTo(object.type, object.value, n)
     /\ fault' = "older"
     /\ UNCHANGED got

(* The lengths at which the buffer ends with a whole field.                *)
RECURSIVE FieldEnds(_, _)
FieldEnds(buf, pos) ==
  LET t == readVarint(buf, pos, Len(buf))
  IN {pos - 1} \union (IF pos > Len(buf) THEN {} ELSE FieldEnds(buf, skip(t.val % 8, buf, t.pos, Len(buf)).pos))

(* The buffer is cut after n bytes, inside a field of the message.         *)
Truncate(n) ==
  /\ fault = "none" /\ got = NotYet
  /\ n < Len(wire) /\ n \notin FieldEnds(wire, 1)
  /\ wire' = SubSeq(wire, 1, n)
  /\ fault' = "truncated"
  /\ UNCHANGED <<object, got>>

Deserialize ==
  /\ fault # "idle" /\ got = NotYet
  /\ got' = deserializeBuiltinObject(object.type, wire)
  /\ UNCHANGED <<object, wire, fault>>

(* The consumer drops the object.                                          *)
Drop ==
  /\ got # NotYet
  /\ object' = NoObject /\ wire' = <<>> /\ fault' = "idle" /\ got' = NotYet

Next ==
  \/ \E type \in DOMAIN Objects, many \in {0, 2}, time \in Times, size \in {0, 3, 12} :
       Serialize(type, many, time, size, 1)
  \/ \E type \in DOMAIN Objects, e \in 0..9 : Serialize(type, 2, 0, 12, e)
  \/ \E n \in 0..Fields(object.type), type \in {0, 1, 2, 5} : GainField(n, type)
  \/ \E n \in 0..Fields(object.type) : EndEarly(n)
  \/ \E n \in CutPoints : Truncate(n)
  \/ Deserialize
  \/ Drop

Spec == Init /\ [][Next]_codec_vars

-----------------------------------------------------------------------------
(* The object as this release can say it: an enumerator it does not        *)
(* declare is the default one.                                             *)
RECURSIVE AsDeclared(_, _)
DeclaredItem(k, x) ==
  IF k \in DOMAIN Enumerators THEN IF x \in Enumerators[k] THEN x ELSE 0
  ELSE IF IsMessage(k) THEN AsDeclared(k, x) ELSE x
DeclaredField(f, x) ==
  IF f.c = "each" THEN [i \in DOMAIN x |-> DeclaredItem(f.k, x[i])] ELSE DeclaredItem(f.k, x)
AsDeclared(type, v) == [m \in DOMAIN v |-> DeclaredField(FieldOf(Messages[type].write, m), v[m])]

Valid(v) == object.type = "kGridMap" => validateLayout(v)

(* What a consumer decodes is what the producer sent: whole, with a field  *)
(* it does not know at any place of the message, from a producer that      *)
(* knows fewer fields, and from one that knows more enumerators, which     *)
(* become the default.  Only a grid map whose layout does not hold its     *)
(* cells, or names a datatype this release does not know, is refused.  For *)
(* every builtin type and enumerator, at the edges of the time range, with *)
(* empty and with repeated members.                                        *)
DecodesWhatWasSent ==
  got # NotYet /\ fault # "truncated" =>
    LET sent == AsDeclared(object.type, object.value) IN got.ok = Valid(sent) /\ (got.ok => got.val = sent)

(* parseFields: "Returns false on truncation / malformed input".  A buffer *)
(* that ends inside a field is not a message.                              *)
TruncationIsRejected == got # NotYet /\ fault = "truncated" => ~got.ok
=============================================================================
