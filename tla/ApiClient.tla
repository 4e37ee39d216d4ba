------------------------------ MODULE ApiClient ------------------------------
(***************************************************************************)
(* The operations of the generated API client of the editor                *)
(* (packages/api/src/client/generated/client.ts) that ProjectCache uses:   *)
(* those that fill the queries of a project, and those that the hooks of   *)
(* packages/actions send to change it.  What the model tells apart is      *)
(* kept: the method, and the resource that the path names.  The key of a   *)
(* query is its path, so the resource names the cache entry too; the parts *)
(* of a resource (an anchor, a keyframe) share its name, for their         *)
(* operations change the entry of the whole.                               *)
(***************************************************************************)

Get(resource) == [method |-> "GET", resource |-> resource]
Post(resource) == [method |-> "POST", resource |-> resource]
Patch(resource) == [method |-> "PATCH", resource |-> resource]
Delete(resource) == [method |-> "DELETE", resource |-> resource]

-----------------------------------------------------------------------------
(* /api/v1/projects/{project_id} and the resources below it                *)

getProject == Get("project")

listAnchors == Get("anchors")
createAnchor == Post("anchors")
updateAnchor == Patch("anchors")
deleteAnchor == Delete("anchors")

listScenePoints == Get("scenePoints")

listSceneObjects == Get("sceneObjects")
createSceneObject == Post("sceneObjects")
updateSceneObject == Patch("sceneObjects")
deleteSceneObject == Delete("sceneObjects")

getTrajectory == Get("segments")
clearTrajectory == Delete("trajectory")
getCompiledTrajectory == Get("compiled")

getSpeedTimeline == Get("speed")
deleteSpeedTimeline == Delete("speed")
deleteSpeedKeyframe == Delete("speed")

getAimTimeline == Get("aim")
deleteAimTimeline == Delete("aim")
deleteCameraAimKeyframe == Delete("aim")

getOrientationTimeline == Get("orientation")
updateCameraOrientation == Patch("orientation")
deleteOrientationTimeline == Delete("orientation")
createCameraOrientationKeyframe == Post("orientation")
updateCameraOrientationKeyframe == Patch("orientation")
deleteCameraOrientationKeyframe == Delete("orientation")

getDepthOfFieldTimeline == Get("depthOfField")
createDepthOfFieldTimeline == Post("depthOfField")
deleteDepthOfFieldTimeline == Delete("depthOfField")
createDepthOfFieldKeyframe == Post("depthOfField")
deleteDepthOfFieldKeyframe == Delete("depthOfField")

getLidarTimeline == Get("lidar")
setLidarTimeline == Patch("lidar")
deleteLidarTimeline == Delete("lidar")

listChatMessages == Get("chat")
saveUserChatMessage == Post("chat")
createChatMessage == Post("agent")
=============================================================================
